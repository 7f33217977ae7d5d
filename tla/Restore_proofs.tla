--------------------------- MODULE Restore_proofs ---------------------------
(***************************************************************************)
(* Proofs about Restore, for any number of restores, writes and faults.    *)
(***************************************************************************)
EXTENDS Restore, TLAPS

-----------------------------------------------------------------------------
(* The inductive invariant: what the restore may rely on at its place.      *)

\* Places before production is renamed.
Early == {"verifying", "filling", "filled", "unverified", "dropped", "verified", "applying",
          "checking", "closing", "renaming"}

\* Places of an apply whose "apply_started" is durable and which has no result yet.
Applying == {"applying", "checking", "closing", "renaming", "preparing", "proving", "dropping",
             "succeeded", "failing", "returning", "opening", "undone", "stuck"}

\* A restore that runs has a number; before the swap it is not marked swapped, within it is.
Numbered ==
    /\ run.pc # "none" => run.number \in Restores
    /\ run.pc \in Early => ~run.swapped
    /\ run.pc \in {"preparing", "proving"} => run.swapped

\* The recovery name of a restore is free until production is renamed to it; then it holds
\* complete data of an earlier restore.
RecoveryKept ==
    /\ \A k \in Restores :
          k > run.number \/ (k = run.number /\ run.pc \in Early) => ~recovery[k].there
    /\ \A k \in Restores : recovery[k].there => recovery[k].whole /\ recovery[k].data.of < k

\* The scratch database is this restore's; once verified it is complete.
ScratchReady ==
    /\ run.pc = "filling" => scratch.there /\ scratch.open /\ scratch.data.of = run.number
    /\ run.pc \in {"filled", "verified", "applying", "checking", "closing", "renaming", "preparing"} =>
          scratch.there /\ scratch.open /\ scratch.whole /\ scratch.data.of = run.number

\* Whose data has the production name.
TargetIs ==
    /\ target.there => target.whole /\ target.data.of <= run.number
    /\ run.pc \in Early => target.there /\ target.data.of < run.number
    /\ run.pc = "failing" /\ ~run.swapped /\ target.there => target.data.of < run.number
    /\ run.pc \in {"preparing", "returning"} => ~target.there
    /\ run.pc \in {"proving", "dropping", "succeeded"} =>
          target.there /\ target.open /\ target.data.of = run.number
    /\ run.pc = "failing" /\ run.swapped /\ target.there => target.data.of = run.number
    /\ run.pc = "opening" => target.there /\ target.data.of < run.number
    /\ run.pc = "undone" => target.there /\ target.open /\ target.data.of < run.number

\* Production's data is an earlier restore's until this one succeeds, and its dump is kept.
LiveIs ==
    /\ live.of <= run.number
    /\ run.pc \notin {"none", "succeeded", "tidying"} => live.of < run.number
    /\ run.pc \in {"closing", "renaming", "preparing", "proving", "dropping"} =>
          emergency[run.number].there /\ emergency[run.number].checked
    /\ run.pc = "checking" => emergency[run.number].there

IInv == Numbered /\ RecoveryKept /\ ScratchReady /\ TargetIs /\ LiveIs /\ DataSurvives

\* A restore without a durable "apply_started" has its data nowhere but in scratch.
Started ==
    /\ \A k \in Restores : k > run.number => journal[k] = <<>>
    /\ run.pc \in Applying => Wrote(run.number, "apply_started")
    /\ \A k \in Restores : recovery[k].there =>
          /\ Wrote(k, "apply_started")
          /\ recovery[k].data.of > 0 => Wrote(recovery[k].data.of, "apply_started")
    /\ target.there /\ target.data.of > 0 => Wrote(target.data.of, "apply_started")

\* The line of a result is the last of its restore.
Final == {"apply_failed_before_swap", "apply_rolled_back", "apply_succeeded"}
ResultIsLast ==
    run.number > 0 /\ journal[run.number] # <<>> /\ Newest.phase \in Final =>
        run.pc \in {"tidying", "none"}

JInv == Started /\ ResultIsLast /\ JournalTells
-----------------------------------------------------------------------------
(* What the helpers of the actions do.                                      *)

RunType == [number : 0..MaxRestores, pc : Places, swapped : BOOLEAN]

LEMMA GotoIs ==
  ASSUME TypeOK, NEW place \in Places, Goto(place)
  PROVE  /\ run' \in RunType
         /\ run'.pc = place
         /\ run'.number = run.number
         /\ run'.swapped = run.swapped
  BY DEF TypeOK, Goto, RunType

LEMMA FaultIs ==
  ASSUME TypeOK, Fault
  PROVE  faults' \in 0..MaxFaults /\ faults' = faults + 1
  BY RestoreAssumption DEF TypeOK, Fault

LEMMA AppendedIs ==
  ASSUME TypeOK, NEW k \in Restores, NEW phase \in Phases, NEW failed \in BOOLEAN,
         Appended(k, phase, failed)
  PROVE  journal' \in [Restores -> Seq(Line)] /\ torn' \in BOOLEAN
<1> DEFINE line == [phase |-> phase, rollbackFailed |-> failed, legible |-> ~torn]
<1>1. line \in Line
  BY DEF Line
<1>2. journal[k] \in Seq(Line)
  BY DEF TypeOK
<1> HIDE DEF line
<1>3. Append(journal[k], line) \in Seq(Line)
  BY <1>1, <1>2
<1>4. journal' = [journal EXCEPT ![k] = Append(@, line)] /\ torn' = FALSE
  BY DEF Appended, line
<1> QED
  BY <1>3, <1>4 DEF TypeOK

LEMMA NotAppendedIs ==
  ASSUME TypeOK, NEW k \in Restores, NEW phase \in Phases, NEW failed \in BOOLEAN,
         NotAppended(k, phase, failed)
  PROVE  /\ journal' \in [Restores -> Seq(Line)] /\ torn' \in BOOLEAN
         /\ faults' \in 0..MaxFaults /\ faults' >= faults
<1>1. faults' \in 0..MaxFaults /\ faults' >= faults
  BY FaultIs DEF NotAppended, TypeOK
<1>2. CASE Appended(k, phase, failed)
  BY <1>1, <1>2, AppendedIs
<1>3. CASE UNCHANGED journal /\ torn' \in {torn, TRUE}
  BY <1>1, <1>3 DEF TypeOK
<1> QED
  BY <1>2, <1>3 DEF NotAppended

LEMMA NoteIs ==
  ASSUME TypeOK, NEW k \in Restores, NEW phase \in Phases, NEW failed \in BOOLEAN,
         Note(k, phase, failed)
  PROVE  /\ journal' \in [Restores -> Seq(Line)] /\ torn' \in BOOLEAN
         /\ faults' \in 0..MaxFaults /\ faults' >= faults
<1>1. CASE Appended(k, phase, failed) /\ UNCHANGED faults
  BY <1>1, AppendedIs DEF TypeOK
<1>2. CASE NotAppended(k, phase, failed)
  BY <1>2, NotAppendedIs
<1> QED
  BY <1>1, <1>2 DEF Note

LEMMA NewTypes ==
  /\ Absent \in Database
  /\ NoDump \in Dump
  /\ \A k \in Restores :
        [there |-> TRUE, data |-> [of |-> k, writes |-> 0], whole |-> FALSE, open |-> TRUE] \in Database
  BY RestoreAssumption DEF Absent, Database, NoDump, Dump, Data, First, Restores

-----------------------------------------------------------------------------
(* Every action keeps the types and the inductive invariant.                *)

\* A new scratch database is this restore's.
LEMMA CreateScratchKeeps ==
  ASSUME TypeOK, IInv, CreateScratch
  PROVE  TypeOK' /\ IInv'
<1>1. /\ run.pc = "verifying" /\ run.number \in Restores
      /\ run' \in RunType /\ run'.pc \in {"filling", "unverified"}
      /\ run'.number = run.number /\ run'.swapped = run.swapped
  BY GotoIs DEF CreateScratch, At, Places, IInv, Numbered
<1>2. faults' \in 0..MaxFaults /\ faults' >= faults
  BY FaultIs DEF CreateScratch, TypeOK
<1>3. UNCHANGED <<target, recovery, emergency, journal, live, torn>>
  BY DEF CreateScratch
<1>4. /\ scratch' \in Database
      /\ run'.pc = "filling" => scratch'.there /\ scratch'.open /\ scratch'.data.of = run.number
  BY <1>1, NewTypes, GotoIs DEF CreateScratch, K, TypeOK, Places
<1>5. TypeOK'
  BY <1>1, <1>2, <1>3, <1>4 DEF TypeOK, RunType
<1>6. Numbered'
  BY <1>1, <1>2, <1>3 DEF TypeOK, IInv, Numbered, Early
<1>7. RecoveryKept'
  BY <1>1, <1>3, <1>4 DEF IInv, RecoveryKept, Early
<1>8. ScratchReady'
  BY <1>1, <1>3, <1>4 DEF IInv, ScratchReady
<1>9. TargetIs'
  BY <1>1, <1>3, <1>4 DEF IInv, TargetIs, Numbered, Early
<1>10. LiveIs'
  BY <1>1, <1>3, <1>4 DEF IInv, LiveIs
<1>11. DataSurvives'
  BY <1>1, <1>3, <1>4 DEF IInv, DataSurvives
<1> QED
  BY <1>5, <1>6, <1>7, <1>8, <1>9, <1>10, <1>11 DEF IInv

\* Only a scratch database that was filled whole is verified.
LEMMA FillScratchKeeps ==
  ASSUME TypeOK, IInv, FillScratch
  PROVE  TypeOK' /\ IInv'
<1>1. /\ run.pc = "filling" /\ run.number \in Restores
      /\ run' \in RunType /\ run'.pc \in {"filled", "unverified"}
      /\ run'.number = run.number /\ run'.swapped = run.swapped
  BY GotoIs DEF FillScratch, At, Places, IInv, Numbered
<1>2. faults' \in 0..MaxFaults /\ faults' >= faults
  BY FaultIs DEF FillScratch, TypeOK
<1>3. UNCHANGED <<target, recovery, emergency, journal, live, torn>>
  BY DEF FillScratch
<1>4. /\ scratch' \in Database
      /\ scratch'.there = scratch.there /\ scratch'.open = scratch.open
      /\ scratch'.data = scratch.data
      /\ run'.pc = "filled" => scratch'.whole
  BY <1>1, GotoIs DEF FillScratch, Verifies, TypeOK, Places, Database
<1>5. TypeOK'
  BY <1>1, <1>2, <1>3, <1>4 DEF TypeOK, RunType
<1>6. Numbered'
  BY <1>1, <1>2, <1>3 DEF TypeOK, IInv, Numbered, Early
<1>7. RecoveryKept'
  BY <1>1, <1>3, <1>4 DEF IInv, RecoveryKept, Early
<1>8. ScratchReady'
  BY <1>1, <1>3, <1>4 DEF IInv, ScratchReady
<1>9. TargetIs'
  BY <1>1, <1>3, <1>4 DEF IInv, TargetIs, Numbered, Early
<1>10. LiveIs'
  BY <1>1, <1>3, <1>4 DEF IInv, LiveIs
<1>11. DataSurvives'
  BY <1>1, <1>3, <1>4 DEF IInv, DataSurvives
<1> QED
  BY <1>5, <1>6, <1>7, <1>8, <1>9, <1>10, <1>11 DEF IInv

\* A journal line touches no database.
LEMMA NoteVerifiedKeeps ==
  ASSUME TypeOK, IInv, NoteVerified
  PROVE  TypeOK' /\ IInv'
<1>1. /\ run.pc = "filled" /\ run.number \in Restores
      /\ run' \in RunType /\ run'.pc = "verified"
      /\ run'.number = run.number /\ run'.swapped = run.swapped
  BY GotoIs DEF NoteVerified, At, Places, IInv, Numbered
<1>2. /\ journal' \in [Restores -> Seq(Line)] /\ torn' \in BOOLEAN
      /\ faults' \in 0..MaxFaults /\ faults' >= faults
  BY <1>1, NoteIs DEF K, NoteVerified, Phases
<1>3. UNCHANGED <<target, scratch, recovery, emergency, live>>
  BY DEF NoteVerified, databases
<1>4. TypeOK'
  BY <1>1, <1>2, <1>3 DEF TypeOK, RunType
<1>5. Numbered'
  BY <1>1, <1>2, <1>3 DEF TypeOK, IInv, Numbered, Early
<1>6. RecoveryKept'
  BY <1>1, <1>3 DEF IInv, RecoveryKept, Early
<1>7. ScratchReady'
  BY <1>1, <1>3 DEF IInv, ScratchReady
<1>8. TargetIs'
  BY <1>1, <1>3 DEF IInv, TargetIs, Numbered, Early
<1>9. LiveIs'
  BY <1>1, <1>3 DEF IInv, LiveIs
<1>10. DataSurvives'
  BY <1>1, <1>3 DEF IInv, DataSurvives
<1> QED
  BY <1>4, <1>5, <1>6, <1>7, <1>8, <1>9, <1>10 DEF IInv

\* A failed verification has nothing to keep.
LEMMA DropUnverifiedKeeps ==
  ASSUME TypeOK, IInv, DropUnverified
  PROVE  TypeOK' /\ IInv'
<1>1. /\ run.pc = "unverified" /\ run.number \in Restores
      /\ run' \in RunType /\ run'.pc = "dropped"
      /\ run'.number = run.number /\ run'.swapped = run.swapped
  BY GotoIs DEF DropUnverified, At, Places, IInv, Numbered
<1>2. faults' \in 0..MaxFaults /\ faults' >= faults
  BY FaultIs DEF DropUnverified, TypeOK
<1>3. UNCHANGED <<target, recovery, emergency, journal, live, torn>>
  BY DEF DropUnverified
<1>4. scratch' \in Database
  BY NewTypes DEF DropUnverified, TypeOK
<1>5. TypeOK'
  BY <1>1, <1>2, <1>3, <1>4 DEF TypeOK, RunType
<1>6. Numbered'
  BY <1>1, <1>2, <1>3 DEF TypeOK, IInv, Numbered, Early
<1>7. RecoveryKept'
  BY <1>1, <1>3, <1>4 DEF IInv, RecoveryKept, Early
<1>8. ScratchReady'
  BY <1>1, <1>3, <1>4 DEF IInv, ScratchReady
<1>9. TargetIs'
  BY <1>1, <1>3, <1>4 DEF IInv, TargetIs, Numbered, Early
<1>10. LiveIs'
  BY <1>1, <1>3, <1>4 DEF IInv, LiveIs
<1>11. DataSurvives'
  BY <1>1, <1>3, <1>4 DEF IInv, DataSurvives
<1> QED
  BY <1>5, <1>6, <1>7, <1>8, <1>9, <1>10, <1>11 DEF IInv

\* The same of the line of a failed verification.
LEMMA NoteUnverifiedKeeps ==
  ASSUME TypeOK, IInv, NoteUnverified
  PROVE  TypeOK' /\ IInv'
<1>1. /\ run.pc = "dropped" /\ run.number \in Restores
      /\ run' \in RunType /\ run'.pc = "none"
      /\ run'.number = run.number /\ run'.swapped = run.swapped
  BY GotoIs DEF NoteUnverified, At, Places, IInv, Numbered
<1>2. /\ journal' \in [Restores -> Seq(Line)] /\ torn' \in BOOLEAN
      /\ faults' \in 0..MaxFaults /\ faults' >= faults
  BY <1>1, NoteIs DEF K, NoteUnverified, Phases
<1>3. UNCHANGED <<target, scratch, recovery, emergency, live>>
  BY DEF NoteUnverified, databases
<1>4. TypeOK'
  BY <1>1, <1>2, <1>3 DEF TypeOK, RunType
<1>5. Numbered'
  BY <1>1, <1>2, <1>3 DEF TypeOK, IInv, Numbered, Early
<1>6. RecoveryKept'
  BY <1>1, <1>3 DEF IInv, RecoveryKept, Early
<1>7. ScratchReady'
  BY <1>1, <1>3 DEF IInv, ScratchReady
<1>8. TargetIs'
  BY <1>1, <1>3 DEF IInv, TargetIs, Numbered, Early
<1>9. LiveIs'
  BY <1>1, <1>3 DEF IInv, LiveIs
<1>10. DataSurvives'
  BY <1>1, <1>3 DEF IInv, DataSurvives
<1> QED
  BY <1>4, <1>5, <1>6, <1>7, <1>8, <1>9, <1>10 DEF IInv

\* A verification ends.
LEMMA VerifyOnlyKeeps ==
  ASSUME TypeOK, IInv, VerifyOnly
  PROVE  TypeOK' /\ IInv'
<1>1. /\ run.pc = "verified" /\ run.number \in Restores
      /\ run' \in RunType /\ run'.pc = "tidying"
      /\ run'.number = run.number /\ run'.swapped = run.swapped
  BY GotoIs DEF VerifyOnly, At, Places, IInv, Numbered
<1>2. faults' \in 0..MaxFaults /\ faults' >= faults
  BY DEF VerifyOnly, TypeOK
<1>3. UNCHANGED <<target, scratch, recovery, emergency, live, torn, journal>>
  BY DEF VerifyOnly, databases
<1>4. TypeOK'
  BY <1>1, <1>2, <1>3 DEF TypeOK, RunType
<1>5. Numbered'
  BY <1>1, <1>2, <1>3 DEF TypeOK, IInv, Numbered, Early
<1>6. RecoveryKept'
  BY <1>1, <1>3 DEF IInv, RecoveryKept, Early
<1>7. ScratchReady'
  BY <1>1, <1>3 DEF IInv, ScratchReady
<1>8. TargetIs'
  BY <1>1, <1>3 DEF IInv, TargetIs, Numbered, Early
<1>9. LiveIs'
  BY <1>1, <1>3 DEF IInv, LiveIs
<1>10. DataSurvives'
  BY <1>1, <1>3 DEF IInv, DataSurvives
<1> QED
  BY <1>4, <1>5, <1>6, <1>7, <1>8, <1>9, <1>10 DEF IInv

\* An apply starts with its line or not at all.
LEMMA JournalApplyStartedKeeps ==
  ASSUME TypeOK, IInv, JournalApplyStarted
  PROVE  TypeOK' /\ IInv'
<1>1. /\ run.pc = "verified" /\ run.number \in Restores
      /\ run' \in RunType /\ run'.pc \in {"applying", "tidying"}
      /\ run'.number = run.number /\ run'.swapped = run.swapped
  BY GotoIs DEF JournalApplyStarted, At, Places, IInv, Numbered
<1>2. /\ journal' \in [Restores -> Seq(Line)] /\ torn' \in BOOLEAN
      /\ faults' \in 0..MaxFaults /\ faults' >= faults
  BY <1>1, NoteIs DEF K, JournalApplyStarted, Note, Phases
<1>3. UNCHANGED <<target, scratch, recovery, emergency, live>>
  BY DEF JournalApplyStarted, databases
<1>4. TypeOK'
  BY <1>1, <1>2, <1>3 DEF TypeOK, RunType
<1>5. Numbered'
  BY <1>1, <1>2, <1>3 DEF TypeOK, IInv, Numbered, Early
<1>6. RecoveryKept'
  BY <1>1, <1>3 DEF IInv, RecoveryKept, Early
<1>7. ScratchReady'
  BY <1>1, <1>3 DEF IInv, ScratchReady
<1>8. TargetIs'
  BY <1>1, <1>3 DEF IInv, TargetIs, Numbered, Early
<1>9. LiveIs'
  BY <1>1, <1>3 DEF IInv, LiveIs
<1>10. DataSurvives'
  BY <1>1, <1>3 DEF IInv, DataSurvives
<1> QED
  BY <1>4, <1>5, <1>6, <1>7, <1>8, <1>9, <1>10 DEF IInv

\* The emergency dump is this restore's, not the one production came from.
LEMMA DumpTargetKeeps ==
  ASSUME TypeOK, IInv, DumpTarget
  PROVE  TypeOK' /\ IInv'
<1>1. /\ run.pc = "applying" /\ run.number \in Restores
      /\ run' \in RunType /\ run'.pc \in {"checking", "failing"}
      /\ run'.number = run.number /\ run'.swapped = run.swapped
  BY GotoIs DEF DumpTarget, At, Places, IInv, Numbered, Fails
<1>2. faults' \in 0..MaxFaults /\ faults' >= faults
  BY FaultIs DEF DumpTarget, TypeOK, Fails
<1>3. UNCHANGED <<target, scratch, recovery, journal, live, torn>>
  BY DEF DumpTarget
<1>4. [there |-> TRUE, checked |-> FALSE, data |-> target.data] \in Dump
  BY DEF TypeOK, Database, Dump
<1>5. \/ /\ emergency' = [emergency EXCEPT ![run.number] =
                                [there |-> TRUE, checked |-> FALSE, data |-> target.data]]
         /\ run'.pc = "checking"
      \/ UNCHANGED emergency /\ run'.pc = "failing"
  BY GotoIs DEF DumpTarget, Fails, K, Places
<1>6. /\ emergency' \in [Restores -> Dump]
      /\ \A k \in Restores : k # run.number => emergency'[k] = emergency[k]
  BY <1>1, <1>4, <1>5 DEF TypeOK
<1>7. run'.pc = "checking" => emergency'[run.number].there
  BY <1>1, <1>5 DEF TypeOK
<1>8. live.of > 0 => live.of \in Restores /\ live.of # run.number
  <2>1. live.of \in 0..MaxRestores /\ MaxRestores \in Nat
    BY RestoreAssumption DEF TypeOK, Data
  <2>2. live.of < run.number
    BY <1>1 DEF IInv, LiveIs
  <2> QED
    BY <2>1, <2>2 DEF Restores
<1>9. TypeOK'
  BY <1>1, <1>2, <1>3, <1>4, <1>5, <1>6, <1>7, <1>8 DEF TypeOK, RunType
<1>10. Numbered'
  BY <1>1, <1>2, <1>3 DEF TypeOK, IInv, Numbered, Early
<1>11. RecoveryKept'
  BY <1>1, <1>3, <1>4, <1>5, <1>6, <1>7, <1>8 DEF IInv, RecoveryKept, Early
<1>12. ScratchReady'
  BY <1>1, <1>3, <1>4, <1>5, <1>6, <1>7, <1>8 DEF IInv, ScratchReady
<1>13. TargetIs'
  BY <1>1, <1>3, <1>4, <1>5, <1>6, <1>7, <1>8 DEF IInv, TargetIs, Numbered, Early
<1>14. LiveIs'
  BY <1>1, <1>3, <1>4, <1>5, <1>6, <1>7, <1>8 DEF IInv, LiveIs
<1>15. DataSurvives'
  BY <1>1, <1>3, <1>4, <1>5, <1>6, <1>7, <1>8 DEF IInv, DataSurvives
<1> QED
  BY <1>9, <1>10, <1>11, <1>12, <1>13, <1>14, <1>15 DEF IInv

\* A proved dump is there.
LEMMA CheckDumpKeeps ==
  ASSUME TypeOK, IInv, CheckDump
  PROVE  TypeOK' /\ IInv'
<1>1. /\ run.pc = "checking" /\ run.number \in Restores
      /\ run' \in RunType /\ run'.pc \in {"closing", "failing"}
      /\ run'.number = run.number /\ run'.swapped = run.swapped
  BY GotoIs DEF CheckDump, At, Places, IInv, Numbered, Fails
<1>2. faults' \in 0..MaxFaults /\ faults' >= faults
  BY FaultIs DEF CheckDump, TypeOK, Fails
<1>3. UNCHANGED <<target, scratch, recovery, journal, live, torn>>
  BY DEF CheckDump
<1>4. [emergency[run.number] EXCEPT !.checked = TRUE] \in Dump
  BY <1>1 DEF TypeOK, Dump
<1>5. \/ /\ emergency' = [emergency EXCEPT ![run.number].checked = TRUE] /\ run'.pc = "closing"
      \/ emergency' = [emergency EXCEPT ![run.number] = NoDump] /\ run'.pc = "failing"
  BY GotoIs DEF CheckDump, Fails, K, Places
<1>6. /\ emergency' \in [Restores -> Dump]
      /\ \A k \in Restores : k # run.number => emergency'[k] = emergency[k]
  BY <1>1, <1>4, <1>5, NewTypes DEF TypeOK
<1>7. run'.pc = "closing" => emergency'[run.number].there /\ emergency'[run.number].checked
  <2>1. emergency[run.number] \in Dump /\ emergency[run.number].there
    BY <1>1 DEF TypeOK, IInv, LiveIs
  <2>2. [emergency[run.number] EXCEPT !.checked = TRUE].there
    BY <2>1 DEF Dump
  <2>3. [emergency[run.number] EXCEPT !.checked = TRUE].checked
    BY <2>1 DEF Dump
  <2>4. CASE run'.pc = "closing"
    <3>1. emergency'[run.number] = [emergency[run.number] EXCEPT !.checked = TRUE]
      BY <1>1, <1>5, <2>4 DEF TypeOK
    <3> QED
      BY <2>2, <2>3, <3>1
  <2> QED
    BY <2>4
<1>8. live.of > 0 => live.of \in Restores /\ live.of # run.number
  <2>1. live.of \in 0..MaxRestores /\ MaxRestores \in Nat
    BY RestoreAssumption DEF TypeOK, Data
  <2>2. live.of < run.number
    BY <1>1 DEF IInv, LiveIs
  <2> QED
    BY <2>1, <2>2 DEF Restores
<1>9. TypeOK'
  BY <1>1, <1>2, <1>3, <1>4, <1>5, <1>6, <1>7, <1>8 DEF TypeOK, RunType
<1>10. Numbered'
  BY <1>1, <1>2, <1>3 DEF TypeOK, IInv, Numbered, Early
<1>11. RecoveryKept'
  BY <1>1, <1>3, <1>4, <1>5, <1>6, <1>7, <1>8 DEF IInv, RecoveryKept, Early
<1>12. ScratchReady'
  BY <1>1, <1>3, <1>4, <1>5, <1>6, <1>7, <1>8 DEF IInv, ScratchReady
<1>13. TargetIs'
  BY <1>1, <1>3, <1>4, <1>5, <1>6, <1>7, <1>8 DEF IInv, TargetIs, Numbered, Early
<1>14. LiveIs'
  BY <1>1, <1>3, <1>4, <1>5, <1>6, <1>7, <1>8 DEF IInv, LiveIs
<1>15. DataSurvives'
  BY <1>1, <1>3, <1>4, <1>5, <1>6, <1>7, <1>8 DEF IInv, DataSurvives
<1> QED
  BY <1>9, <1>10, <1>11, <1>12, <1>13, <1>14, <1>15 DEF IInv

\* Closing production changes nothing of its data.
LEMMA CloseTargetKeeps ==
  ASSUME TypeOK, IInv, CloseTarget
  PROVE  TypeOK' /\ IInv'
<1>1. /\ run.pc = "closing" /\ run.number \in Restores
      /\ run' \in RunType /\ run'.pc \in {"renaming", "failing"}
      /\ run'.number = run.number /\ run'.swapped = run.swapped
  BY GotoIs DEF CloseTarget, At, Places, IInv, Numbered, Fails
<1>2. faults' \in 0..MaxFaults /\ faults' >= faults
  BY FaultIs DEF CloseTarget, TypeOK, Fails
<1>3. UNCHANGED <<scratch, recovery, emergency, journal, live, torn>>
  BY DEF CloseTarget
<1>4. /\ target' \in Database
      /\ target'.there = target.there /\ target'.whole = target.whole /\ target'.data = target.data
  BY DEF CloseTarget, TypeOK, Database
<1>5. TypeOK'
  BY <1>1, <1>2, <1>3, <1>4 DEF TypeOK, RunType
<1>6. Numbered'
  BY <1>1, <1>2, <1>3 DEF TypeOK, IInv, Numbered, Early
<1>7. RecoveryKept'
  BY <1>1, <1>3, <1>4 DEF IInv, RecoveryKept, Early
<1>8. ScratchReady'
  BY <1>1, <1>3, <1>4 DEF IInv, ScratchReady
<1>9. TargetIs'
  BY <1>1, <1>3, <1>4 DEF IInv, TargetIs, Numbered, Early
<1>10. LiveIs'
  BY <1>1, <1>3, <1>4 DEF IInv, LiveIs
<1>11. DataSurvives'
  BY <1>1, <1>3, <1>4 DEF IInv, DataSurvives
<1> QED
  BY <1>5, <1>6, <1>7, <1>8, <1>9, <1>10, <1>11 DEF IInv

\* The proof of the new database changes nothing.
LEMMA ProveTargetKeeps ==
  ASSUME TypeOK, IInv, ProveTarget
  PROVE  TypeOK' /\ IInv'
<1>1. /\ run.pc = "proving" /\ run.number \in Restores
      /\ run' \in RunType /\ run'.pc \in {"dropping", "failing"}
      /\ run'.number = run.number /\ run'.swapped = run.swapped
  BY GotoIs DEF ProveTarget, At, Places, IInv, Numbered, Fails
<1>2. faults' \in 0..MaxFaults /\ faults' >= faults
  BY FaultIs DEF ProveTarget, TypeOK, Fails
<1>3. UNCHANGED <<target, scratch, recovery, emergency, live, torn, journal>>
  BY DEF ProveTarget, databases
<1>4. TypeOK'
  BY <1>1, <1>2, <1>3 DEF TypeOK, RunType
<1>5. Numbered'
  BY <1>1, <1>2, <1>3 DEF TypeOK, IInv, Numbered, Early
<1>6. RecoveryKept'
  BY <1>1, <1>3 DEF IInv, RecoveryKept, Early
<1>7. ScratchReady'
  BY <1>1, <1>3 DEF IInv, ScratchReady
<1>8. TargetIs'
  BY <1>1, <1>3 DEF IInv, TargetIs, Numbered, Early
<1>9. LiveIs'
  BY <1>1, <1>3 DEF IInv, LiveIs
<1>10. DataSurvives'
  BY <1>1, <1>3 DEF IInv, DataSurvives
<1> QED
  BY <1>4, <1>5, <1>6, <1>7, <1>8, <1>9, <1>10 DEF IInv

\* The line of a success touches no database.
LEMMA NoteSucceededKeeps ==
  ASSUME TypeOK, IInv, NoteSucceeded
  PROVE  TypeOK' /\ IInv'
<1>1. /\ run.pc = "succeeded" /\ run.number \in Restores
      /\ run' \in RunType /\ run'.pc = "tidying"
      /\ run'.number = run.number /\ run'.swapped = run.swapped
  BY GotoIs DEF NoteSucceeded, At, Places, IInv, Numbered
<1>2. /\ journal' \in [Restores -> Seq(Line)] /\ torn' \in BOOLEAN
      /\ faults' \in 0..MaxFaults /\ faults' >= faults
  BY <1>1, NoteIs DEF K, NoteSucceeded, Phases
<1>3. UNCHANGED <<target, scratch, recovery, emergency, live>>
  BY DEF NoteSucceeded, databases
<1>4. TypeOK'
  BY <1>1, <1>2, <1>3 DEF TypeOK, RunType
<1>5. Numbered'
  BY <1>1, <1>2, <1>3 DEF TypeOK, IInv, Numbered, Early
<1>6. RecoveryKept'
  BY <1>1, <1>3 DEF IInv, RecoveryKept, Early
<1>7. ScratchReady'
  BY <1>1, <1>3 DEF IInv, ScratchReady
<1>8. TargetIs'
  BY <1>1, <1>3 DEF IInv, TargetIs, Numbered, Early
<1>9. LiveIs'
  BY <1>1, <1>3 DEF IInv, LiveIs
<1>10. DataSurvives'
  BY <1>1, <1>3 DEF IInv, DataSurvives
<1> QED
  BY <1>4, <1>5, <1>6, <1>7, <1>8, <1>9, <1>10 DEF IInv

\* The line of a failure before the swap touches no database.
LEMMA FailBeforeSwapKeeps ==
  ASSUME TypeOK, IInv, FailBeforeSwap
  PROVE  TypeOK' /\ IInv'
<1>1. /\ run.pc = "failing" /\ run.number \in Restores
      /\ run' \in RunType /\ run'.pc = "tidying"
      /\ run'.number = run.number /\ run'.swapped = run.swapped
  BY GotoIs DEF FailBeforeSwap, At, Places, IInv, Numbered
<1>2. /\ journal' \in [Restores -> Seq(Line)] /\ torn' \in BOOLEAN
      /\ faults' \in 0..MaxFaults /\ faults' >= faults
  BY <1>1, NoteIs DEF K, FailBeforeSwap, Phases
<1>3. UNCHANGED <<target, scratch, recovery, emergency, live>>
  BY DEF FailBeforeSwap, databases
<1>4. TypeOK'
  BY <1>1, <1>2, <1>3 DEF TypeOK, RunType
<1>5. Numbered'
  BY <1>1, <1>2, <1>3 DEF TypeOK, IInv, Numbered, Early
<1>6. RecoveryKept'
  BY <1>1, <1>3 DEF IInv, RecoveryKept, Early
<1>7. ScratchReady'
  BY <1>1, <1>3 DEF IInv, ScratchReady
<1>8. TargetIs'
  BY <1>1, <1>3 DEF IInv, TargetIs, Numbered, Early
<1>9. LiveIs'
  BY <1>1, <1>3 DEF IInv, LiveIs
<1>10. DataSurvives'
  BY <1>1, <1>3 DEF IInv, DataSurvives
<1> QED
  BY <1>4, <1>5, <1>6, <1>7, <1>8, <1>9, <1>10 DEF IInv

\* Production is back under its name and opened.
LEMMA OpenTargetKeeps ==
  ASSUME TypeOK, IInv, OpenTarget
  PROVE  TypeOK' /\ IInv'
<1>1. /\ run.pc = "opening" /\ run.number \in Restores
      /\ run' \in RunType /\ run'.pc \in {"undone", "stuck"}
      /\ run'.number = run.number /\ run'.swapped = run.swapped
  BY GotoIs DEF OpenTarget, At, Places, IInv, Numbered, GivesUp
<1>2. faults' \in 0..MaxFaults /\ faults' >= faults
  BY FaultIs DEF OpenTarget, TypeOK, GivesUp
<1>3. UNCHANGED <<scratch, recovery, emergency, journal, live, torn>>
  BY DEF OpenTarget
<1>4. /\ target' \in Database
      /\ target'.there = target.there /\ target'.whole = target.whole /\ target'.data = target.data
      /\ run'.pc = "undone" => target'.open
  BY <1>1, GotoIs DEF OpenTarget, GivesUp, TypeOK, Database, Places
<1>5. TypeOK'
  BY <1>1, <1>2, <1>3, <1>4 DEF TypeOK, RunType
<1>6. Numbered'
  BY <1>1, <1>2, <1>3 DEF TypeOK, IInv, Numbered, Early
<1>7. RecoveryKept'
  BY <1>1, <1>3, <1>4 DEF IInv, RecoveryKept, Early
<1>8. ScratchReady'
  BY <1>1, <1>3, <1>4 DEF IInv, ScratchReady
<1>9. TargetIs'
  BY <1>1, <1>3, <1>4 DEF IInv, TargetIs, Numbered, Early
<1>10. LiveIs'
  BY <1>1, <1>3, <1>4 DEF IInv, LiveIs
<1>11. DataSurvives'
  BY <1>1, <1>3, <1>4 DEF IInv, DataSurvives
<1> QED
  BY <1>5, <1>6, <1>7, <1>8, <1>9, <1>10, <1>11 DEF IInv

\* The line of a rollback touches no database.
LEMMA NoteRolledBackKeeps ==
  ASSUME TypeOK, IInv, NoteRolledBack
  PROVE  TypeOK' /\ IInv'
<1>1. /\ run.pc \in {"undone", "stuck"} /\ run.number \in Restores
      /\ run' \in RunType /\ run'.pc = "tidying"
      /\ run'.number = run.number /\ run'.swapped = run.swapped
  BY GotoIs DEF NoteRolledBack, At, Places, IInv, Numbered
<1>2. /\ journal' \in [Restores -> Seq(Line)] /\ torn' \in BOOLEAN
      /\ faults' \in 0..MaxFaults /\ faults' >= faults
  BY <1>1, NoteIs DEF K, NoteRolledBack, Phases, At
<1>3. UNCHANGED <<target, scratch, recovery, emergency, live>>
  BY DEF NoteRolledBack, databases
<1>4. TypeOK'
  BY <1>1, <1>2, <1>3 DEF TypeOK, RunType
<1>5. Numbered'
  BY <1>1, <1>2, <1>3 DEF TypeOK, IInv, Numbered, Early
<1>6. RecoveryKept'
  BY <1>1, <1>3 DEF IInv, RecoveryKept, Early
<1>7. ScratchReady'
  BY <1>1, <1>3 DEF IInv, ScratchReady
<1>8. TargetIs'
  BY <1>1, <1>3 DEF IInv, TargetIs, Numbered, Early
<1>9. LiveIs'
  BY <1>1, <1>3 DEF IInv, LiveIs
<1>10. DataSurvives'
  BY <1>1, <1>3 DEF IInv, DataSurvives
<1> QED
  BY <1>4, <1>5, <1>6, <1>7, <1>8, <1>9, <1>10 DEF IInv

\* What is left of scratch belongs to nobody.
LEMMA TidyKeeps ==
  ASSUME TypeOK, IInv, Tidy
  PROVE  TypeOK' /\ IInv'
<1>1. /\ run.pc = "tidying" /\ run.number \in Restores
      /\ run' \in RunType /\ run'.pc = "none"
      /\ run'.number = run.number /\ run'.swapped = run.swapped
  BY GotoIs DEF Tidy, At, Places, IInv, Numbered
<1>2. faults' \in 0..MaxFaults /\ faults' >= faults
  BY FaultIs DEF Tidy, TypeOK
<1>3. UNCHANGED <<target, recovery, emergency, journal, live, torn>>
  BY DEF Tidy
<1>4. scratch' \in Database
  BY NewTypes DEF Tidy, TypeOK
<1>5. TypeOK'
  BY <1>1, <1>2, <1>3, <1>4 DEF TypeOK, RunType
<1>6. Numbered'
  BY <1>1, <1>2, <1>3 DEF TypeOK, IInv, Numbered, Early
<1>7. RecoveryKept'
  BY <1>1, <1>3, <1>4 DEF IInv, RecoveryKept, Early
<1>8. ScratchReady'
  BY <1>1, <1>3, <1>4 DEF IInv, ScratchReady
<1>9. TargetIs'
  BY <1>1, <1>3, <1>4 DEF IInv, TargetIs, Numbered, Early
<1>10. LiveIs'
  BY <1>1, <1>3, <1>4 DEF IInv, LiveIs
<1>11. DataSurvives'
  BY <1>1, <1>3, <1>4 DEF IInv, DataSurvives
<1> QED
  BY <1>5, <1>6, <1>7, <1>8, <1>9, <1>10, <1>11 DEF IInv

\* A restore begins with a number of its own, so that every database there is belongs to an earlier one.
LEMMA BeginKeeps ==
  ASSUME TypeOK, IInv, Begin
  PROVE  TypeOK' /\ IInv'
<1>1. /\ run.pc = "none" /\ target.there
      /\ run' \in RunType /\ run'.pc = "verifying"
      /\ run'.number = run.number + 1 /\ ~run'.swapped
      /\ run'.number \in Restores
  BY RestoreAssumption DEF Begin, At, RunType, Places, TypeOK, Restores
<1>2. Note(run'.number, "verify_started", FALSE)
  BY <1>1 DEF Begin
<1>3. /\ journal' \in [Restores -> Seq(Line)] /\ torn' \in BOOLEAN
      /\ faults' \in 0..MaxFaults /\ faults' >= faults
  BY <1>1, <1>2, NoteIs DEF Phases
<1>4. faults' \in 0..MaxFaults
  BY <1>3
<1>5. journal' \in [Restores -> Seq(Line)] /\ torn' \in BOOLEAN
  BY <1>3
<1>6. UNCHANGED <<target, scratch, recovery, emergency, live>>
  BY DEF Begin, databases
<1>7. run.number \in Nat /\ live.of \in Nat
  BY DEF TypeOK, Data
<1>8. target.data.of \in Nat
  BY DEF TypeOK, Data, Database
<1>9. TypeOK'
  BY <1>1, <1>2, <1>3, <1>4, <1>5, <1>6, <1>7, <1>8 DEF TypeOK, RunType
<1>10. Numbered'
  BY <1>1, <1>2, <1>3, <1>4, <1>5, <1>6, <1>7, <1>8 DEF TypeOK, IInv, Numbered, Early
<1>11. RecoveryKept'
  BY <1>1, <1>6, <1>7 DEF IInv, RecoveryKept, Early, Restores
<1>12. ScratchReady'
  BY <1>1, <1>2, <1>3, <1>4, <1>5, <1>6, <1>7, <1>8 DEF IInv, ScratchReady
<1>13. TargetIs'
  BY <1>1, <1>2, <1>3, <1>4, <1>5, <1>6, <1>7, <1>8 DEF IInv, TargetIs, Numbered, Early
<1>14. LiveIs'
  BY <1>1, <1>2, <1>3, <1>4, <1>5, <1>6, <1>7, <1>8 DEF IInv, LiveIs
<1>15. DataSurvives'
  BY <1>1, <1>2, <1>3, <1>4, <1>5, <1>6, <1>7, <1>8 DEF IInv, DataSurvives
<1> QED
  BY <1>9, <1>10, <1>11, <1>12, <1>13, <1>14, <1>15 DEF IInv

\* A death changes no database; what its place relied on is not relied on any more.
LEMMA DieKeeps ==
  ASSUME TypeOK, IInv, Die
  PROVE  TypeOK' /\ IInv'
<1>1. /\ run' \in RunType /\ run'.pc = "none"
      /\ run'.number = run.number
  BY DEF Die, RunType, TypeOK, Places
<1>2. faults' \in 0..MaxFaults /\ torn' \in BOOLEAN
  BY FaultIs DEF Die, TypeOK, Writing
<1>3. UNCHANGED <<target, scratch, recovery, emergency, journal, live>>
  BY DEF Die, databases
<1>4. TypeOK'
  BY <1>1, <1>2, <1>3 DEF TypeOK, RunType
<1>5. Numbered'
  BY <1>1, <1>2, <1>3 DEF TypeOK, IInv, Numbered, Early
<1>6. RecoveryKept'
  BY <1>1, <1>2, <1>3 DEF IInv, RecoveryKept, Early
<1>7. ScratchReady'
  BY <1>1, <1>2, <1>3 DEF IInv, ScratchReady
<1>8. TargetIs'
  BY <1>1, <1>2, <1>3 DEF IInv, TargetIs, Numbered, Early
<1>9. LiveIs'
  BY <1>1, <1>2, <1>3 DEF IInv, LiveIs
<1>10. DataSurvives'
  BY <1>1, <1>2, <1>3 DEF IInv, DataSurvives
<1> QED
  BY <1>4, <1>5, <1>6, <1>7, <1>8, <1>9, <1>10 DEF IInv

\* Only production's own data moves with a write into it.
LEMMA WriteKeeps ==
  ASSUME TypeOK, IInv, Write
  PROVE  TypeOK' /\ IInv'
<1>1. target.data \in Data /\ target.data.writes < MaxWrites
  BY DEF Write, TypeOK, Database
<1>2. /\ [target.data EXCEPT !.writes = @ + 1] \in Data
      /\ [target.data EXCEPT !.writes = @ + 1].of = target.data.of
  BY <1>1, RestoreAssumption DEF Data
<1>3. target' = [target EXCEPT !.data = [target.data EXCEPT !.writes = @ + 1]]
  BY DEF Write, TypeOK, Database
<1>4. /\ target' \in Database
      /\ target'.there = target.there /\ target'.whole = target.whole /\ target'.open = target.open
      /\ target'.data.of = target.data.of
  BY <1>2, <1>3 DEF TypeOK, Database
<1>5. /\ target.there
      /\ UNCHANGED <<scratch, recovery, emergency, journal, run, faults, torn>>
  BY DEF Write
<1>6. live' = IF live = target.data THEN target'.data ELSE live
  BY DEF Write
<1>7. live' \in Data /\ live'.of = live.of
  BY <1>4, <1>6 DEF TypeOK, Database
<1>8. TypeOK'
  BY <1>1, <1>2, <1>3, <1>4, <1>5, <1>6, <1>7 DEF TypeOK, RunType
<1>9. Numbered'
  BY <1>1, <1>2, <1>3, <1>4, <1>5, <1>6, <1>7 DEF TypeOK, IInv, Numbered, Early
<1>10. RecoveryKept'
  BY <1>1, <1>2, <1>3, <1>4, <1>5, <1>6, <1>7 DEF IInv, RecoveryKept, Early
<1>11. ScratchReady'
  BY <1>1, <1>2, <1>3, <1>4, <1>5, <1>6, <1>7 DEF IInv, ScratchReady
<1>12. TargetIs'
  BY <1>1, <1>2, <1>3, <1>4, <1>5, <1>6, <1>7 DEF IInv, TargetIs, Numbered, Early
<1>13. LiveIs'
  BY <1>1, <1>2, <1>3, <1>4, <1>5, <1>6, <1>7 DEF IInv, LiveIs
<1>14. DataSurvives'
  BY <1>4, <1>5, <1>6, <1>7 DEF IInv, TargetIs, DataSurvives
<1> QED
  BY <1>8, <1>9, <1>10, <1>11, <1>12, <1>13, <1>14 DEF IInv

\* Production becomes the recovery database, whose name was free.
LEMMA RenameTargetKeeps ==
  ASSUME TypeOK, IInv, RenameTarget
  PROVE  TypeOK' /\ IInv'
<1>1. /\ run.pc = "renaming" /\ run.number \in Restores /\ ~run.swapped
      /\ run' \in RunType /\ run'.number = run.number
  BY DEF RenameTarget, Answered, Fails, Goto, At, TypeOK, RunType, Places, IInv, Numbered, Early
<1>2. \/ run'.pc = "preparing" /\ run'.swapped /\ faults' = faults
      \/ run'.pc = "failing" /\ ~run'.swapped /\ Fault
  BY <1>1 DEF RenameTarget, Answered, Fails, Goto, TypeOK, RunType
<1>3. faults' \in 0..MaxFaults
  BY <1>2, FaultIs DEF TypeOK
<1>4. UNCHANGED <<scratch, emergency, journal, torn, live>>
  BY DEF RenameTarget
<1>5. \/ target' = Absent /\ recovery' = [recovery EXCEPT ![run.number] = target]
      \/ UNCHANGED <<target, recovery>> /\ run'.pc = "failing"
  BY <1>1, <1>2 DEF RenameTarget, Fails, Goto, K, TypeOK
<1>6. target' \in Database
  BY <1>5, NewTypes DEF TypeOK
<1>7. recovery' \in [Restores -> Database]
  BY <1>1, <1>5 DEF TypeOK
<1>8. \/ UNCHANGED <<target, recovery>> /\ run'.pc = "failing"
      \/ /\ recovery'[run.number] = target
         /\ \A k \in Restores : k # run.number => recovery'[k] = recovery[k]
         /\ ~target'.there
  BY <1>1, <1>5 DEF TypeOK, Absent
<1>9. target.there /\ target.whole /\ target.data.of < run.number /\ ~recovery[run.number].there
  BY <1>1 DEF IInv, TargetIs, RecoveryKept, Early
<1>10. run'.pc \in {"preparing", "failing"} /\ (run'.pc = "failing" => ~run'.swapped)
  BY <1>2
<1>11. run.number \in Nat /\ target.data.of \in Nat
  BY DEF TypeOK, Database, Data
<1>12. TypeOK'
  BY <1>1, <1>2, <1>3, <1>4, <1>5, <1>6, <1>7, <1>8, <1>9, <1>10, <1>11 DEF TypeOK, RunType
<1>13. Numbered'
  BY <1>1, <1>2, <1>3 DEF Numbered, Early
<1>14. RecoveryKept'
  BY <1>1, <1>8, <1>9, <1>10, <1>11 DEF IInv, RecoveryKept, Early, Restores
<1>15. ScratchReady'
  BY <1>1, <1>2, <1>3, <1>4, <1>5, <1>6, <1>7, <1>8, <1>9, <1>10, <1>11 DEF IInv, ScratchReady
<1>16. TargetIs'
  BY <1>1, <1>8, <1>9, <1>10, <1>11 DEF IInv, TargetIs, Early
<1>17. LiveIs'
  BY <1>1, <1>2, <1>3, <1>4, <1>5, <1>6, <1>7, <1>8, <1>9, <1>10, <1>11 DEF IInv, LiveIs
<1>18. DataSurvives'
  BY <1>1, <1>4, <1>8, <1>9 DEF IInv, DataSurvives
<1> QED
  BY <1>12, <1>13, <1>14, <1>15, <1>16, <1>17, <1>18 DEF IInv

\* The name is free, and the new database is whole and this restore's.
LEMMA RenameScratchKeeps ==
  ASSUME TypeOK, IInv, RenameScratch
  PROVE  TypeOK' /\ IInv'
<1>1. /\ run.pc = "preparing" /\ run.number \in Restores /\ run.swapped
      /\ run' \in RunType /\ run'.number = run.number /\ run'.swapped
      /\ run'.pc \in {"proving", "failing"}
  BY DEF RenameScratch, Answered, Fails, Goto, At, TypeOK, RunType, Places, IInv, Numbered
<1>2. faults' \in 0..MaxFaults
  BY FaultIs DEF RenameScratch, Answered, Fails, TypeOK
<1>3. UNCHANGED <<recovery, emergency, journal, torn, live>>
  BY DEF RenameScratch
<1>4. \/ target' = scratch /\ scratch' = Absent
      \/ UNCHANGED <<target, scratch>> /\ run'.pc = "failing"
  BY <1>1 DEF RenameScratch, Answered, Fails, Goto, TypeOK
<1>5. target' \in Database /\ scratch' \in Database
  BY <1>4, NewTypes DEF TypeOK
<1>6. /\ scratch.there /\ scratch.open /\ scratch.whole /\ scratch.data.of = run.number
      /\ ~target.there
  BY <1>1 DEF IInv, ScratchReady, TargetIs
<1>7. \/ target'.there /\ target'.open /\ target'.whole /\ target'.data.of = run.number
      \/ ~target'.there /\ run'.pc = "failing"
  BY <1>4, <1>6
<1>8. run.number \in Nat
  BY DEF TypeOK
<1>9. TypeOK'
  BY <1>1, <1>2, <1>3, <1>4, <1>5, <1>6, <1>7, <1>8 DEF TypeOK, RunType
<1>10. Numbered'
  BY <1>1, <1>2, <1>3, <1>4, <1>5, <1>6, <1>7, <1>8 DEF TypeOK, IInv, Numbered, Early
<1>11. RecoveryKept'
  BY <1>1, <1>2, <1>3, <1>4, <1>5, <1>6, <1>7, <1>8 DEF IInv, RecoveryKept, Early
<1>12. ScratchReady'
  BY <1>1, <1>2, <1>3, <1>4, <1>5, <1>6, <1>7, <1>8 DEF IInv, ScratchReady
<1>13. TargetIs'
  BY <1>1, <1>7, <1>8 DEF TargetIs, Early
<1>14. LiveIs'
  BY <1>1, <1>2, <1>3, <1>4, <1>5, <1>6, <1>7, <1>8 DEF IInv, LiveIs
<1>15. DataSurvives'
  BY <1>1, <1>2, <1>3, <1>4, <1>5, <1>6, <1>7, <1>8 DEF IInv, DataSurvives
<1> QED
  BY <1>9, <1>10, <1>11, <1>12, <1>13, <1>14, <1>15 DEF IInv

\* The new database is production's, and what it replaced is in a proved dump.
LEMMA DropRecoveryKeeps ==
  ASSUME TypeOK, IInv, DropRecovery
  PROVE  TypeOK' /\ IInv'
<1>1. /\ run.pc = "dropping" /\ run.number \in Restores
      /\ run' \in RunType /\ run'.number = run.number /\ run'.swapped = run.swapped
      /\ run'.pc = "succeeded"
  BY GotoIs DEF DropRecovery, At, Places, IInv, Numbered
<1>2. faults' \in 0..MaxFaults /\ faults' >= faults
  BY FaultIs DEF DropRecovery, TypeOK
<1>3. UNCHANGED <<target, scratch, emergency, journal, torn>> /\ live' = target.data
  BY DEF DropRecovery
<1>4. target.there /\ target.whole /\ target.data.of = run.number /\ target.data \in Data
  BY <1>1 DEF IInv, TargetIs, TypeOK, Database
<1>5. recovery' = [recovery EXCEPT ![run.number] = Absent] \/ UNCHANGED recovery
  BY DEF DropRecovery, K
<1>6. recovery' \in [Restores -> Database]
  BY <1>1, <1>5, NewTypes DEF TypeOK
<1>7. \A k \in Restores : recovery'[k] = recovery[k] \/ ~recovery'[k].there
  BY <1>1, <1>5 DEF TypeOK, Absent
<1>8. TypeOK'
  BY <1>1, <1>2, <1>3, <1>4, <1>5, <1>6, <1>7 DEF TypeOK, RunType
<1>9. Numbered'
  BY <1>1, <1>2, <1>3, <1>4, <1>5, <1>6, <1>7 DEF TypeOK, IInv, Numbered, Early
<1>10. RecoveryKept'
  BY <1>1, <1>2, <1>3, <1>4, <1>5, <1>6, <1>7 DEF IInv, RecoveryKept, Early
<1>11. ScratchReady'
  BY <1>1, <1>2, <1>3, <1>4, <1>5, <1>6, <1>7 DEF IInv, ScratchReady
<1>12. TargetIs'
  BY <1>1, <1>2, <1>3, <1>4, <1>5, <1>6, <1>7 DEF IInv, TargetIs, Numbered, Early
<1>13. LiveIs'
  BY <1>1, <1>3, <1>4 DEF IInv, LiveIs, TypeOK, Data
<1>14. DataSurvives'
  BY <1>1, <1>3, <1>4 DEF IInv, LiveIs, DataSurvives
<1> QED
  BY <1>8, <1>9, <1>10, <1>11, <1>12, <1>13, <1>14 DEF IInv

\* What a rollback drops is this restore's, not production's.
LEMMA DropTargetKeeps ==
  ASSUME TypeOK, IInv, DropTarget
  PROVE  TypeOK' /\ IInv'
<1>1. /\ run.pc = "failing" /\ run.number \in Restores /\ run.swapped
      /\ run' \in RunType /\ run'.number = run.number /\ run'.swapped = run.swapped
      /\ run'.pc \in {"returning", "stuck"}
  BY GotoIs DEF DropTarget, GivesUp, At, Places, IInv, Numbered
<1>2. faults' \in 0..MaxFaults /\ faults' >= faults
  BY FaultIs DEF DropTarget, GivesUp, TypeOK
<1>3. UNCHANGED <<scratch, recovery, emergency, journal, live, torn>>
  BY DEF DropTarget
<1>4. \/ target' = Absent
      \/ run'.pc = "stuck" /\ target' \in {target, [target EXCEPT !.open = FALSE], Absent}
  BY GotoIs DEF DropTarget, GivesUp, Places
<1>5. /\ target' \in Database
      /\ \/ ~target'.there
         \/ /\ run'.pc = "stuck" /\ target'.there = target.there
            /\ target'.whole = target.whole /\ target'.data = target.data
  BY <1>4, NewTypes DEF TypeOK, Absent, Database
<1>6. target.there => target.data.of = run.number /\ live.of < run.number
  BY <1>1 DEF IInv, TargetIs, LiveIs
<1>7. TypeOK'
  BY <1>1, <1>2, <1>3, <1>4, <1>5, <1>6 DEF TypeOK, RunType
<1>8. Numbered'
  BY <1>1, <1>2, <1>3, <1>4, <1>5, <1>6 DEF TypeOK, IInv, Numbered, Early
<1>9. RecoveryKept'
  BY <1>1, <1>2, <1>3, <1>4, <1>5, <1>6 DEF IInv, RecoveryKept, Early
<1>10. ScratchReady'
  BY <1>1, <1>2, <1>3, <1>4, <1>5, <1>6 DEF IInv, ScratchReady
<1>11. TargetIs'
  BY <1>1, <1>2, <1>3, <1>4, <1>5, <1>6 DEF IInv, TargetIs, Numbered, Early
<1>12. LiveIs'
  BY <1>1, <1>2, <1>3, <1>4, <1>5, <1>6 DEF IInv, LiveIs
<1>13. DataSurvives'
  BY <1>1, <1>3, <1>5, <1>6 DEF IInv, DataSurvives, TypeOK, Data, Database
<1> QED
  BY <1>7, <1>8, <1>9, <1>10, <1>11, <1>12, <1>13 DEF IInv

\* What returns to the name is the original.
LEMMA RenameRecoveryKeeps ==
  ASSUME TypeOK, IInv, RenameRecovery
  PROVE  TypeOK' /\ IInv'
<1>1. /\ run.pc = "returning" /\ run.number \in Restores
      /\ run' \in RunType /\ run'.number = run.number /\ run'.swapped = run.swapped
      /\ run'.pc \in {"opening", "stuck"}
  BY GotoIs DEF RenameRecovery, GivesUp, At, Places, IInv, Numbered
<1>2. faults' \in 0..MaxFaults
  BY FaultIs DEF RenameRecovery, GivesUp, TypeOK
<1>3. UNCHANGED <<scratch, emergency, journal, torn, live>>
  BY DEF RenameRecovery
<1>4. \/ /\ recovery[run.number].there /\ target' = recovery[run.number]
         /\ recovery' = [recovery EXCEPT ![run.number] = Absent]
      \/ UNCHANGED <<target, recovery>> /\ run'.pc = "stuck"
  BY GotoIs DEF RenameRecovery, GivesUp, K, Places
<1>5. target' \in Database
  BY <1>1, <1>4 DEF TypeOK
<1>6. recovery' \in [Restores -> Database]
  BY <1>1, <1>4, NewTypes DEF TypeOK
<1>7. \A k \in Restores : \/ recovery'[k] = recovery[k]
                          \/ k = run.number /\ ~recovery'[k].there /\ target' = recovery[k]
  BY <1>1, <1>4 DEF TypeOK, Absent
<1>8. ~target.there
  BY <1>1 DEF IInv, TargetIs
<1>9. recovery[run.number].there =>
        recovery[run.number].whole /\ recovery[run.number].data.of < run.number
  BY <1>1 DEF IInv, RecoveryKept
<1>10. \/ /\ target' = recovery[run.number] /\ recovery[run.number].there
          /\ recovery[run.number].whole /\ recovery[run.number].data.of < run.number
       \/ target' = target /\ ~target.there /\ run'.pc = "stuck"
  BY <1>4, <1>8, <1>9
<1>11. run.number \in Nat /\ target'.data.of \in Nat
  BY <1>5 DEF TypeOK, Database, Data
<1>12. TypeOK'
  BY <1>1, <1>2, <1>3, <1>4, <1>5, <1>6, <1>7, <1>8, <1>9, <1>10, <1>11 DEF TypeOK, RunType
<1>13. Numbered'
  BY <1>1, <1>2, <1>3, <1>4, <1>5, <1>6, <1>7, <1>8, <1>9, <1>10, <1>11 DEF TypeOK, IInv, Numbered, Early
<1>14. RecoveryKept'
  BY <1>1, <1>2, <1>3, <1>4, <1>5, <1>6, <1>7, <1>8, <1>9, <1>10, <1>11 DEF IInv, RecoveryKept, Early
<1>15. ScratchReady'
  BY <1>1, <1>2, <1>3, <1>4, <1>5, <1>6, <1>7, <1>8, <1>9, <1>10, <1>11 DEF IInv, ScratchReady
<1>16. TargetIs'
  BY <1>1, <1>10, <1>11 DEF TargetIs, Early
<1>17. LiveIs'
  BY <1>1, <1>2, <1>3, <1>4, <1>5, <1>6, <1>7, <1>8, <1>9, <1>10, <1>11 DEF IInv, LiveIs
<1>18. DataSurvives'
  BY <1>1, <1>2, <1>3, <1>4, <1>5, <1>6, <1>7, <1>8, <1>9, <1>10, <1>11 DEF IInv, DataSurvives
<1> QED
  BY <1>12, <1>13, <1>14, <1>15, <1>16, <1>17, <1>18 DEF IInv

-----------------------------------------------------------------------------
(* The journal.                                                             *)

\* An appended line leaves what was written and is the newest.
LEMMA AppendedTells ==
  ASSUME TypeOK, run.number \in Restores, run'.number = run.number,
         NEW phase \in Phases, NEW failed \in BOOLEAN, Appended(run.number, phase, failed)
  PROVE  /\ \A k \in Restores : k # run.number => journal'[k] = journal[k]
         /\ \A k \in Restores : Wrote(k, "apply_started") => Wrote(k, "apply_started")'
         /\ phase = "apply_started" => Wrote(run.number, "apply_started")'
         /\ Newest'.phase = phase /\ Newest'.rollbackFailed = failed
<1> DEFINE line == [phase |-> phase, rollbackFailed |-> failed, legible |-> ~torn]
           old == journal[run.number]
<1>1. journal' = [journal EXCEPT ![run.number] = Append(old, line)]
  BY DEF Appended
<1>2. line.phase = phase /\ line.rollbackFailed = failed /\ line \in Line
  BY DEF Line
<1> HIDE DEF line
<1>3. journal'[run.number] = Append(old, line) /\ old \in Seq(Line)
  BY <1>1 DEF TypeOK
<1>4. \A k \in Restores : k # run.number => journal'[k] = journal[k]
  BY <1>1 DEF TypeOK
<1> HIDE DEF old
<1>5. /\ Len(Append(old, line)) = Len(old) + 1
      /\ DOMAIN old = 1..Len(old) /\ Len(old) \in Nat
      /\ DOMAIN Append(old, line) = 1..(Len(old) + 1)
      /\ Append(old, line)[Len(old) + 1] = line
      /\ \A i \in 1..Len(old) : Append(old, line)[i] = old[i]
  BY <1>2, <1>3
<1>6. Newest' = line
  BY <1>3, <1>5 DEF Newest
<1>7. phase = "apply_started" => Wrote(run.number, "apply_started")'
  BY <1>2, <1>3, <1>5 DEF Wrote
<1>8. ASSUME NEW k \in Restores, Wrote(k, "apply_started")
      PROVE  Wrote(k, "apply_started")'
  <2>1. CASE k # run.number
    BY <1>4, <1>8, <2>1 DEF Wrote
  <2>2. CASE k = run.number
    <3>1. PICK i \in 1..Len(old) : old[i].phase = "apply_started"
      BY <1>5, <1>8, <2>2 DEF Wrote, old
    <3> QED
      BY <1>3, <1>5, <2>2, <3>1 DEF Wrote
  <2> QED
    BY <2>1, <2>2
<1> QED
  BY <1>2, <1>4, <1>6, <1>7, <1>8

\* Nothing below an "apply_started" can be read off the databases' names, so the first part of
\* JournalTells follows from Started.
Told ==
    /\ Says("apply_succeeded", FALSE) => target.there /\ target.open /\ target.data.of = run.number
    /\ Says("apply_failed_before_swap", FALSE) =>
          live.of # run.number /\ (target.there => target.data.of # run.number)
    /\ Says("apply_rolled_back", FALSE) =>
          target.there /\ target.open /\ target.data.of # run.number

LEMMA TellsIs ==
  ASSUME TypeOK', Started', Told'
  PROVE  JournalTells'
<1> SUFFICES ASSUME NEW k \in Restores,
                    recovery'[k].there \/ (target'.there /\ target'.data.of = k)
             PROVE  Wrote(k, "apply_started")'
  BY DEF JournalTells, Told
<1>1. k > 0
  BY DEF Restores
<1> QED
  BY <1>1 DEF Started

\* A step that writes no line keeps what the journal tells, if what it moves under production's
\* name or a recovery name was there before or belongs to this apply.
LEMMA SilentStep ==
  ASSUME TypeOK, IInv, JInv, TypeOK',
         UNCHANGED journal, run'.number = run.number,
         run.pc \in {"tidying", "none"} =>
            /\ run'.pc \in {"tidying", "none"}
            /\ target'.there = target.there /\ target'.open = target.open
            /\ target'.data.of = target.data.of /\ live'.of = live.of,
         run'.pc \in Applying => run.pc \in Applying,
         \A k \in Restores : recovery'[k].there =>
            \/ recovery[k].there /\ recovery'[k].data.of = recovery[k].data.of
            \/ /\ k = run.number /\ run.pc \in Applying /\ target.there
               /\ recovery'[k].data.of = target.data.of,
         target'.there =>
            \/ target.there /\ target'.data.of = target.data.of
            \/ run.pc \in Applying /\ target'.data.of = run.number
            \/ \E k \in Restores : recovery[k].there /\ target'.data.of = recovery[k].data.of
  PROVE  JInv'
<1>1. \A k : Wrote(k, "apply_started")' <=> Wrote(k, "apply_started")
  BY DEF Wrote
<1>2. Newest' = Newest /\ journal'[run'.number] = journal[run.number]
  BY DEF Newest
<1>3. Started'
  BY <1>1 DEF JInv, Started
<1>4. ResultIsLast'
  BY <1>2 DEF JInv, ResultIsLast
<1>5. Told'
  <2>1. CASE run.pc \in {"tidying", "none"}
    BY <1>2, <2>1 DEF JInv, JournalTells, Told, Says
  <2>2. CASE run.pc \notin {"tidying", "none"}
    <3>1. run.number > 0 /\ journal[run.number] # <<>> => Newest.phase \notin Final
      BY <2>2 DEF JInv, ResultIsLast
    <3> QED
      BY <1>2, <3>1 DEF Told, Says, Final
  <2> QED
    BY <2>1, <2>2
<1> QED
  BY <1>3, <1>4, <1>5, TellsIs DEF JInv

\* The data a database holds, once it holds a restore's, is of a restore there is.
LEMMA OwnerIsRestore ==
  ASSUME NEW base \in Database, base.data.of > 0
  PROVE  base.data.of \in Restores
BY RestoreAssumption DEF Database, Data, Restores

LEMMA TargetOwner ==
  ASSUME TypeOK, target.data.of > 0
  PROVE  target.data.of \in Restores
<1>1. target \in Database
  BY DEF TypeOK
<1> QED
  BY ONLY <1>1, target.data.of > 0, OwnerIsRestore

LEMMA RecoveryOwner ==
  ASSUME TypeOK, NEW k \in Restores, recovery[k].data.of > 0
  PROVE  recovery[k].data.of \in Restores
<1>1. recovery[k] \in Database
  BY DEF TypeOK
<1> QED
  BY ONLY <1>1, recovery[k].data.of > 0, OwnerIsRestore

\* What Started says of the data a database holds.
LEMMA TargetStarted ==
  ASSUME Started, target.there, target.data.of > 0
  PROVE  Wrote(target.data.of, "apply_started")
BY Zenon DEF Started

LEMMA RecoveryStarted ==
  ASSUME Started, NEW k \in Restores, recovery[k].there, recovery[k].data.of > 0
  PROVE  Wrote(recovery[k].data.of, "apply_started")
BY Zenon DEF Started

\* A step that writes a line and touches no database.
LEMMA LineStep ==
  ASSUME TypeOK, IInv, JInv, TypeOK', run.number \in Restores, run'.number = run.number,
         UNCHANGED <<target, recovery, live>>,
         NEW phase \in Phases, NEW failed \in BOOLEAN, Appended(run.number, phase, failed),
         run'.pc \in Applying => run.pc \in Applying \/ phase = "apply_started",
         phase \in Final => run'.pc \in {"tidying", "none"},
         phase = "apply_succeeded" => target.there /\ target.open /\ target.data.of = run.number,
         phase = "apply_failed_before_swap" =>
            live.of # run.number /\ (target.there => target.data.of # run.number),
         phase = "apply_rolled_back" /\ ~failed =>
            target.there /\ target.open /\ target.data.of # run.number
  PROVE  JInv'
<1>1. /\ \A k \in Restores : k # run.number => journal'[k] = journal[k]
      /\ \A k \in Restores : Wrote(k, "apply_started") => Wrote(k, "apply_started")'
      /\ phase = "apply_started" => Wrote(run.number, "apply_started")'
      /\ Newest'.phase = phase /\ Newest'.rollbackFailed = failed
  BY AppendedTells
<1>2. Newest'.phase = phase /\ Newest'.rollbackFailed = failed
  BY <1>1
<1>3. Started'
  <2> Started /\ recovery' = recovery /\ target' = target
    BY DEF JInv
  <2>1. \A k \in Restores : k > run'.number => journal'[k] = <<>>
    BY <1>1 DEF JInv, Started, Restores, TypeOK
  <2>2. run'.pc \in Applying => Wrote(run.number, "apply_started")'
    BY <1>1 DEF JInv, Started
  <2>3. \A k \in Restores : recovery'[k].there => Wrote(k, "apply_started")'
    BY <1>1 DEF JInv, Started
  <2>4. ASSUME NEW k \in Restores, recovery'[k].there, recovery'[k].data.of > 0
        PROVE  Wrote(recovery[k].data.of, "apply_started")'
    <3>1. recovery[k].there /\ recovery[k].data.of > 0
      BY ONLY <2>4, recovery' = recovery
    <3>2. recovery[k].data.of \in Restores
      BY ONLY TypeOK, k \in Restores, <3>1, RecoveryOwner
    <3>3. Wrote(recovery[k].data.of, "apply_started")
      BY ONLY Started, k \in Restores, <3>1, RecoveryStarted
    <3> QED
      BY ONLY <1>1, <3>2, <3>3, recovery' = recovery
  <2>5. ASSUME target'.there, target'.data.of > 0
        PROVE  Wrote(target.data.of, "apply_started")'
    <3>1. target.there /\ target.data.of > 0
      BY ONLY <2>5, target' = target
    <3>2. target.data.of \in Restores
      BY ONLY TypeOK, <3>1, TargetOwner
    <3>3. Wrote(target.data.of, "apply_started")
      BY ONLY Started, <3>1, TargetStarted
    <3> QED
      BY ONLY <1>1, <3>2, <3>3, target' = target
  <2> QED
    BY <2>1, <2>2, <2>3, <2>4, <2>5 DEF Started
<1>4. ResultIsLast'
  BY <1>2 DEF ResultIsLast
<1>5. Told'
  BY <1>1, <1>2 DEF Told, Says
<1> QED
  BY <1>3, <1>4, <1>5, TellsIs DEF JInv

-----------------------------------------------------------------------------
(* Every action keeps what the journal tells.                               *)

LEMMA CreateScratchTells ==
  ASSUME TypeOK, IInv, JInv, CreateScratch, TypeOK'
  PROVE  JInv'
<1>1. run.pc = "verifying" /\ run'.pc \in {"filling", "unverified"} /\ run'.number = run.number
  BY GotoIs DEF CreateScratch, At, Places
<1>2. UNCHANGED <<journal, target, recovery, live>>
  BY DEF CreateScratch
<1> QED
  BY <1>1, <1>2, SilentStep DEF Applying, TypeOK

LEMMA FillScratchTells ==
  ASSUME TypeOK, IInv, JInv, FillScratch, TypeOK'
  PROVE  JInv'
<1>1. run.pc = "filling" /\ run'.pc \in {"filled", "unverified"} /\ run'.number = run.number
  BY GotoIs DEF FillScratch, At, Places
<1>2. UNCHANGED <<journal, target, recovery, live>>
  BY DEF FillScratch
<1> QED
  BY <1>1, <1>2, SilentStep DEF Applying, TypeOK

LEMMA NoteVerifiedTells ==
  ASSUME TypeOK, IInv, JInv, NoteVerified, TypeOK'
  PROVE  JInv'
<1>1. /\ run.pc = "filled" /\ run.number \in Restores
      /\ run'.pc = "verified" /\ run'.number = run.number
  BY GotoIs DEF NoteVerified, At, Places, IInv, Numbered
<1>2. UNCHANGED <<target, recovery, live>> /\ Note(run.number, "verify_succeeded", FALSE)
  BY DEF NoteVerified, databases, At, K
<1>3. CASE Appended(run.number, "verify_succeeded", FALSE)
  BY <1>1, <1>2, <1>3, LineStep DEF Phases, Applying, Final
<1>4. CASE UNCHANGED journal
  BY <1>1, <1>2, <1>4, SilentStep DEF Applying, TypeOK
<1> QED
  BY <1>2, <1>3, <1>4 DEF Note, NotAppended

LEMMA DropUnverifiedTells ==
  ASSUME TypeOK, IInv, JInv, DropUnverified, TypeOK'
  PROVE  JInv'
<1>1. run.pc = "unverified" /\ run'.pc = "dropped" /\ run'.number = run.number
  BY GotoIs DEF DropUnverified, At, Places
<1>2. UNCHANGED <<journal, target, recovery, live>>
  BY DEF DropUnverified
<1> QED
  BY <1>1, <1>2, SilentStep DEF Applying, TypeOK

LEMMA NoteUnverifiedTells ==
  ASSUME TypeOK, IInv, JInv, NoteUnverified, TypeOK'
  PROVE  JInv'
<1>1. /\ run.pc = "dropped" /\ run.number \in Restores
      /\ run'.pc = "none" /\ run'.number = run.number
  BY GotoIs DEF NoteUnverified, At, Places, IInv, Numbered
<1>2. UNCHANGED <<target, recovery, live>> /\ Note(run.number, "verify_failed", FALSE)
  BY DEF NoteUnverified, databases, At, K
<1>3. CASE Appended(run.number, "verify_failed", FALSE)
  BY <1>1, <1>2, <1>3, LineStep DEF Phases, Applying, Final
<1>4. CASE UNCHANGED journal
  BY <1>1, <1>2, <1>4, SilentStep DEF Applying, TypeOK
<1> QED
  BY <1>2, <1>3, <1>4 DEF Note, NotAppended

LEMMA VerifyOnlyTells ==
  ASSUME TypeOK, IInv, JInv, VerifyOnly, TypeOK'
  PROVE  JInv'
<1>1. run.pc = "verified" /\ run'.pc = "tidying" /\ run'.number = run.number
  BY GotoIs DEF VerifyOnly, At, Places
<1>2. UNCHANGED <<journal, target, recovery, live>>
  BY DEF VerifyOnly, databases
<1> QED
  BY <1>1, <1>2, SilentStep DEF Applying, TypeOK

LEMMA JournalApplyStartedTells ==
  ASSUME TypeOK, IInv, JInv, JournalApplyStarted, TypeOK'
  PROVE  JInv'
<1>1. run.pc = "verified" /\ run.number \in Restores /\ run'.number = run.number
  BY GotoIs DEF JournalApplyStarted, At, Places, IInv, Numbered
<1>2. UNCHANGED <<target, recovery, live>>
  BY DEF JournalApplyStarted, databases
<1>3. CASE Appended(run.number, "apply_started", FALSE)
  BY <1>1, <1>2, <1>3, LineStep DEF Phases, Final
<1>4. CASE UNCHANGED journal /\ Goto("tidying")
  <2>1. run'.pc = "tidying"
    BY <1>4, GotoIs DEF Places
  <2> QED
    BY <1>1, <1>2, <1>4, <2>1, SilentStep DEF Applying, TypeOK
<1> QED
  BY <1>3, <1>4 DEF JournalApplyStarted, NotAppended, K

LEMMA DumpTargetTells ==
  ASSUME TypeOK, IInv, JInv, DumpTarget, TypeOK'
  PROVE  JInv'
<1>1. run.pc = "applying" /\ run'.pc \in {"checking", "failing"} /\ run'.number = run.number
  BY GotoIs DEF DumpTarget, At, Places, Fails
<1>2. UNCHANGED <<journal, target, recovery, live>>
  BY DEF DumpTarget
<1> QED
  BY <1>1, <1>2, SilentStep DEF Applying, TypeOK

LEMMA CheckDumpTells ==
  ASSUME TypeOK, IInv, JInv, CheckDump, TypeOK'
  PROVE  JInv'
<1>1. run.pc = "checking" /\ run'.pc \in {"closing", "failing"} /\ run'.number = run.number
  BY GotoIs DEF CheckDump, At, Places, Fails
<1>2. UNCHANGED <<journal, target, recovery, live>>
  BY DEF CheckDump
<1> QED
  BY <1>1, <1>2, SilentStep DEF Applying, TypeOK

LEMMA CloseTargetTells ==
  ASSUME TypeOK, IInv, JInv, CloseTarget, TypeOK'
  PROVE  JInv'
<1>1. run.pc = "closing" /\ run'.pc \in {"renaming", "failing"} /\ run'.number = run.number
  BY GotoIs DEF CloseTarget, At, Places, Fails
<1>2. UNCHANGED <<journal, recovery>>
  BY DEF CloseTarget
<1>3. target'.there = target.there /\ target'.data = target.data
  BY DEF CloseTarget, TypeOK, Database
<1> QED
  BY <1>1, <1>2, <1>3, SilentStep DEF Applying, TypeOK

LEMMA RenameTargetTells ==
  ASSUME TypeOK, IInv, JInv, RenameTarget, TypeOK'
  PROVE  JInv'
<1>1. run.pc = "renaming" /\ run'.pc \in {"preparing", "failing"} /\ run'.number = run.number
  BY GotoIs DEF RenameTarget, At, Places, Answered, Fails, Goto, TypeOK, RunType
<1>2. UNCHANGED <<journal, live>>
  BY DEF RenameTarget
<1>3. target.there /\ run.number \in Restores
  BY <1>1 DEF IInv, TargetIs, Numbered, Early
<1>4. \/ target' = Absent /\ recovery' = [recovery EXCEPT ![run.number] = target]
      \/ UNCHANGED <<target, recovery>>
  BY DEF RenameTarget, K
<1>5. \/ UNCHANGED <<target, recovery>>
      \/ /\ recovery'[run.number] = target
         /\ \A k \in Restores : k # run.number => recovery'[k] = recovery[k]
         /\ ~target'.there
  BY <1>3, <1>4 DEF TypeOK, Absent
<1> QED
  BY <1>1, <1>2, <1>3, <1>4, <1>5, SilentStep DEF Applying

LEMMA RenameScratchTells ==
  ASSUME TypeOK, IInv, JInv, RenameScratch, TypeOK'
  PROVE  JInv'
<1>1. run.pc = "preparing" /\ run'.pc \in {"proving", "failing"} /\ run'.number = run.number
  BY GotoIs DEF RenameScratch, At, Places, Answered, Fails, Goto, TypeOK, RunType
<1>2. UNCHANGED <<journal, recovery>>
  BY DEF RenameScratch
<1>3. scratch.data.of = run.number
  BY <1>1 DEF IInv, ScratchReady
<1>4. target' = scratch \/ target' = target
  BY DEF RenameScratch
<1> QED
  BY <1>1, <1>2, <1>3, <1>4, SilentStep DEF Applying

LEMMA ProveTargetTells ==
  ASSUME TypeOK, IInv, JInv, ProveTarget, TypeOK'
  PROVE  JInv'
<1>1. run.pc = "proving" /\ run'.pc \in {"dropping", "failing"} /\ run'.number = run.number
  BY GotoIs DEF ProveTarget, At, Places, Fails
<1>2. UNCHANGED <<journal, target, recovery, live>>
  BY DEF ProveTarget, databases
<1> QED
  BY <1>1, <1>2, SilentStep DEF Applying, TypeOK

LEMMA DropRecoveryTells ==
  ASSUME TypeOK, IInv, JInv, DropRecovery, TypeOK'
  PROVE  JInv'
<1>1. run.pc = "dropping" /\ run'.pc = "succeeded" /\ run'.number = run.number
  BY GotoIs DEF DropRecovery, At, Places
<1>2. UNCHANGED <<journal, target>>
  BY DEF DropRecovery
<1>3. recovery' = [recovery EXCEPT ![run.number] = Absent] \/ UNCHANGED recovery
  BY DEF DropRecovery, K
<1>4. \A k \in Restores : recovery'[k] = recovery[k] \/ ~recovery'[k].there
  BY <1>3 DEF TypeOK, Absent, IInv, Numbered
<1> QED
  BY <1>1, <1>2, <1>3, <1>4, SilentStep DEF Applying, TypeOK

LEMMA NoteSucceededTells ==
  ASSUME TypeOK, IInv, JInv, NoteSucceeded, TypeOK'
  PROVE  JInv'
<1>1. /\ run.pc = "succeeded" /\ run.number \in Restores
      /\ run'.pc = "tidying" /\ run'.number = run.number
  BY GotoIs DEF NoteSucceeded, At, Places, IInv, Numbered
<1>2. UNCHANGED <<target, recovery, live>> /\ Note(run.number, "apply_succeeded", FALSE)
  BY DEF NoteSucceeded, databases, At, K
<1>3. target.there /\ target.open /\ target.data.of = run.number
  BY <1>1 DEF IInv, TargetIs
<1>4. CASE Appended(run.number, "apply_succeeded", FALSE)
  BY <1>1, <1>2, <1>3, <1>4, LineStep DEF Phases, Applying, Final
<1>5. CASE UNCHANGED journal
  BY <1>1, <1>2, <1>3, <1>5, SilentStep DEF Applying, TypeOK
<1> QED
  BY <1>2, <1>4, <1>5 DEF Note, NotAppended

LEMMA FailBeforeSwapTells ==
  ASSUME TypeOK, IInv, JInv, FailBeforeSwap, TypeOK'
  PROVE  JInv'
<1>1. /\ run.pc = "failing" /\ run.number \in Restores
      /\ run'.pc = "tidying" /\ run'.number = run.number
  BY GotoIs DEF FailBeforeSwap, At, Places, IInv, Numbered
<1>2. UNCHANGED <<target, recovery, live>> /\ Note(run.number, "apply_failed_before_swap", FALSE)
  BY DEF FailBeforeSwap, databases, At, K
<1>3. live.of < run.number /\ (target.there => target.data.of < run.number)
  BY <1>1 DEF IInv, TargetIs, LiveIs, FailBeforeSwap
<1>4. target.data.of \in Nat /\ run.number \in Nat /\ live.of \in Nat
  BY DEF TypeOK, Database, Data
<1>5. live.of # run.number /\ (target.there => target.data.of # run.number)
  BY <1>3, <1>4
<1>6. CASE Appended(run.number, "apply_failed_before_swap", FALSE)
  BY <1>1, <1>2, <1>5, <1>6, LineStep DEF Phases, Applying, Final
<1>7. CASE UNCHANGED journal
  BY <1>1, <1>2, <1>7, SilentStep DEF Applying, TypeOK
<1> QED
  BY <1>2, <1>6, <1>7 DEF Note, NotAppended

LEMMA DropTargetTells ==
  ASSUME TypeOK, IInv, JInv, DropTarget, TypeOK'
  PROVE  JInv'
<1>1. run.pc = "failing" /\ run'.pc \in {"returning", "stuck"} /\ run'.number = run.number
  BY GotoIs DEF DropTarget, At, Places, GivesUp
<1>2. UNCHANGED <<journal, recovery>>
  BY DEF DropTarget
<1>3. \/ target' = Absent
      \/ target' \in {target, [target EXCEPT !.open = FALSE]}
  BY DEF DropTarget
<1>4. ~target'.there \/ (target.there /\ target'.data = target.data)
  BY <1>3 DEF TypeOK, Absent, Database
<1> QED
  BY <1>1, <1>2, <1>3, <1>4, SilentStep DEF Applying, TypeOK

LEMMA RenameRecoveryTells ==
  ASSUME TypeOK, IInv, JInv, RenameRecovery, TypeOK'
  PROVE  JInv'
<1>1. run.pc = "returning" /\ run'.pc \in {"opening", "stuck"} /\ run'.number = run.number
  BY GotoIs DEF RenameRecovery, At, Places, GivesUp
<1>2. UNCHANGED <<journal, scratch>>
  BY DEF RenameRecovery
<1>3. \/ /\ recovery[run.number].there /\ target' = recovery[run.number]
         /\ recovery' = [recovery EXCEPT ![run.number] = Absent]
      \/ UNCHANGED <<target, recovery>>
  BY DEF RenameRecovery, K
<1>4. run.number \in Restores
  BY <1>1 DEF IInv, Numbered
<1>5. \A k \in Restores : recovery'[k] = recovery[k] \/ ~recovery'[k].there
  BY <1>3, <1>4 DEF TypeOK, Absent
<1>6. (target' = recovery[run.number] /\ recovery[run.number].there) \/ target' = target
  BY <1>3
<1> QED
  BY <1>1, <1>2, <1>3, <1>4, <1>5, <1>6, SilentStep DEF Applying

LEMMA OpenTargetTells ==
  ASSUME TypeOK, IInv, JInv, OpenTarget, TypeOK'
  PROVE  JInv'
<1>1. run.pc = "opening" /\ run'.pc \in {"undone", "stuck"} /\ run'.number = run.number
  BY GotoIs DEF OpenTarget, At, Places, GivesUp
<1>2. UNCHANGED <<journal, recovery>>
  BY DEF OpenTarget
<1>3. target'.there = target.there /\ target'.data = target.data
  BY DEF OpenTarget, TypeOK, Database
<1> QED
  BY <1>1, <1>2, <1>3, SilentStep DEF Applying, TypeOK

LEMMA NoteRolledBackTells ==
  ASSUME TypeOK, IInv, JInv, NoteRolledBack, TypeOK'
  PROVE  JInv'
<1> DEFINE failed == run.pc = "stuck"
<1>1. /\ run.pc \in {"undone", "stuck"} /\ run.number \in Restores
      /\ run'.pc = "tidying" /\ run'.number = run.number
  BY GotoIs DEF NoteRolledBack, At, Places, IInv, Numbered
<1>2. UNCHANGED <<target, recovery, live>> /\ Note(run.number, "apply_rolled_back", failed)
  BY DEF NoteRolledBack, databases, At, K
<1>3. ~failed => target.there /\ target.open /\ target.data.of < run.number
  BY <1>1 DEF IInv, TargetIs
<1>4. target.data.of \in Nat /\ run.number \in Nat /\ failed \in BOOLEAN
  BY DEF TypeOK, Database, Data
<1>5. ~failed => target.data.of # run.number
  BY <1>3, <1>4
<1> HIDE DEF failed
<1>6. CASE Appended(run.number, "apply_rolled_back", failed)
  BY <1>1, <1>2, <1>3, <1>4, <1>5, <1>6, LineStep DEF Phases, Applying, Final
<1>7. CASE UNCHANGED journal
  BY <1>1, <1>2, <1>7, SilentStep DEF Applying, TypeOK
<1> QED
  BY <1>2, <1>6, <1>7 DEF Note, NotAppended

LEMMA TidyTells ==
  ASSUME TypeOK, IInv, JInv, Tidy, TypeOK'
  PROVE  JInv'
<1>1. run.pc = "tidying" /\ run'.pc = "none" /\ run'.number = run.number
  BY GotoIs DEF Tidy, At, Places
<1>2. UNCHANGED <<journal, target, recovery, live>>
  BY DEF Tidy
<1> QED
  BY <1>1, <1>2, SilentStep DEF Applying, TypeOK

LEMMA WriteTells ==
  ASSUME TypeOK, IInv, JInv, Write, TypeOK'
  PROVE  JInv'
<1>1. UNCHANGED <<journal, run, recovery>>
  BY DEF Write
<1>2. /\ target'.there = target.there /\ target'.open = target.open
      /\ target'.data.of = target.data.of
  BY DEF Write, TypeOK, Database, Data
<1>3. live'.of = live.of
  BY <1>2 DEF Write
<1> QED
  BY <1>1, <1>2, <1>3, SilentStep DEF TypeOK

LEMMA DieTells ==
  ASSUME TypeOK, IInv, JInv, Die, TypeOK'
  PROVE  JInv'
<1>1. run'.pc = "none" /\ run'.number = run.number
  BY DEF Die, TypeOK
<1>2. UNCHANGED <<journal, target, recovery, live>>
  BY DEF Die, databases
<1> QED
  BY <1>1, <1>2, SilentStep DEF Applying, TypeOK

\* A new restore has written at most that it started.
LEMMA BeginTells ==
  ASSUME TypeOK, IInv, JInv, Begin, TypeOK'
  PROVE  JInv'
<1> DEFINE first == [phase |-> "verify_started", rollbackFailed |-> FALSE,
                      legible |-> ~torn]
<1>1. /\ run.pc = "none" /\ run'.pc = "verifying"
      /\ run'.number = run.number + 1 /\ run'.number \in Restores
      /\ run.number \in Nat
  BY RestoreAssumption DEF Begin, At, TypeOK, Restores
<1>2. UNCHANGED <<target, recovery, live>>
  BY DEF Begin, databases
<1>3. journal[run'.number] = <<>>
  BY <1>1 DEF JInv, Started
<1>4. \/ journal' = [journal EXCEPT ![run'.number] = <<first>>]
      \/ journal' = journal
  <2>1. Note(run'.number, "verify_started", FALSE)
    BY <1>1 DEF Begin
  <2>2. CASE Appended(run'.number, "verify_started", FALSE)
    <3>1. journal' = [journal EXCEPT ![run'.number] = Append(journal[run'.number], first)]
      BY <2>2 DEF Appended
    <3>2. Append(<<>>, first) = <<first>>
      OBVIOUS
    <3> QED
      BY <1>3, <3>1, <3>2
  <2>3. CASE UNCHANGED journal
    BY <2>3
  <2> QED
    BY <2>1, <2>2, <2>3 DEF Note, NotAppended
<1>5. /\ \A k \in Restores : k # run'.number => journal'[k] = journal[k]
      /\ journal'[run'.number] = <<first>> \/ journal'[run'.number] = <<>>
  BY <1>1, <1>3, <1>4 DEF TypeOK
<1>6. \A k \in Restores : Wrote(k, "apply_started") => Wrote(k, "apply_started")'
  BY <1>3, <1>5 DEF Wrote
<1>7. Started'
  <2>1. \A k \in Restores : k > run'.number => journal'[k] = <<>>
    BY <1>1, <1>5 DEF JInv, Started, Restores
  <2>2. \A k \in Restores : recovery'[k].there => Wrote(k, "apply_started")'
    BY <1>2, <1>6 DEF JInv, Started
  <2>3. ASSUME NEW k \in Restores, recovery'[k].there, recovery'[k].data.of > 0
        PROVE  Wrote(recovery[k].data.of, "apply_started")'
    <3>1. recovery[k].there /\ recovery[k].data.of > 0 /\ Started
      BY <1>2, <2>3 DEF JInv
    <3>2. recovery[k].data.of \in Restores
      BY ONLY TypeOK, k \in Restores, <3>1, RecoveryOwner
    <3>3. Wrote(recovery[k].data.of, "apply_started")
      BY ONLY k \in Restores, <3>1, RecoveryStarted
    <3> QED
      BY ONLY <1>6, <3>2, <3>3, <1>2
  <2>4. ASSUME target'.there, target'.data.of > 0
        PROVE  Wrote(target.data.of, "apply_started")'
    <3>1. target.there /\ target.data.of > 0 /\ Started
      BY <1>2, <2>4 DEF JInv
    <3>2. target.data.of \in Restores
      BY ONLY TypeOK, <3>1, TargetOwner
    <3>3. Wrote(target.data.of, "apply_started")
      BY ONLY <3>1, TargetStarted
    <3> QED
      BY ONLY <1>6, <3>2, <3>3, <1>2
  <2> QED
    BY <1>1, <1>2, <2>1, <2>2, <2>3, <2>4 DEF Started, Applying
<1>8. journal'[run'.number] # <<>> => Newest'.phase = "verify_started"
  <2> SUFFICES ASSUME journal'[run'.number] = <<first>>
               PROVE  Newest'.phase = "verify_started"
    BY <1>5
  <2>1. Len(<<first>>) = 1 /\ <<first>>[1] = first
    OBVIOUS
  <2>2. Newest' = first
    BY <2>1 DEF Newest
  <2> QED
    BY <2>2
<1>9. ResultIsLast' /\ Told'
  BY <1>8 DEF ResultIsLast, Told, Says, Final
<1> QED
  BY <1>7, <1>9, TellsIs DEF JInv

-----------------------------------------------------------------------------
(* The theorems.                                                            *)

IndInv == TypeOK /\ IInv /\ JInv

LEMMA InitInv == Init => IndInv
<1> SUFFICES ASSUME Init
             PROVE  IndInv
  OBVIOUS
<1>1. First \in Data
  BY RestoreAssumption DEF First, Data
<1>2. First.of = 0
  BY DEF First
<1>3. TypeOK
  <2>1. target \in Database /\ (target.there => target.whole)
    BY <1>1 DEF Init, Database
  <2>2. /\ scratch \in Database /\ recovery \in [Restores -> Database]
        /\ emergency \in [Restores -> Dump]
    BY NewTypes DEF Init
  <2>3. journal \in [Restores -> Seq(Line)]
    BY DEF Init
  <2>4. run \in [number : 0..MaxRestores, pc : Places, swapped : BOOLEAN]
    BY RestoreAssumption DEF Init, Places
  <2>5. live \in Data /\ faults \in 0..MaxFaults
    BY <1>1, RestoreAssumption DEF Init
  <2>6. torn \in BOOLEAN
    BY Zenon DEF Init
  <2> QED
    BY <2>1, <2>2, <2>3, <2>4, <2>5, <2>6 DEF TypeOK
<1>4. IInv
  BY <1>2 DEF Init, IInv, Numbered, RecoveryKept, ScratchReady, TargetIs, LiveIs, DataSurvives,
     Early, Absent, Restores
<1>5. JInv
  BY <1>2 DEF Init, JInv, Started, ResultIsLast, JournalTells, Says, Absent, Restores, Applying
<1> QED
  BY <1>3, <1>4, <1>5 DEF IndInv

LEMMA NextInv == IndInv /\ [Next]_vars => IndInv'
<1> SUFFICES ASSUME TypeOK, IInv, JInv, [Next]_vars
             PROVE  TypeOK' /\ IInv' /\ JInv'
  BY DEF IndInv
<1>1. CASE Begin
  BY <1>1, BeginKeeps, BeginTells
<1>2. CASE CreateScratch
  BY <1>2, CreateScratchKeeps, CreateScratchTells
<1>3. CASE FillScratch
  BY <1>3, FillScratchKeeps, FillScratchTells
<1>4. CASE NoteVerified
  BY <1>4, NoteVerifiedKeeps, NoteVerifiedTells
<1>5. CASE DropUnverified
  BY <1>5, DropUnverifiedKeeps, DropUnverifiedTells
<1>6. CASE NoteUnverified
  BY <1>6, NoteUnverifiedKeeps, NoteUnverifiedTells
<1>7. CASE VerifyOnly
  BY <1>7, VerifyOnlyKeeps, VerifyOnlyTells
<1>8. CASE JournalApplyStarted
  BY <1>8, JournalApplyStartedKeeps, JournalApplyStartedTells
<1>9. CASE DumpTarget
  BY <1>9, DumpTargetKeeps, DumpTargetTells
<1>10. CASE CheckDump
  BY <1>10, CheckDumpKeeps, CheckDumpTells
<1>11. CASE CloseTarget
  BY <1>11, CloseTargetKeeps, CloseTargetTells
<1>12. CASE RenameTarget
  BY <1>12, RenameTargetKeeps, RenameTargetTells
<1>13. CASE RenameScratch
  BY <1>13, RenameScratchKeeps, RenameScratchTells
<1>14. CASE ProveTarget
  BY <1>14, ProveTargetKeeps, ProveTargetTells
<1>15. CASE DropRecovery
  BY <1>15, DropRecoveryKeeps, DropRecoveryTells
<1>16. CASE NoteSucceeded
  BY <1>16, NoteSucceededKeeps, NoteSucceededTells
<1>17. CASE FailBeforeSwap
  BY <1>17, FailBeforeSwapKeeps, FailBeforeSwapTells
<1>18. CASE DropTarget
  BY <1>18, DropTargetKeeps, DropTargetTells
<1>19. CASE RenameRecovery
  BY <1>19, RenameRecoveryKeeps, RenameRecoveryTells
<1>20. CASE OpenTarget
  BY <1>20, OpenTargetKeeps, OpenTargetTells
<1>21. CASE NoteRolledBack
  BY <1>21, NoteRolledBackKeeps, NoteRolledBackTells
<1>22. CASE Tidy
  BY <1>22, TidyKeeps, TidyTells
<1>23. CASE Write
  BY <1>23, WriteKeeps, WriteTells
<1>24. CASE Die
  BY <1>24, DieKeeps, DieTells
<1>25. CASE UNCHANGED vars
  <2>1. TypeOK'
    BY <1>25 DEF vars, TypeOK
  <2>2. IInv'
    BY <1>25 DEF vars, IInv, Numbered, RecoveryKept, ScratchReady, TargetIs, LiveIs, DataSurvives
  <2>3. JInv'
    BY <1>25 DEF vars, JInv, Started, ResultIsLast, JournalTells, Says, Wrote, Newest
  <2> QED
    BY <2>1, <2>2, <2>3
<1> QED
  BY <1>1, <1>2, <1>3, <1>4, <1>5, <1>6, <1>7, <1>8, <1>9, <1>10, <1>11, <1>12, <1>13, <1>14, <1>15,
     <1>16, <1>17, <1>18, <1>19, <1>20, <1>21, <1>22, <1>23, <1>24, <1>25 DEF Next

THEOREM Invariance == Spec => []IndInv
  BY InitInv, NextInv, PTL DEF Spec

\* Every state is a state of the declared kinds, and whatever has production's name is complete:
\* no dump that was not verified gets there, for any number of restores and faults.
THEOREM TypeCorrect == Spec => []TypeOK
<1>1. IndInv => TypeOK
  BY DEF IndInv
<1> QED
  BY <1>1, Invariance, PTL

\* Production's data survives every failure, lost answer and death of a restore: it is in the
\* database of its name or in a recovery database, and a restored one has a proved dump of what
\* it replaced.
THEOREM DataNeverLost == Spec => []DataSurvives
<1>1. IndInv => DataSurvives
  BY DEF IndInv, IInv
<1> QED
  BY <1>1, Invariance, PTL

\* No database changed its name without a written and synced "apply_started", and what the journal's
\* last line claims of a restore's end, when it can be read, is so: a success, a rollback, and that
\* a failure before the swap left none of the restored data in production.
THEOREM JournalIsTrue == Spec => []JournalTells
<1>1. IndInv => JournalTells
  BY DEF IndInv, JInv
<1> QED
  BY <1>1, Invariance, PTL

=============================================================================
