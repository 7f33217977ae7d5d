------------------------------ MODULE Restore ------------------------------
(***************************************************************************)
(* A full-system restore: the dump is rebuilt and verified in a scratch    *)
(* database, an emergency dump of production is made and verified, and     *)
(* then the databases change names: production becomes the recovery        *)
(* database and the scratch one takes its name.  What fails after that is  *)
(* rolled back.  Every phase goes into a journal outside the database      *)
(* (restore-engine.ts, restore-journal.ts).                                *)
(*                                                                         *)
(* Grain.  Every statement sent to the database server and every journal   *)
(* line is a step of its own, so the process can die between any two, a    *)
(* statement can fail, and the answer of a rename can be lost.             *)
(*                                                                         *)
(* One restore runs at a time.  Each kind of restore (the platform's, a    *)
(* tenant's, the setup wizard's) has a guard that says so of its own kind; *)
(* nothing in the code says it of two kinds, which share the scratch name. *)
(***************************************************************************)
EXTENDS Integers, Sequences

CONSTANTS
    MaxRestores,    \* bound: restores begun
    MaxWrites,      \* bound: what the application writes into one database
    MaxFaults       \* bound: statements that fail, lost answers, deaths

ASSUME RestoreAssumption == {MaxRestores, MaxWrites, MaxFaults} \subseteq Nat

VARIABLES
    target,     \* the database with the production name
    scratch,    \* <target>_restore_verify
    recovery,   \* [1..MaxRestores -> the original that restore renamed]
    emergency,  \* [1..MaxRestores -> the verified emergency dump on disk]
    journal,    \* [1..MaxRestores -> the phases written]
    torn,       \* whether the journal's file ends in a line without its newline
    run,        \* the restore under way: its number, its place, whether it renamed production
    live,       \* production's data: what was last accepted as such
    faults

vars == <<target, scratch, recovery, emergency, journal, torn, run, live, faults>>

Restores == 1..MaxRestores

\* Data is known by the restore it came from (0: none) and how much was written to it since.
Data == [of : 0..MaxRestores, writes : 0..MaxWrites]
First == [of |-> 0, writes |-> 0]
Database == [there : BOOLEAN, data : Data, whole : BOOLEAN, open : BOOLEAN]
Absent == [there |-> FALSE, data |-> First, whole |-> FALSE, open |-> FALSE]
Dump == [there : BOOLEAN, checked : BOOLEAN, data : Data]
NoDump == [there |-> FALSE, checked |-> FALSE, data |-> First]

Places == {"none", "verifying", "filling", "filled", "unverified", "dropped", "verified", "applying",
           "checking", "closing", "renaming", "preparing", "proving", "dropping", "succeeded",
           "failing", "returning", "opening", "undone", "stuck", "tidying"}
Phases == {"verify_started", "verify_failed", "verify_succeeded", "apply_started",
           "apply_failed_before_swap", "apply_rolled_back", "apply_succeeded"}
\* A line of the journal; the detail says of a rollback that it failed.  A line
\* written behind a torn one is glued to it, and readRestoreJournal skips both.
Line == [phase : Phases, rollbackFailed : BOOLEAN, legible : BOOLEAN]

Init ==
    /\ target = [there |-> TRUE, data |-> First, whole |-> TRUE, open |-> TRUE]
    /\ scratch = Absent
    /\ recovery = [k \in Restores |-> Absent]
    /\ emergency = [k \in Restores |-> NoDump]
    /\ journal = [k \in Restores |-> <<>>]
    /\ torn = FALSE
    /\ run = [number |-> 0, pc |-> "none", swapped |-> FALSE]
    /\ live = First
    /\ faults = 0

-----------------------------------------------------------------------------
K == run.number
At(place) == run.pc = place
Goto(place) == run' = [run EXCEPT !.pc = place]
Fault == faults < MaxFaults /\ faults' = faults + 1

\* appendRestoreJournal: a line and its newline, synced.
Appended(k, phase, failed) ==
    /\ journal' = [journal EXCEPT ![k] =
                       Append(@, [phase |-> phase, rollbackFailed |-> failed, legible |-> ~torn])]
    /\ torn' = FALSE

\* It throws: nothing was written, or a part, or all but the sync failed.
NotAppended(k, phase, failed) ==
    /\ Fault
    /\ \/ UNCHANGED <<journal, torn>>
       \/ torn' = TRUE /\ UNCHANGED journal
       \/ Appended(k, phase, failed)

\* tryAppendRestoreJournal: a write that fails is swallowed.
Note(k, phase, failed) ==
    \/ Appended(k, phase, failed) /\ UNCHANGED faults
    \/ NotAppended(k, phase, failed)

databases == <<target, scratch, recovery, emergency>>

-----------------------------------------------------------------------------
(* verifyIntoScratch.                                                       *)

\* A caller reaches production (its lock, its settings) before it starts.
Begin ==
    /\ At("none") /\ run.number < MaxRestores
    /\ target.there /\ target.open
    /\ run' = [number |-> run.number + 1, pc |-> "verifying", swapped |-> FALSE]
    /\ Note(run.number + 1, "verify_started", FALSE)
    /\ UNCHANGED <<databases, live>>

\* What an earlier restore left under the scratch name is dropped.
CreateScratch ==
    /\ At("verifying")
    /\ \/ /\ scratch' = [there |-> TRUE, data |-> [of |-> K, writes |-> 0],
                         whole |-> FALSE, open |-> TRUE]
          /\ Goto("filling") /\ UNCHANGED faults
       \/ Fault /\ Goto("unverified") /\ scratch' \in {scratch, Absent}
    /\ UNCHANGED <<target, recovery, emergency, journal, torn, live>>

\* Mutant: a dump that does not restore is taken for verified.
Verifies_Always == TRUE

\* pg_restore went through and validateRestoredDb is content.
Verifies == scratch'.whole

\* pg_restore; a bad dump fills the scratch database half.
FillScratch ==
    /\ At("filling")
    /\ \/ scratch' = [scratch EXCEPT !.whole = TRUE] /\ UNCHANGED faults
       \/ Fault /\ UNCHANGED scratch
    /\ Goto(IF Verifies THEN "filled" ELSE "unverified")
    /\ UNCHANGED <<target, recovery, emergency, journal, torn, live>>

NoteVerified ==
    /\ At("filled")
    /\ Note(K, "verify_succeeded", FALSE) /\ Goto("verified")
    /\ UNCHANGED <<databases, live>>

\* A verification that failed drops its scratch database before it says so.
DropUnverified ==
    /\ At("unverified")
    /\ \/ scratch' = Absent /\ UNCHANGED faults
       \/ Fault /\ UNCHANGED scratch
    /\ Goto("dropped")
    /\ UNCHANGED <<target, recovery, emergency, journal, torn, live>>

NoteUnverified ==
    /\ At("dropped")
    /\ Note(K, "verify_failed", FALSE) /\ Goto("none")
    /\ UNCHANGED <<databases, live>>

\* apply: false ends here.
VerifyOnly ==
    /\ At("verified")
    /\ Goto("tidying")
    /\ UNCHANGED <<databases, journal, torn, live, faults>>

\* Mutant: the line is written as the others are.
JournalApplyStarted_Tried ==
    /\ At("verified")
    /\ Note(K, "apply_started", FALSE) /\ Goto("applying")
    /\ UNCHANGED <<databases, live>>

\* An apply that cannot be recorded does not start.
JournalApplyStarted ==
    /\ At("verified")
    /\ \/ Appended(K, "apply_started", FALSE) /\ Goto("applying") /\ UNCHANGED faults
       \/ NotAppended(K, "apply_started", FALSE) /\ Goto("tidying")
    /\ UNCHANGED <<databases, live>>

-----------------------------------------------------------------------------
(* applyDumpToTarget.                                                       *)

\* A statement that fails without effect.
Fails == Fault /\ Goto("failing")

\* createEmergencyBackup: the dump, and then its proof in a scratch database of its own.
DumpTarget ==
    /\ At("applying")
    /\ \/ /\ emergency' = [emergency EXCEPT ![K] = [there |-> TRUE, checked |-> FALSE,
                                                    data |-> target.data]]
          /\ Goto("checking") /\ UNCHANGED faults
       \/ Fails /\ UNCHANGED emergency
    /\ UNCHANGED <<target, scratch, recovery, journal, torn, live>>

CheckDump ==
    /\ At("checking")
    /\ \/ /\ emergency' = [emergency EXCEPT ![K].checked = TRUE]
          /\ Goto("closing") /\ UNCHANGED faults
       \/ Fails /\ emergency' = [emergency EXCEPT ![K] = NoDump]
    /\ UNCHANGED <<target, scratch, recovery, journal, torn, live>>

\* setDatabaseConnections(false): closed, and then its connections ended, which may fail alone.
CloseTarget ==
    /\ At("closing")
    /\ \/ target' = [target EXCEPT !.open = FALSE] /\ Goto("renaming") /\ UNCHANGED faults
       \/ Fails /\ target' \in {target, [target EXCEPT !.open = FALSE]}
    /\ UNCHANGED <<scratch, recovery, emergency, journal, torn, live>>

\* A rename whose answer is lost is done, and taken for failed.
Answered(done) ==
    \/ run' = done /\ UNCHANGED faults
    \/ Fails

RenameTarget ==
    /\ At("renaming")
    /\ \/ /\ recovery' = [recovery EXCEPT ![K] = target]
          /\ target' = Absent
          /\ Answered([run EXCEPT !.pc = "preparing", !.swapped = TRUE])
       \/ Fails /\ UNCHANGED <<target, recovery>>
    /\ UNCHANGED <<scratch, emergency, journal, torn, live>>

RenameScratch ==
    /\ At("preparing")
    /\ \/ /\ target' = scratch
          /\ scratch' = Absent
          /\ Answered([run EXCEPT !.pc = "proving"])
       \/ Fails /\ UNCHANGED <<target, scratch>>
    /\ UNCHANGED <<recovery, emergency, journal, torn, live>>

\* Mutant: the original is dropped before the new database is proved.
ProveTarget_DropsFirst ==
    /\ At("proving")
    /\ recovery' = [recovery EXCEPT ![K] = Absent]
    /\ Goto("dropping") \/ Goto("failing")
    /\ UNCHANGED <<target, scratch, emergency, journal, torn, live, faults>>

\* regrantAppRole, validateRuntimeAccess and validateRestoredDb.
ProveTarget ==
    /\ At("proving")
    /\ \/ Goto("dropping") /\ UNCHANGED faults
       \/ Fails
    /\ UNCHANGED <<databases, journal, torn, live>>

\* The new database is production now; dropping the original is best effort.
DropRecovery ==
    /\ At("dropping")
    /\ \/ recovery' = [recovery EXCEPT ![K] = Absent] /\ UNCHANGED faults
       \/ Fault /\ UNCHANGED recovery
    /\ live' = target.data
    /\ Goto("succeeded")
    /\ UNCHANGED <<target, scratch, emergency, journal, torn>>

NoteSucceeded ==
    /\ At("succeeded")
    /\ Note(K, "apply_succeeded", FALSE) /\ Goto("tidying")
    /\ UNCHANGED <<databases, live>>

-----------------------------------------------------------------------------
(* The failure of an apply, and rollbackDatabaseSwap.                       *)

\* Nothing was renamed, as far as the process knows.
FailBeforeSwap ==
    /\ At("failing") /\ ~run.swapped
    /\ Note(K, "apply_failed_before_swap", FALSE) /\ Goto("tidying")
    /\ UNCHANGED <<databases, live>>

GivesUp == Fault /\ Goto("stuck")

\* The new database, if it has the name already, is closed and dropped.
DropTarget ==
    /\ At("failing") /\ run.swapped
    /\ \/ target' = Absent /\ Goto("returning") /\ UNCHANGED faults
       \/ /\ GivesUp
          /\ target' \in {target, [target EXCEPT !.open = FALSE], Absent}
    /\ UNCHANGED <<scratch, recovery, emergency, journal, torn, live>>

RenameRecovery ==
    /\ At("returning")
    /\ \/ /\ recovery[K].there
          /\ target' = recovery[K]
          /\ recovery' = [recovery EXCEPT ![K] = Absent]
          /\ \/ Goto("opening") /\ UNCHANGED faults
             \/ GivesUp
       \/ GivesUp /\ UNCHANGED <<target, recovery>>
       \/ ~recovery[K].there /\ Goto("stuck") /\ UNCHANGED <<target, recovery, faults>>
    /\ UNCHANGED <<scratch, emergency, journal, torn, live>>

OpenTarget ==
    /\ At("opening")
    /\ \/ target' = [target EXCEPT !.open = TRUE] /\ Goto("undone") /\ UNCHANGED faults
       \/ GivesUp /\ target' \in {target, [target EXCEPT !.open = TRUE]}
    /\ UNCHANGED <<scratch, recovery, emergency, journal, torn, live>>

NoteRolledBack ==
    /\ At("undone") \/ At("stuck")
    /\ Note(K, "apply_rolled_back", At("stuck")) /\ Goto("tidying")
    /\ UNCHANGED <<databases, live>>

\* The finally of restoreDumpFile: the scratch database goes, best effort.
Tidy ==
    /\ At("tidying")
    /\ \/ scratch' = Absent /\ UNCHANGED faults
       \/ Fault /\ UNCHANGED scratch
    /\ Goto("none")
    /\ UNCHANGED <<target, recovery, emergency, journal, torn, live>>

-----------------------------------------------------------------------------
\* The application writes into whatever has the production name and takes connections.
Write ==
    /\ target.there /\ target.open /\ target.data.writes < MaxWrites
    /\ target' = [target EXCEPT !.data.writes = @ + 1]
    /\ live' = IF live = target.data THEN target'.data ELSE live
    /\ UNCHANGED <<scratch, recovery, emergency, journal, torn, run, faults>>

\* The next step writes a line.
Writing ==
    \/ run.pc \in {"filled", "dropped", "verified", "succeeded", "undone", "stuck"}
    \/ At("failing") /\ ~run.swapped

\* The process dies, in the middle of a line perhaps; nothing resumes a restore.
Die ==
    /\ ~At("none")
    /\ Fault
    /\ run' = [run EXCEPT !.pc = "none", !.swapped = FALSE]
    /\ torn' \in {torn, torn \/ Writing}
    /\ UNCHANGED <<databases, journal, live>>

Next ==
    \/ Begin \/ CreateScratch \/ FillScratch \/ NoteVerified \/ DropUnverified
    \/ NoteUnverified \/ VerifyOnly
    \/ JournalApplyStarted \/ DumpTarget \/ CheckDump \/ CloseTarget
    \/ RenameTarget \/ RenameScratch \/ ProveTarget \/ DropRecovery \/ NoteSucceeded
    \/ FailBeforeSwap \/ DropTarget \/ RenameRecovery \/ OpenTarget \/ NoteRolledBack
    \/ Tidy \/ Write \/ Die

Spec == Init /\ [][Next]_vars

-----------------------------------------------------------------------------
\* The type invariant; a database with the production name is always a complete one.
TypeOK ==
    /\ target \in Database /\ (target.there => target.whole)
    /\ scratch \in Database
    /\ recovery \in [Restores -> Database]
    /\ emergency \in [Restores -> Dump]
    /\ journal \in [Restores -> Seq(Line)]
    /\ run \in [number : 0..MaxRestores, pc : Places, swapped : BOOLEAN]
    /\ live \in Data
    /\ torn \in BOOLEAN
    /\ faults \in 0..MaxFaults

\* Whatever fails and whenever the process dies, production's data, to its last write, is in the
\* database of its name or in a recovery database; and it is a restored one only if what it
\* replaced was dumped and the dump proved (applyDumpToTarget).
DataSurvives ==
    /\ \/ target.there /\ target.whole /\ target.data = live
       \/ \E k \in Restores : recovery[k].there /\ recovery[k].whole /\ recovery[k].data = live
    /\ live.of > 0 => emergency[live.of].there /\ emergency[live.of].checked

Wrote(k, phase) == \E i \in DOMAIN journal[k] : journal[k][i].phase = phase
Reads(k, phase) == \E i \in DOMAIN journal[k] : journal[k][i].phase = phase /\ journal[k][i].legible

\* Of the restore begun last: the line of a result is the engine's last, so one that is legible is
\* the newest a reader finds.
Newest == journal[run.number][Len(journal[run.number])]
Says(phase, failed) ==
    /\ run.number > 0 /\ journal[run.number] # <<>>
    /\ Newest = [phase |-> phase, rollbackFailed |-> failed, legible |-> TRUE]

\* What the journal's lines are worth.  No database changed its name before "apply_started" was
\* written and synced; the engine's last line, when it can be read, claims a success only of the
\* restored data, open under production's name, a rollback only of production's own data, open
\* there, and a failure before the swap only when the restored data is not there: whatever
\* failed, was torn or went unanswered (restoreDumpFile, RestoreApplyError).
JournalTells ==
    /\ \A k \in Restores :
          recovery[k].there \/ (target.there /\ target.data.of = k) => Wrote(k, "apply_started")
    /\ Says("apply_succeeded", FALSE) => target.there /\ target.open /\ target.data.of = run.number
    /\ Says("apply_rolled_back", FALSE) =>
          target.there /\ target.open /\ target.data.of # run.number
    /\ Says("apply_failed_before_swap", FALSE) =>
          live.of # run.number /\ (target.there => target.data.of # run.number)

\* "The production database is untouched, and the journal must say so": a failure before the swap
\* leaves production open under its name (restore-engine.ts:563-566).
UntouchedIfFailedBeforeSwap ==
    Says("apply_failed_before_swap", FALSE) =>
        target.there /\ target.open /\ target.data.of # run.number

\* "A destructive act that cannot be recorded does not happen": what changed its name has a line
\* "apply_started" that can be read (restore-journal.ts:23-26).
SwapIsOnRecord ==
    \A k \in Restores :
        recovery[k].there \/ (target.there /\ target.data.of = k) => Reads(k, "apply_started")

=============================================================================
