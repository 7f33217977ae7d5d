------------------------- MODULE ServerSyncStamps_proofs -------------------------
(***************************************************************************)
(* Proofs about ServerSync's stamps (app_sync_next_hlc, sync_state_hlc),   *)
(* which order the states of an order across the two sides, however far    *)
(* their wall clocks are apart.                                            *)
(***************************************************************************)
EXTENDS ServerSync_proofs

\* The millisecond a side would stamp now.
Clock(s) == Greatest(now - Lag[s], floor[s])

Theirs(s, h) == h[3] = Node(Peer(s))

\* A side holds no stamp of a later millisecond than its next, nor a number of its
\* own above its last.
CopyTimed(s, o) ==
    LET h == copy[s][o].hlc IN h[1] <= Clock(s) /\ (~Theirs(s, h) => h[2] <= number[s])

\* A change is stamped when it is recorded: newer than what it changes, or in the
\* millisecond of the other side's stamp.
TxTimed(s, o) ==
    LET t == tx[s][o]
        h == copy[s][o].hlc IN
    /\ t.hlc[1] <= Clock(s) /\ t.hlc[2] <= number[s]
    /\ t.id = 0 \/ t.kind = "create" => t.hlc = NoStamp
    /\ t.id # 0 /\ t.kind # "create" =>
          ~Newer(h, t.hlc) \/ (Theirs(s, h) /\ h[1] = t.hlc[1])

Timed == \A s \in Sides, o \in Orders : CopyTimed(s, o) /\ TxTimed(s, o)

\* An order is created once, at home.
Created ==
    \A s \in Sides : \A e \in log[s] : e.kind = "create" =>
        /\ s = Home[e.o] /\ copy[s][e.o].status # "absent"
        /\ \A f \in log[s] : f.kind = "create" /\ f.o = e.o => e = f

\* An open order is as it was created or as a state says.
FromLog(s, o) ==
    LET c == copy[s][o] IN
    c.status = "open" =>
        IF c.hlc = NoStamp
        THEN \E e \in log[Home[o]] : e.kind = "create" /\ e.o = o /\ e.bill = c.bill
        ELSE \E r \in Sides : \E e \in log[r] :
                e.kind = "state" /\ e.o = o /\ e.hlc = c.hlc /\ e.bill = c.bill

\* A copy that may still change is not older than what its side recorded or applied,
\* unless the two sides stamped the order in one millisecond.
Covers(s, r, e) ==
    LET c == copy[s][e.o] IN
    /\ e.kind = "state" /\ c.status \notin Settled
    /\ r = s \/ inbox[s][e.id] = "applied"
    => ~Newer(e.hlc, c.hlc) \/ OneMs(e.o)

Agreed ==
    /\ Timed /\ Created
    /\ \A s \in Sides, o \in Orders : FromLog(s, o)
    /\ \A s \in Sides, r \in Sides : \A e \in log[r] : Covers(s, r, e)

-----------------------------------------------------------------------------
(* The order of the stamps.                                                 *)

LEMMA NewerIs ==
  ASSUME NEW a \in Stamp, NEW b \in Stamp, NEW c \in Stamp
  PROVE  /\ ~Newer(a, a)
         /\ ~Newer(a, b) /\ ~Newer(b, c) => ~Newer(a, c)
         /\ Newer(b, c) /\ ~Newer(a, c) => ~Newer(a, b)
         /\ ~Newer(a, b) /\ ~Newer(b, a) => a = b
         /\ a[2] > 0 => Newer(a, NoStamp)
         /\ a[1] \in Nat /\ a[2] \in Nat /\ a[3] \in Nat
<1>1. /\ a[1] \in Nat /\ a[2] \in Nat /\ a[3] \in Nat
      /\ b[1] \in Nat /\ b[2] \in Nat /\ b[3] \in Nat
      /\ c[1] \in Nat /\ c[2] \in Nat /\ c[3] \in Nat
  BY DEF Stamp
<1>2. a[1] = b[1] /\ a[2] = b[2] /\ a[3] = b[3] => a = b
  BY DEF Stamp
<1>3. NoStamp[1] = 0 /\ NoStamp[2] = 0 /\ NoStamp[3] = 0
  BY DEF NoStamp
<1> HIDE DEF NoStamp
<1> QED
  BY <1>1, <1>2, <1>3 DEF Newer

\* The types the stamps need.
LEMMA StampIs ==
  ASSUME Base
  PROVE  /\ \A s \in Sides, o \in Orders : copy[s][o].hlc \in Stamp /\ tx[s][o].hlc \in Stamp
         /\ \A s \in Sides : \A e \in log[s] : e.hlc \in Stamp /\ e.o \in Orders /\ e.id \in Nat
         /\ \A s \in Sides : \A e \in log[s] : e.kind = "state" =>
               e.hlc[2] = e.id /\ e.hlc[2] > 0 /\ e.hlc[3] = Node(s)
         /\ \A s \in Sides : number[s] \in Nat /\ floor[s] \in Nat
         /\ now \in Nat
         /\ NoStamp \in Stamp /\ NoStamp[1] = 0 /\ NoStamp[2] = 0
<1>1. \A s \in Sides : \A e \in log[s] : e \in EventType /\ EventShape(s, e)
  BY DEF Base, Types, Rowed
<1>2. \A s \in Sides, o \in Orders : copy[s][o] \in CopyType /\ tx[s][o] \in TxType
  BY DEF Base, Types
<1>3. \A s \in Sides : \A e \in log[s] : e.hlc \in Stamp /\ e.o \in Orders /\ e.id \in Nat
  BY <1>1 DEF EventType
<1>4. \A s \in Sides : number[s] \in Nat /\ floor[s] \in Nat
  BY DEF Base, Types
<1>5. \A s \in Sides : \A e \in log[s] : e.kind = "state" =>
         e.hlc[2] = e.id /\ e.hlc[2] > 0 /\ e.hlc[3] = Node(s)
  BY <1>1, <1>4 DEF EventShape
<1>6. NoStamp \in Stamp /\ NoStamp[1] = 0 /\ NoStamp[2] = 0
  BY DEF NoStamp, Stamp
<1> QED
  BY <1>2, <1>3, <1>4, <1>5, <1>6 DEF CopyType, TxType, Base, Types

LEMMA ClockIs ==
  ASSUME Base, NEW s \in Sides
  PROVE  /\ Clock(s) \in Nat /\ Lag[s] \in Nat
         /\ \A n, f \in Nat : n >= now /\ f >= floor[s] =>
               /\ Greatest(n - Lag[s], f) >= Clock(s)
               /\ Greatest(n - Lag[s], f) \in Nat
               /\ Greatest(n - Lag[s], f) >= f
<1>1. now \in Nat /\ floor[s] \in Nat
  BY StampIs
<1>2. Lag[s] \in Nat
  BY SyncAssumption
<1> QED
  BY <1>1, <1>2 DEF Clock, Greatest

\* Neither the time nor a floor goes back.
LEMMA ClockOn ==
  ASSUME Base, NEW s \in Sides, now' \in Nat, now' >= now, floor'[s] \in Nat, floor'[s] >= floor[s]
  PROVE  Clock(s)' \in Nat /\ Clock(s)' >= Clock(s) /\ Clock(s)' >= floor'[s]
  BY ClockIs DEF Clock

LEMMA OneMsStays ==
  ASSUME NEW o, OneMs(o), \A r \in Sides : log[r] \subseteq log'[r]
  PROVE  OneMs(o)'
<1>1. log["site"] \subseteq log'["site"] /\ log["central"] \subseteq log'["central"]
  BY PeerIs
<1> QED
  BY <1>1 DEF OneMs

-----------------------------------------------------------------------------
(* What each step leaves of them.                                           *)

LEMMA InitAgreed == Init => Agreed
<1> SUFFICES ASSUME Init PROVE Agreed
  OBVIOUS
<1>1. /\ \A s \in Sides, o \in Orders : tx[s][o] = NoTx /\ copy[s][o] = NoOrder
      /\ \A s \in Sides : log[s] = {} /\ number[s] = 0
  BY PeerIs DEF Init
<1>2. /\ NoTx.hlc = NoStamp /\ NoTx.id = 0 /\ NoOrder.hlc = NoStamp /\ NoOrder.status = "absent"
      /\ NoStamp[1] = 0 /\ NoStamp[2] = 0
  BY NoTxIs, NoOrderIs DEF NoStamp
<1>3. Timed
  <2>1. \A s \in Sides : Clock(s) \in Nat
    BY InitBase, ClockIs
  <2> QED
    BY <1>1, <1>2, <2>1 DEF Timed, CopyTimed, TxTimed
<1>4. Created /\ \A s \in Sides, r \in Sides : \A e \in log[r] : Covers(s, r, e)
  BY <1>1 DEF Created
<1>5. \A s \in Sides, o \in Orders : FromLog(s, o)
  BY <1>1, <1>2 DEF FromLog
<1> QED
  BY <1>3, <1>4, <1>5 DEF Agreed

LEMMA KeptAgreed ==
  ASSUME Agreed, UNCHANGED <<now, floor, number, copy, tx, log, inbox>>
  PROVE  Agreed'
  BY DEF Agreed, Timed, CopyTimed, TxTimed, Clock, Created, FromLog, Covers, OneMs

\* While orders, events and inboxes stay, only the times move on.
LEMMA RestStays ==
  ASSUME Agreed, UNCHANGED <<copy, log>>,
         \A s \in Sides, k \in Nat : inbox'[s][k] = "applied" => inbox[s][k] = "applied",
         \A r \in Sides : \A e \in log[r] : e.id \in Nat
  PROVE  /\ Created'
         /\ \A s \in Sides, o \in Orders : FromLog(s, o)'
         /\ \A s \in Sides, r \in Sides : \A e \in log'[r] : Covers(s, r, e)'
<1>1. Created'
  BY DEF Agreed, Created
<1>2. \A s \in Sides, o \in Orders : FromLog(s, o)'
  BY DEF Agreed, FromLog
<1>3. ASSUME NEW s \in Sides, NEW r \in Sides, NEW e \in log[r] PROVE Covers(s, r, e)'
  <2>1. Covers(s, r, e) /\ e.id \in Nat
    BY DEF Agreed
  <2> QED
    BY <2>1 DEF Covers, OneMs
<1> QED
  BY <1>1, <1>2, <1>3

LEMMA BeginAgreed ==
  ASSUME Base, Agreed, NEW o \in Orders, NEW kind \in Kinds, Begin(o, kind)
  PROVE  Agreed'
<1>1. /\ number' \in [Sides -> Nat] /\ number'["central"] = number["central"] + 1
      /\ number'["site"] = number["site"]
      /\ tx'["central"][o].id = 0 /\ tx'["central"][o].hlc = NoStamp
      /\ \A r \in Sides, p \in Orders : r # "central" \/ p # o => tx'[r][p] = tx[r][p]
      /\ UNCHANGED <<now, floor, copy, log, inbox, known, transport, faults>>
  BY BeginIs
<1>2. \A r \in Sides : number[r] \in Nat /\ number'[r] \in Nat /\ number'[r] >= number[r]
  BY <1>1, StampIs, PeerIs DEF Sides
<1>3. ASSUME NEW r \in Sides, NEW p \in Orders PROVE CopyTimed(r, p)' /\ TxTimed(r, p)'
  <2>0. Clock(r)' = Clock(r) /\ Clock(r) \in Nat
    BY <1>1, ClockIs DEF Clock
  <2>1. CopyTimed(r, p) /\ TxTimed(r, p)
    BY DEF Agreed, Timed
  <2>2. CopyTimed(r, p)'
    <3>1. copy[r][p].hlc[2] \in Nat
      BY StampIs, NewerIs
    <3> QED
      BY <1>1, <1>2, <2>0, <2>1, <3>1 DEF CopyTimed
  <2>3. CASE r = "central" /\ p = o
    <3>1. NoStamp[1] <= Clock(r) /\ NoStamp[2] <= number'[r]
      BY <1>2, <2>0, StampIs
    <3> QED
      BY <1>1, <2>0, <2>2, <2>3, <3>1 DEF TxTimed
  <2>4. CASE r # "central" \/ p # o
    <3>1. tx'[r][p] = tx[r][p] /\ copy' = copy
      BY <1>1, <2>4
    <3>2. tx[r][p].hlc[2] \in Nat
      BY StampIs, NewerIs
    <3>3. tx[r][p].hlc[2] <= number'[r]
      BY <1>2, <2>1, <3>2 DEF TxTimed
    <3> QED
      BY <2>0, <2>1, <2>2, <3>1, <3>3 DEF TxTimed
  <2> QED
    BY <2>3, <2>4
<1>4. Timed'
  BY <1>3 DEF Timed
<1> QED
  BY <1>1, <1>4, RestStays, StampIs DEF Agreed

\* Recording stamps the change later than what its side holds, but for a stamp of
\* the other side in the same millisecond.
LEMMA RecordStamp ==
  ASSUME Base, Agreed, NEW s \in Sides, NEW p \in Orders
  PROVE  LET n == NextStamp(s, number[s] + 1)
             h == copy[s][p].hlc IN
         /\ n \in Stamp /\ n[1] = Clock(s) /\ n[2] = number[s] + 1
         /\ ~Newer(h, n) \/ (Theirs(s, h) /\ h[1] = n[1])
<1> DEFINE n == NextStamp(s, number[s] + 1)
           h == copy[s][p].hlc
<1>1. Clock(s) \in Nat /\ number[s] \in Nat /\ h \in Stamp
  BY StampIs, ClockIs
<1>4. n = <<Clock(s), number[s] + 1, Node(s)>>
  BY DEF NextStamp, Clock
<1>5. n \in Stamp /\ n[1] = Clock(s) /\ n[2] = number[s] + 1
  BY <1>1, <1>4, NodeIs DEF Stamp
<1>6. h[1] <= Clock(s) /\ (~Theirs(s, h) => h[2] <= number[s])
  BY DEF Agreed, Timed, CopyTimed
<1>7. h[1] \in Nat /\ h[2] \in Nat
  BY <1>1, NewerIs
<1> HIDE DEF n, h
<1>8. ~Newer(h, n) \/ (Theirs(s, h) /\ h[1] = n[1])
  BY <1>1, <1>5, <1>6, <1>7 DEF Newer
<1> QED
  BY <1>5, <1>8 DEF n, h

LEMMA RecordAgreed ==
  ASSUME Base, Agreed, NEW s \in Sides, NEW o \in Orders, NEW t, MayRecord(s, o, t)
  PROVE  Agreed'
<1> DEFINE id == number[s] + 1
           stamp == NextStamp(s, id)
<1>0. t \in TxType /\ t.kind \in Kinds /\ Record(s, o, t)
  BY DEF MayRecord
<1>1. /\ number' \in [Sides -> Nat]
      /\ number'[s] = number[s] + (IF t.kind = "pay" THEN 2 ELSE 1)
      /\ \A r \in Sides : r # s => number'[r] = number[r]
      /\ tx'[s][o].kind = t.kind /\ tx'[s][o].id = id
      /\ tx'[s][o].hlc = IF t.kind = "create" THEN NoStamp ELSE stamp
      /\ \A r \in Sides, p \in Orders : r # s \/ p # o => tx'[r][p] = tx[r][p]
      /\ now' \in Nat /\ now' >= now
      /\ UNCHANGED <<floor, copy, log, inbox, known, transport, faults>>
  BY <1>0, RecordIs
<1>2. /\ number[s] \in Nat /\ id \in Nat /\ id # 0 /\ id <= number'[s]
      /\ \A r \in Sides : number[r] \in Nat /\ number'[r] \in Nat /\ number'[r] >= number[r]
  <2>1. \A r \in Sides : number[r] \in Nat /\ number'[r] \in Nat
    BY <1>1, StampIs
  <2>2. number'[s] >= number[s] /\ id <= number'[s]
    BY <1>1, <2>1
  <2>3. \A r \in Sides : number'[r] >= number[r]
    BY <1>1, <2>1, <2>2
  <2> QED
    BY <2>1, <2>2, <2>3
<1>3. /\ stamp[1] = Clock(s) /\ stamp[2] = id
      /\ \A p \in Orders : \/ ~Newer(copy[s][p].hlc, stamp)
                           \/ Theirs(s, copy[s][p].hlc) /\ copy[s][p].hlc[1] = stamp[1]
  BY RecordStamp
<1> HIDE DEF id, stamp
<1>4. ASSUME NEW r \in Sides, NEW p \in Orders PROVE CopyTimed(r, p)' /\ TxTimed(r, p)'
  <2>1. CopyTimed(r, p) /\ TxTimed(r, p)
    BY DEF Agreed, Timed
  <2>0. /\ Clock(r) \in Nat /\ Clock(r)' \in Nat /\ Clock(r)' >= Clock(r)
        /\ copy' = copy
    <3>1. floor'[r] = floor[r] /\ floor[r] \in Nat
      BY <1>1, StampIs
    <3> QED
      BY <1>1, <3>1, ClockIs, ClockOn
  <2>2. CopyTimed(r, p)'
    <3>1. copy[r][p].hlc[1] \in Nat /\ copy[r][p].hlc[2] \in Nat
      BY StampIs, NewerIs
    <3>2. /\ copy[r][p].hlc[1] <= Clock(r)'
          /\ copy[r][p].hlc[2] <= number[r] => copy[r][p].hlc[2] <= number'[r]
      BY <1>2, <2>0, <2>1, <3>1 DEF CopyTimed
    <3> QED
      BY <2>0, <2>1, <3>2 DEF CopyTimed
  <2>3. CASE r = s /\ p = o
    <3>1. CASE t.kind = "create"
      <4>1. tx'[r][p].hlc = NoStamp /\ tx'[r][p].kind = "create"
        BY <1>1, <2>3, <3>1
      <4>2. NoStamp[1] = 0 /\ NoStamp[2] = 0
        BY StampIs
      <4>3. NoStamp[1] <= Clock(r)' /\ NoStamp[2] <= number'[r]
        BY <1>2, <2>0, <4>2
      <4> QED
        BY <2>2, <4>1, <4>3 DEF TxTimed
    <3>2. CASE t.kind # "create"
      <4>1. tx'[r][p].hlc = stamp /\ tx'[r][p].kind # "create" /\ tx'[r][p].id # 0
        BY <1>1, <1>2, <2>3, <3>2
      <4>2. /\ stamp[1] <= Clock(r)' /\ stamp[2] <= number'[r]
            /\ \/ ~Newer(copy[r][p].hlc, stamp)
               \/ Theirs(r, copy[r][p].hlc) /\ copy[r][p].hlc[1] = stamp[1]
        BY <1>2, <1>3, <2>0, <2>3
      <4> QED
        BY <2>0, <2>2, <4>1, <4>2 DEF TxTimed
    <3> QED
      BY <3>1, <3>2
  <2>4. CASE r # s \/ p # o
    <3>1. tx'[r][p] = tx[r][p]
      BY <1>1, <2>4
    <3>2. tx[r][p].hlc[1] \in Nat /\ tx[r][p].hlc[2] \in Nat
      BY StampIs, NewerIs
    <3>3. tx[r][p].hlc[1] <= Clock(r)' /\ tx[r][p].hlc[2] <= number'[r]
      BY <1>2, <2>0, <2>1, <3>2 DEF TxTimed
    <3> QED
      BY <2>0, <2>1, <2>2, <3>1, <3>3 DEF TxTimed
  <2> QED
    BY <2>3, <2>4
<1>5. Timed'
  BY <1>4 DEF Timed
<1> QED
  BY <1>1, <1>5, RestStays, StampIs DEF Agreed

\* A commit brings the order to the stamp its change was given.
LEMMA CommitAgreed ==
  ASSUME Base, Agreed, NEW s \in Sides, NEW o \in Orders, Commit(s, o)
  PROVE  Agreed'
<1> DEFINE t == tx[s][o]
           R == Recorded(s, o)
           n == Changed(s, o)
           h == copy[s][o].hlc
<1>1. /\ t.id # 0
      /\ copy'[s][o] = n
      /\ \A r \in Sides, p \in Orders : r # s \/ p # o => copy'[r][p] = copy[r][p]
      /\ log'[s] = log[s] \cup R
      /\ \A r \in Sides : r # s => log'[r] = log[r]
      /\ tx'[s][o] = NoTx
      /\ \A r \in Sides, p \in Orders : r # s \/ p # o => tx'[r][p] = tx[r][p]
      /\ UNCHANGED <<now, floor, number, inbox, known, transport, faults>>
  BY CommitIs
<1>2. /\ t # NoTx /\ t.kind \in Kinds /\ n.hlc = t.hlc
      /\ n.status = (IF t.kind = "void" THEN "voided"
                     ELSE IF t.kind = "pay" THEN "completed" ELSE "open")
  BY <1>1, ChangedIs
<1>3. /\ \A e \in R : /\ e.o = o /\ e.hlc = t.hlc /\ e.id \in Taken(t) /\ e.bill = n.bill
                      /\ e.kind = "create" <=> t.kind = "create"
                      /\ e.kind = "state" => e.id = t.id
      /\ \A e, f \in R : e.id = f.id => e = f
      /\ t.kind = "create" => \E e \in R : e.kind = "create"
      /\ t.kind # "create" => \E e \in R : e.kind = "state"
  BY <1>1, RecordedIs
<1>4. /\ t.kind = "create" => copy[s][o].status = "absent" /\ Home[o] = s /\ h = NoStamp
      /\ t.kind # "create" => t.hlc[2] = t.id
  BY <1>1, <1>2 DEF Base, Rowed, Holds, CopyShape
<1>5. /\ t.hlc[1] <= Clock(s) /\ t.hlc[2] <= number[s] /\ CopyTimed(s, o)
      /\ t.kind = "create" => t.hlc = NoStamp
      /\ t.kind # "create" => ~Newer(h, t.hlc) \/ (Theirs(s, h) /\ h[1] = t.hlc[1])
  BY <1>1 DEF Agreed, Timed, TxTimed
<1>6. /\ t.hlc \in Stamp /\ h \in Stamp /\ t.hlc[1] \in Nat /\ t.hlc[2] \in Nat
      /\ number[s] \in Nat
      /\ \A r \in Sides : Clock(r) \in Nat /\ Clock(r)' = Clock(r)
  BY <1>1, StampIs, NewerIs, ClockIs DEF Clock
<1>7. ~Newer(h, t.hlc) \/ (t.kind # "create" /\ Theirs(s, h) /\ h[1] = t.hlc[1])
  BY <1>4, <1>5, <1>6, NewerIs
<1>o. copy[s][o].status = (IF t.kind = "create" THEN "absent" ELSE "open")
  BY <1>1, <1>2 DEF Base, Rowed, Holds
\* Then the other side's stamp is that of a state it recorded.
<1>m. ASSUME ~(~Newer(h, t.hlc)) PROVE OneMs(o)'
  <2>1. /\ t.kind # "create" /\ h[3] = Node(Peer(s)) /\ h[1] = t.hlc[1]
        /\ copy[s][o].status = "open"
    BY <1>7, <1>m, <1>o DEF Theirs
  <2>2. h # NoStamp
    BY <2>1, PeerIs, NodeIs DEF NoStamp
  <2>3. PICK r \in Sides : \E e \in log[r] : e.kind = "state" /\ e.o = o /\ e.hlc = h
    BY <2>1, <2>2 DEF Agreed, FromLog
  <2>4. PICK e \in log[r] : e.kind = "state" /\ e.o = o /\ e.hlc = h
    BY <2>3
  <2>5. r = Peer(s)
    <3>1. Node(r) = Node(Peer(s))
      BY <2>1, <2>4, StampIs
    <3> QED
      BY <3>1, PeerIs DEF Node, Sides
  <2>6. PICK f \in R : f.kind = "state" /\ f.o = o /\ f.hlc = t.hlc
    BY <1>3, <2>1
  <2>7. e \in log'[Peer(s)] /\ f \in log'[s]
    BY <1>1, <2>4, <2>5, <2>6, PeerIs
  <2>8. e.hlc[1] = f.hlc[1]
    BY <2>1, <2>4, <2>6
  <2> HIDE DEF R, h
  <2>9. CASE s = "site"
    <3>1. e \in log'["central"] /\ f \in log'["site"]
      BY <2>7, <2>9, PeerIs
    <3> QED
      BY <2>4, <2>6, <2>8, <3>1 DEF OneMs
  <2>10. CASE s = "central"
    <3>1. e \in log'["site"] /\ f \in log'["central"]
      BY <2>7, <2>10, PeerIs
    <3> QED
      BY <2>4, <2>6, <2>8, <3>1 DEF OneMs
  <2> QED
    BY <2>9, <2>10 DEF Sides
<1> HIDE DEF R, n, t, h
<1>8. Timed'
  <2>1. ASSUME NEW r \in Sides, NEW p \in Orders PROVE CopyTimed(r, p)' /\ TxTimed(r, p)'
    <3>1. CASE r = s /\ p = o
      <4>1. copy'[r][p].hlc = t.hlc /\ tx'[r][p] = NoTx
        BY <1>1, <1>2, <3>1
      <4>2. CopyTimed(r, p)'
        <5>1. t.hlc[1] <= Clock(r)' /\ t.hlc[2] <= number'[r]
          BY <1>1, <1>5, <1>6, <3>1
        <5> QED
          BY <4>1, <5>1 DEF CopyTimed
      <4>3. NoStamp[1] <= Clock(r)' /\ NoStamp[2] <= number'[r]
        BY <1>1, <1>6, StampIs
      <4>4. TxTimed(r, p)'
        BY <4>1, <4>3, NoTxIs DEF TxTimed
      <4> QED
        BY <4>2, <4>4
    <3>2. CASE r # s \/ p # o
      <4>1. CopyTimed(r, p) /\ TxTimed(r, p)
        BY DEF Agreed, Timed
      <4>2. /\ copy'[r][p] = copy[r][p] /\ tx'[r][p] = tx[r][p]
            /\ Clock(r)' = Clock(r) /\ number' = number
        BY <1>1, <1>6, <3>2
      <4> QED
        BY <4>1, <4>2 DEF CopyTimed, TxTimed
    <3> QED
      BY <3>1, <3>2
  <2> QED
    BY <2>1 DEF Timed
<1>9. copy'[s][o].status # "absent"
  BY <1>1, <1>2
<1>10. Created'
  <2>1. ASSUME NEW r \in Sides, NEW e \in log'[r], e.kind = "create"
        PROVE  /\ r = Home[e.o] /\ copy'[r][e.o].status # "absent"
               /\ \A f \in log'[r] : f.kind = "create" /\ f.o = e.o => e = f
    <3>0. /\ \A f \in log[r] : f.kind = "create" =>
                /\ r = Home[f.o] /\ copy[r][f.o].status # "absent"
                /\ \A g \in log[r] : g.kind = "create" /\ g.o = f.o => f = g
          /\ \A f \in log[r] : f.o \in Orders
      BY StampIs DEF Agreed, Created
    <3>1. CASE e \in log[r]
      <4>1. ASSUME NEW f \in log'[r], f \notin log[r], f.kind = "create", f.o = e.o PROVE FALSE
        <5>1. r = s /\ f \in R
          BY <1>1, <4>1
        <5>2. copy[s][o].status = "absent" /\ f.o = o
          BY <1>3, <1>4, <4>1, <5>1
        <5> QED
          BY <2>1, <3>0, <3>1, <4>1, <5>1, <5>2
      <4>2. copy'[r][e.o].status # "absent"
        BY <1>1, <1>9, <2>1, <3>0, <3>1
      <4> QED
        BY <2>1, <3>0, <3>1, <4>1, <4>2
    <3>2. CASE e \notin log[r]
      <4>1. r = s /\ e \in R /\ e.o = o /\ t.kind = "create"
        BY <1>1, <1>3, <2>1, <3>2
      <4>2. Home[o] = s /\ copy[s][o].status = "absent"
        BY <1>4, <4>1
      <4>3. ASSUME NEW f \in log'[r], f.kind = "create", f.o = e.o PROVE e = f
        <5>1. f \notin log[r]
          BY <3>0, <4>1, <4>2, <4>3
        <5>2. f \in R
          BY <1>1, <4>1, <4>3, <5>1
        <5>3. Taken(t) = {t.id}
          BY <1>1, <4>1 DEF Taken, t
        <5>4. e.id = f.id
          BY <1>3, <4>1, <5>2, <5>3
        <5> QED
          BY <1>3, <4>1, <5>2, <5>4
      <4> QED
        BY <1>9, <4>1, <4>2, <4>3
    <3> QED
      BY <3>1, <3>2
  <2> QED
    BY <2>1 DEF Created
<1>11. ASSUME NEW r \in Sides, NEW p \in Orders PROVE FromLog(r, p)'
  <2>0. /\ \A q \in Sides : log[q] \subseteq log'[q]
        /\ Home[p] \in Sides
    BY <1>1, SyncAssumption
  <2>1. CASE r = s /\ p = o
    <3>1. copy'[r][p] = n
      BY <1>1, <2>1
    <3>2. CASE t.kind = "create"
      <4>1. n.hlc = NoStamp /\ Home[p] = s
        BY <1>2, <1>4, <1>5, <2>1, <3>2
      <4>2. PICK e \in R : e.kind = "create" /\ e.o = o /\ e.bill = n.bill
        BY <1>3, <3>2
      <4>3. e \in log'[Home[p]]
        BY <1>1, <4>1
      <4> QED
        BY <2>1, <3>1, <4>1, <4>2, <4>3 DEF FromLog
    <3>3. CASE t.kind # "create"
      <4>1. PICK e \in R : e.kind = "state" /\ e.o = o /\ e.hlc = n.hlc /\ e.bill = n.bill
        BY <1>2, <1>3, <3>3
      <4>2. e \in log'[s]
        BY <1>1
      <4>3. n.hlc # NoStamp
        <5>1. n.hlc[2] = t.id /\ t.id # 0
          BY <1>1, <1>2, <1>4, <3>3
        <5>2. NoStamp[2] = 0
          BY StampIs
        <5> QED
          BY <5>1, <5>2
      <4> QED
        BY <2>1, <3>1, <4>1, <4>2, <4>3 DEF FromLog
    <3> QED
      BY <3>2, <3>3
  <2>2. CASE r # s \/ p # o
    <3>1. FromLog(r, p) /\ copy'[r][p] = copy[r][p]
      BY <1>1, <2>2 DEF Agreed
    <3> QED
      BY <2>0, <3>1 DEF FromLog
  <2> QED
    BY <2>1, <2>2
<1>12. ASSUME NEW r \in Sides, NEW q \in Sides, NEW e \in log'[q] PROVE Covers(r, q, e)'
  <2>0. inbox' = inbox
    BY <1>1
  <2>1. CASE e \in log[q]
    <3>0. Covers(r, q, e) /\ e.hlc \in Stamp /\ e.o \in Orders
      BY <2>1, StampIs DEF Agreed
    <3>3. OneMs(e.o) => OneMs(e.o)'
      BY <1>1, OneMsStays
    <3>1. CASE r = s /\ e.o = o
      <4>1. /\ copy'[r][e.o].hlc = t.hlc /\ copy[r][e.o].hlc = h
            /\ copy[r][e.o].status \notin Settled
        <5>1. copy[s][o].status \in {"open", "absent"}
          BY <1>o
        <5> QED
          BY <1>1, <1>2, <3>1, <5>1 DEF h, Settled
      <4>2. CASE OneMs(o)'
        BY <3>1, <4>2 DEF Covers
      <4>3. CASE ~Newer(h, t.hlc)
        <5>1. Newer(e.hlc, t.hlc) => Newer(e.hlc, h)
          BY <1>6, <3>0, <4>3, NewerIs
        <5> QED
          BY <2>0, <3>0, <3>3, <4>1, <5>1 DEF Covers
      <4> QED
        BY <1>m, <4>2, <4>3
    <3>2. CASE r # s \/ e.o # o
      <4>1. copy'[r][e.o] = copy[r][e.o]
        BY <1>1, <3>0, <3>2
      <4> QED
        BY <2>0, <3>0, <3>3, <4>1 DEF Covers
    <3> QED
      BY <3>1, <3>2
  <2>2. CASE e \notin log[q]
    <3>1. q = s /\ e \in R /\ e.o = o /\ e.hlc = t.hlc /\ e.id \in Taken(t)
      BY <1>1, <1>3, <2>2
    <3>2. CASE r = s
      BY <1>1, <1>2, <1>6, <3>1, <3>2, NewerIs DEF Covers
    <3>3. CASE r # s
      <4>1. Peer(r) = s /\ \A f \in log[s] : f.id \notin Taken(t)
        BY <3>3, PeerIs DEF Base, Distinct, t
      <4>2. e.id \in Ids(s)
        <5>1. Taken(t) \subseteq 1..number[s]
          BY DEF Base, Distinct, t
        <5> QED
          BY <3>1, <5>1, IdIn DEF Base
      <4>3. inbox[r][e.id] = "none"
        BY <3>1, <4>1, <4>2 DEF Base, Received
      <4> QED
        BY <2>0, <3>1, <3>3, <4>3 DEF Covers
    <3> QED
      BY <3>2, <3>3
  <2> QED
    BY <2>1, <2>2
<1> QED
  BY <1>8, <1>10, <1>11, <1>12 DEF Agreed

\* A received state brings its stamp, and the receiver's floor up to it.
LEMMA ReceiveAgreed ==
  ASSUME Base, Agreed, NEW s \in Sides, NEW e \in log[Peer(s)], NEW dead \in {"dead", "stuck"},
         NEW ok \in BOOLEAN, Receive(s, e, dead, ok), UNCHANGED Local
  PROVE  Agreed'
<1> DEFINE c == copy[s][e.o]
           d == copy'[s][e.o]
           row == inbox'[s][e.id]
<1>1. /\ \A r \in Sides, p \in Orders : r # s \/ p # e.o => copy'[r][p] = copy[r][p]
      /\ floor' \in [Sides -> Nat]
      /\ \A r \in Sides, k \in Nat : r # s \/ k # e.id => inbox'[r][k] = inbox[r][k]
      /\ \/ UNCHANGED <<copy, inbox, now, floor>>
         \/ Receives(s, e, dead)
  BY ReceiveIs
<1>2. UNCHANGED <<number, tx, log>>
  BY DEF Local
<1>3. CASE UNCHANGED <<copy, inbox, now, floor>>
  BY <1>2, <1>3, KeptAgreed
<1>4. CASE Receives(s, e, dead)
  <2>0. /\ e \in EventType /\ e.o \in Orders /\ e.hlc \in Stamp /\ e.id \in Nat
        /\ e.hlc[1] \in Nat /\ now \in Nat /\ floor[s] \in Nat /\ CopyShape(c)
        /\ e.kind = "state" => Theirs(s, e.hlc)
        /\ c.hlc \in Stamp /\ Peer(s) \in Sides /\ Peer(s) # s
    BY EventIs, StampIs, NewerIs, PeerIs DEF Theirs
  <2>1. /\ UNCHANGED copy \/ tx[s][e.o] = NoTx
        /\ Keeps(s, e, row) \/ Restates(s, e, row) \/ Pays(s, e, row) \/ Creates(s, e, row)
    BY <1>4 DEF Receives
  \* The order kept its stamp, or took the newer one of a state.
  <2>2. \/ d = c
        \/ /\ e.kind = "state" /\ row = "applied" /\ c.status \notin Settled
           /\ Newer(e.hlc, c.hlc) /\ d.hlc = e.hlc /\ d.bill = e.bill /\ d.status = e.status
           /\ floor'[s] = Greatest(floor[s], e.hlc[1])
        \/ e.kind = "pay" /\ c.status = "open" /\ d.status = "completed" /\ d.hlc = c.hlc
        \/ /\ e.kind = "create" /\ c.status = "absent" /\ d.status = "open" /\ d.bill = e.bill
           /\ d.hlc = NoStamp /\ c.hlc = NoStamp
    BY <2>0, <2>1 DEF Keeps, Restates, Pays, Creates, CopyShape
  <2>3. /\ now' = now
        /\ \A r \in Sides : floor'[r] = floor[r] \/ floor'[r] = Greatest(floor[r], e.hlc[1])
    <3>1. \/ now' = now /\ floor' = floor
          \/ /\ now' = now /\ floor'[s] = Greatest(floor[s], e.hlc[1])
             /\ \A r \in Sides : r # s => floor'[r] = floor[r]
      BY <2>1 DEF Keeps, Restates, Pays, Creates
    <3> QED
      BY <3>1
  <2>4. e.kind = "state" /\ row = "applied" => ~Newer(e.hlc, d.hlc) \/ d.status \in Settled
    BY <2>0, <2>1, NewerIs DEF Keeps, Restates, Pays, Creates
  <2>5. ASSUME NEW r \in Sides
        PROVE  /\ Clock(r) \in Nat /\ Clock(r)' \in Nat /\ Clock(r)' >= Clock(r)
               /\ floor'[r] = Greatest(floor[r], e.hlc[1]) => e.hlc[1] <= Clock(r)'
    <3>1. floor[r] \in Nat /\ floor'[r] \in Nat /\ Clock(r) \in Nat
      BY <1>1, StampIs, ClockIs
    <3>2. /\ floor'[r] >= floor[r]
          /\ floor'[r] = Greatest(floor[r], e.hlc[1]) => floor'[r] >= e.hlc[1]
      BY <2>0, <2>3, <3>1, GreatestIs
    <3>3. Clock(r)' \in Nat /\ Clock(r)' >= Clock(r) /\ Clock(r)' >= floor'[r]
      BY <2>0, <2>3, <3>1, <3>2, ClockOn
    <3> QED
      BY <2>0, <3>1, <3>2, <3>3
  <2> HIDE DEF c, d, row
  <2>7. Timed'
    <3>1. ASSUME NEW r \in Sides, NEW p \in Orders PROVE CopyTimed(r, p)' /\ TxTimed(r, p)'
      <4>0. /\ CopyTimed(r, p) /\ TxTimed(r, p) /\ number[r] \in Nat
            /\ copy[r][p].hlc[1] \in Nat /\ copy[r][p].hlc[2] \in Nat
            /\ tx[r][p].hlc[1] \in Nat
        BY StampIs, NewerIs DEF Agreed, Timed
      <4>1. \/ copy'[r][p].hlc = copy[r][p].hlc
            \/ Theirs(r, copy'[r][p].hlc) /\ copy'[r][p].hlc[1] <= Clock(r)'
        <5>1. CASE r = s /\ p = e.o
          BY <2>0, <2>2, <2>5, <5>1 DEF c, d
        <5>2. CASE r # s \/ p # e.o
          BY <1>1, <5>2
        <5> QED
          BY <5>1, <5>2
      <4>c. Clock(r) \in Nat /\ Clock(r)' \in Nat /\ Clock(r)' >= Clock(r)
        BY <2>5
      <4>2. CopyTimed(r, p)'
        <5>1. copy[r][p].hlc[1] <= Clock(r)'
          BY <4>0, <4>c DEF CopyTimed
        <5> QED
          BY <1>2, <4>0, <4>1, <5>1 DEF CopyTimed
      <4>3. TxTimed(r, p)'
        <5>0. tx[r][p].hlc[1] <= Clock(r)' /\ tx' = tx /\ number' = number
          BY <1>2, <4>0, <4>c DEF TxTimed
        <5>1. CASE tx[r][p] = NoTx
          BY <4>0, <5>0, <5>1, NoTxIs DEF TxTimed
        <5>2. CASE copy'[r][p] = copy[r][p]
          BY <4>0, <5>0, <5>2 DEF TxTimed
        <5>3. tx[r][p] = NoTx \/ copy'[r][p] = copy[r][p]
          BY <1>1, <2>1
        <5> QED
          BY <5>1, <5>2, <5>3
      <4> QED
        BY <4>2, <4>3
    <3> QED
      BY <3>1 DEF Timed
  <2>8. d.status # "absent" \/ d = c
    <3>1. e.kind = "state" => e.status \in {"open", "voided"}
      BY EventIs
    <3> QED
      BY <2>2, <3>1
  <2>9. Created'
    <3>1. \A r \in Sides, p \in Orders :
             copy[r][p].status # "absent" => copy'[r][p].status # "absent"
      BY <1>1, <2>8 DEF c, d
    <3>2. \A r \in Sides : \A f \in log[r] : f.o \in Orders
      BY StampIs
    <3> QED
      BY <1>2, <3>1, <3>2 DEF Agreed, Created
  <2>10. ASSUME NEW r \in Sides, NEW p \in Orders PROVE FromLog(r, p)'
    <3>0. FromLog(r, p) /\ log' = log
      BY <1>2 DEF Agreed
    <3>1. CASE r = s /\ p = e.o /\ d # c
      <4>1. copy'[r][p] = d
        BY <3>1 DEF d
      <4>2. CASE /\ e.kind = "state" /\ d.hlc = e.hlc /\ d.bill = e.bill
        <5>1. e.hlc # NoStamp
          <6>1. e.hlc[2] > 0 /\ NoStamp[2] = 0
            BY <2>0, <4>2, StampIs
          <6> QED
            BY <6>1
        <5> QED
          BY <2>0, <3>0, <3>1, <4>1, <4>2, <5>1 DEF FromLog
      <4>3. CASE d.status = "completed"
        BY <4>1, <4>3 DEF FromLog
      <4>4. CASE e.kind = "create" /\ d.bill = e.bill /\ d.hlc = NoStamp
        <5>1. Peer(s) = Home[e.o]
          BY <2>0, <4>4 DEF Agreed, Created
        <5> QED
          BY <3>0, <3>1, <4>1, <4>4, <5>1 DEF FromLog
      <4> QED
        BY <2>2, <3>1, <4>2, <4>3, <4>4
    <3>2. CASE ~(r = s /\ p = e.o /\ d # c)
      <4>1. copy'[r][p] = copy[r][p]
        BY <1>1, <3>2 DEF c, d
      <4> QED
        BY <3>0, <4>1 DEF FromLog
    <3> QED
      BY <3>1, <3>2
  <2>11. ASSUME NEW r \in Sides, NEW q \in Sides, NEW f \in log[q] PROVE Covers(r, q, f)'
    <3>0. /\ Covers(r, q, f) /\ f.hlc \in Stamp /\ f.o \in Orders /\ f.id \in Nat
          /\ OneMs(f.o)' <=> OneMs(f.o)
      BY <1>2, StampIs DEF Agreed, OneMs
    <3>1. CASE r = s /\ q # s /\ f.id = e.id
      <4>1. f = e
        <5>1. q = Peer(s)
          BY <3>1, PeerIs
        <5> QED
          BY <2>0, <3>1, <5>1 DEF Base, Distinct
      <4> QED
        BY <2>4, <3>1, <4>1 DEF Covers, d, row
    <3>2. CASE r # s \/ q = s \/ f.id # e.id
      <4>1. r = q \/ inbox'[r][f.id] = inbox[r][f.id]
        BY <1>1, <3>0, <3>2
      <4>2. CASE copy'[r][f.o] = copy[r][f.o]
        BY <3>0, <4>1, <4>2 DEF Covers
      <4>3. CASE copy'[r][f.o] # copy[r][f.o]
        <5>1. r = s /\ f.o = e.o /\ d # c /\ copy'[r][f.o] = d /\ copy[r][f.o] = c
          BY <1>1, <3>0, <4>3 DEF c, d
        <5>2. c.status \notin Settled
          BY <2>2, <5>1 DEF Settled
        <5>3. d.hlc = c.hlc \/ (d.hlc = e.hlc /\ Newer(e.hlc, c.hlc))
          BY <2>2, <5>1
        <5>4. ~Newer(f.hlc, c.hlc) => ~Newer(f.hlc, d.hlc)
          BY <2>0, <3>0, <5>3, NewerIs
        <5> QED
          BY <3>0, <4>1, <5>1, <5>2, <5>4 DEF Covers
      <4> QED
        BY <4>2, <4>3
    <3> QED
      BY <3>1, <3>2
  <2> QED
    BY <1>2, <2>7, <2>9, <2>10, <2>11 DEF Agreed
<1> QED
  BY <1>1, <1>3, <1>4

LEMMA LetterAgreed ==
  ASSUME Base, Agreed, NEW s \in Sides, NEW e \in log[Peer(s)],
         RetryLetter(s, e) \/ DiscardLetter(s, e)
  PROVE  Agreed'
<1>1. /\ UNCHANGED <<now, floor, number, copy, tx, log, known, transport, faults>>
      /\ inbox'[s][e.id] \in {"deferred", "discarded"}
      /\ \A r \in Sides, k \in Nat : r # s \/ k # e.id => inbox'[r][k] = inbox[r][k]
  BY LetterIs
<1>2. \A r \in Sides, k \in Nat : inbox'[r][k] = "applied" => inbox[r][k] = "applied"
  BY <1>1
<1>3. Timed'
  BY <1>1 DEF Agreed, Timed, CopyTimed, TxTimed, Clock
<1> QED
  BY <1>1, <1>2, <1>3, RestStays, StampIs DEF Agreed

LEMMA CrashAgreed ==
  ASSUME Base, Agreed, NEW s \in Sides, Crash(s)
  PROVE  Agreed'
<1>1. /\ UNCHANGED <<now, floor, number, copy, log, inbox>>
      /\ tx' = [tx EXCEPT ![s] = [o \in Orders |-> NoTx]]
  BY DEF Crash, clock
<1>2. \A r \in Sides, o \in Orders : tx'[r][o] = tx[r][o] \/ tx'[r][o] = NoTx
  BY <1>1 DEF Base, Types
<1>3. ASSUME NEW r \in Sides, NEW o \in Orders PROVE CopyTimed(r, o)' /\ TxTimed(r, o)'
  <2>1. /\ CopyTimed(r, o) /\ TxTimed(r, o) /\ number[r] \in Nat
        /\ Clock(r) \in Nat /\ Clock(r)' = Clock(r)
    BY <1>1, StampIs, ClockIs DEF Agreed, Timed, Clock
  <2>2. CopyTimed(r, o)'
    BY <1>1, <2>1 DEF CopyTimed
  <2>3. CASE tx'[r][o] = NoTx
    BY <1>1, <2>1, <2>2, <2>3, NoTxIs, StampIs DEF TxTimed
  <2>4. CASE tx'[r][o] = tx[r][o]
    BY <1>1, <2>1, <2>2, <2>4 DEF TxTimed
  <2> QED
    BY <1>2, <2>3, <2>4
<1>4. Timed'
  BY <1>3 DEF Timed
<1> QED
  BY <1>1, <1>4, RestStays, StampIs DEF Agreed

-----------------------------------------------------------------------------
(* The steps, and what they show.                                           *)

LEMMA NextAgreed == IInv /\ Agreed /\ [Next]_vars => Agreed'
<1> SUFFICES ASSUME IInv, Agreed, [Next]_vars PROVE Agreed'
  OBVIOUS
<1>0. Base /\ Carried
  BY DEF IInv
<1>1. ASSUME NEW o \in Orders, NEW kind \in Kinds, RecordSite(o, kind) PROVE Agreed'
  BY <1>0, <1>1, MayRecordSite, RecordAgreed, PeerIs
<1>2. ASSUME NEW o \in Orders, NEW kind \in Kinds, Begin(o, kind) PROVE Agreed'
  BY <1>0, <1>2, BeginAgreed
<1>3. ASSUME NEW o \in Orders, RecordCentral(o) PROVE Agreed'
  BY <1>0, <1>3, MayRecordCentral, RecordAgreed, PeerIs
<1>4. ASSUME NEW o \in Orders, NEW s \in Sides, Commit(s, o) PROVE Agreed'
  BY <1>0, <1>4, CommitAgreed
<1>5. ASSUME NEW s \in Sides, NEW e \in log[Peer(s)], NEW dead \in {"dead", "stuck"},
             NEW ok \in BOOLEAN, Receive(s, e, dead, ok), UNCHANGED Local
      PROVE  Agreed'
  BY <1>0, <1>5, ReceiveAgreed
<1>6. ASSUME NEW s \in Sides, NEW e \in log[Peer(s)], Reconcile(s, e) PROVE Agreed'
  BY <1>5, <1>6 DEF Reconcile, Local
<1>7. ASSUME NEW s \in Sides, NEW e \in log[Peer(s)], RetryLetter(s, e) \/ DiscardLetter(s, e)
      PROVE  Agreed'
  BY <1>0, <1>7, LetterAgreed
<1>8. CASE ServePush \/ ServeOrphan
  <2>1. push.left \subseteq log["site"] /\ orphan \subseteq log["site"]
    BY <1>0, CarriedIs DEF Carried, TransportTypes
  <2>2. ServePush => \E e \in push.left, ok \in BOOLEAN :
                        Receive("central", e, "dead", ok) /\ UNCHANGED Local
    BY FirstIsIn DEF ServePush
  <2>3. ServeOrphan => \E e \in orphan, ok \in BOOLEAN :
                          Receive("central", e, "dead", ok) /\ UNCHANGED Local
    BY FirstIsIn DEF ServeOrphan
  <2>4. PICK e \in log["site"], ok \in BOOLEAN :
           Receive("central", e, "dead", ok) /\ UNCHANGED Local
    BY <1>8, <2>1, <2>2, <2>3
  <2> QED
    BY <1>5, <2>4, PeerIs
<1>9. CASE PullEvent
  <2>1. PICK e \in pull.left, ok \in BOOLEAN : Receive("site", e, "dead", ok) /\ UNCHANGED Local
    BY <1>9, FirstIsIn DEF PullEvent
  <2>2. e \in log["central"]
    BY <1>0, CarriedIs
  <2> QED
    BY <1>5, <2>1, <2>2, PeerIs
<1>10. ASSUME NEW e \in log["central"], RetryPulled(e) PROVE Agreed'
  <2>1. PICK ok \in BOOLEAN : Receive("site", e, "stuck", ok) /\ UNCHANGED Local
    BY <1>10 DEF RetryPulled
  <2> QED
    BY <1>5, <2>1, PeerIs
<1>11. ASSUME NEW s \in Sides, Crash(s) PROVE Agreed'
  BY <1>0, <1>11, CrashAgreed
<1>12. CASE UNCHANGED <<now, floor, number, copy, tx, log, inbox>>
  BY <1>12, KeptAgreed
<1>13. ASSUME NEW o \in Orders, NEW s \in Sides, MasterArrives(s, o) PROVE Agreed'
  BY <1>12, <1>13 DEF MasterArrives, clock
<1>14. ASSUME NEW late \in SUBSET refused, StartPush(late) PROVE Agreed'
  BY <1>12, <1>14 DEF StartPush, clock, Local
<1>15. CASE FinishPush \/ GiveUpPush \/ StartPull \/ RecordPullLetter \/ GiveUpPull \/ SaveCursor
  BY <1>12, <1>15 DEF FinishPush, GiveUpPush, StartPull, RecordPullLetter, GiveUpPull, SaveCursor,
                      clock, Local
<1>16. ASSUME NEW e \in log["central"], DiscardPulled(e) PROVE Agreed'
  BY <1>12, <1>16 DEF DiscardPulled, clock, Local
<1>17. CASE UNCHANGED vars
  BY <1>12, <1>17 DEF vars, clock
<1>18. CASE Next
  BY <1>1, <1>2, <1>3, <1>4, <1>6, <1>7, <1>8, <1>9, <1>10, <1>11, <1>13, <1>14, <1>15, <1>16,
     <1>18 DEF Next
<1> QED
  BY <1>17, <1>18

LEMMA AgreedInvariance == Spec => [](IInv /\ Agreed)
<1>1. Init => IInv /\ Agreed
  BY InitInv, InitAgreed
<1>2. IInv /\ Agreed /\ [Next]_vars => (IInv /\ Agreed)'
  BY NextInv, NextAgreed
<1> QED
  BY <1>1, <1>2, PTL DEF Spec

\* Once every state of an order is applied on the other side, its open copies are
\* one bill under one stamp, in whatever order the states were recorded, sent,
\* deferred, retried and applied and however far the clocks are apart, unless the
\* two sides stamped a state of it in one millisecond.
THEOREM OpenCopiesConverge == Spec => []ApartInOneMsOnly
<1>1. IInv /\ Agreed => ApartInOneMsOnly
  <2> SUFFICES ASSUME IInv, Agreed, NEW o \in Orders, StatesDelivered(o), ~OneMs(o),
                      \A s \in Sides : copy[s][o].status = "open"
               PROVE  copy["site"][o] = copy["central"][o]
    BY DEF ApartInOneMsOnly
  <2>0. Base
    BY DEF IInv
  <2> DEFINE a == copy["site"][o]
             b == copy["central"][o]
  <2>1. /\ a.status = "open" /\ b.status = "open" /\ a.hlc \in Stamp /\ b.hlc \in Stamp
        /\ a \in CopyType /\ b \in CopyType /\ a.paid = <<>> /\ b.paid = <<>>
    <3>1. \A s \in Sides : /\ copy[s][o] \in CopyType /\ CopyShape(copy[s][o])
                           /\ copy[s][o].hlc \in Stamp /\ copy[s][o].status = "open"
      BY <2>0, StampIs DEF Base, Types, Rowed
    <3> QED
      BY <3>1, PeerIs DEF CopyShape
  \* Every state of the order is covered on both sides.
  <2>2. ASSUME NEW s \in Sides, NEW r \in Sides, NEW e \in log[r], e.kind = "state", e.o = o
        PROVE  ~Newer(e.hlc, copy[s][o].hlc)
    <3>1. r = s \/ (s = Peer(r) /\ inbox[s][e.id] = "applied")
      BY <2>2, PeerIs DEF StatesDelivered
    <3>2. copy[s][o].status \notin Settled
      BY DEF Settled
    <3> QED
      BY <2>2, <3>1, <3>2 DEF Agreed, Covers
  <2>3. ASSUME NEW s \in Sides, copy[s][o].hlc # NoStamp
        PROVE  \E r \in Sides : \E e \in log[r] :
                  e.kind = "state" /\ e.o = o /\ e.hlc = copy[s][o].hlc /\ e.bill = copy[s][o].bill
    BY <2>3 DEF Agreed, FromLog
  <2>4. a.hlc = b.hlc
    <3>1. ASSUME NEW s \in Sides, NEW r \in Sides PROVE ~Newer(copy[s][o].hlc, copy[r][o].hlc)
      <4>1. CASE copy[s][o].hlc = NoStamp
        <5>1. copy[r][o].hlc \in Stamp
          BY <2>0, StampIs
        <5>2. copy[r][o].hlc[1] \in Nat /\ copy[r][o].hlc[2] \in Nat /\ copy[r][o].hlc[3] \in Nat
          BY <5>1, NewerIs
        <5> QED
          BY <4>1, <5>2 DEF Newer, NoStamp
      <4>2. CASE copy[s][o].hlc # NoStamp
        BY <2>2, <2>3, <4>2
      <4> QED
        BY <4>1, <4>2
    <3> QED
      BY <2>1, <3>1, PeerIs, NewerIs
  <2>5. a.bill = b.bill
    <3>1. CASE a.hlc = NoStamp
      <4>1. \A s \in Sides : \E e \in log[Home[o]] :
               e.kind = "create" /\ e.o = o /\ e.bill = copy[s][o].bill
        <5>1. \A s \in Sides : copy[s][o].hlc = NoStamp /\ copy[s][o].status = "open"
          BY <2>4, <3>1, PeerIs
        <5>2. \A s \in Sides : FromLog(s, o)
          BY DEF Agreed
        <5> QED
          BY <5>1, <5>2 DEF FromLog
      <4>2. Home[o] \in Sides
        BY SyncAssumption
      <4>3. \A e, f \in log[Home[o]] :
               e.kind = "create" /\ f.kind = "create" /\ e.o = o /\ f.o = o => e = f
        BY <4>2 DEF Agreed, Created
      <4> QED
        BY <4>1, <4>3, PeerIs
    <3>2. CASE a.hlc # NoStamp
      <4>1. PICK r \in Sides : \E e \in log[r] :
               e.kind = "state" /\ e.hlc = a.hlc /\ e.bill = a.bill
        BY <2>3, <3>2, PeerIs
      <4>2. PICK e \in log[r] : e.kind = "state" /\ e.hlc = a.hlc /\ e.bill = a.bill
        BY <4>1
      <4>3. PICK q \in Sides : \E f \in log[q] :
               f.kind = "state" /\ f.hlc = a.hlc /\ f.bill = b.bill
        BY <2>3, <2>4, <3>2, PeerIs
      <4>4. PICK f \in log[q] : f.kind = "state" /\ f.hlc = a.hlc /\ f.bill = b.bill
        BY <4>3
      <4>5. /\ e.hlc[2] = e.id /\ e.hlc[3] = Node(r)
            /\ f.hlc[2] = f.id /\ f.hlc[3] = Node(q)
        BY <2>0, <4>2, <4>4, StampIs
      <4>6. r = q /\ e.id = f.id
        BY <4>2, <4>4, <4>5 DEF Node, Sides
      <4>7. e = f
        BY <2>0, <4>6 DEF Base, Distinct
      <4> QED
        BY <4>2, <4>4, <4>7
    <3> QED
      BY <3>1, <3>2
  <2> HIDE DEF a, b
  <2>6. a = b
    BY <2>1, <2>4, <2>5 DEF CopyType
  <2> QED
    BY <2>6 DEF a, b
<1> QED
  BY <1>1, AgreedInvariance, PTL
=============================================================================
