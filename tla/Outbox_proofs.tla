---------------------------- MODULE Outbox_proofs ----------------------------
(***************************************************************************)
(* Proofs about Outbox, for any campaigns, channels, audiences, attempts,  *)
(* batch limits, credit and bounds.                                        *)
(***************************************************************************)
EXTENDS Outbox, FiniteSetTheorems, SequenceTheorems, TLAPS

RowType == [campaign : Campaigns \cup {None}, status : {None, "queued", "sent", "failed"},
            attempts : Nat, accepted : Nat]
DrainType == [pc : {"idle", "sending", "reconciling", "completing"}, todo : SUBSET Rows,
              adapters : SUBSET Channels, answer : Answers \cup Counted \cup {"none"},
              reserved : Nat, cost : Nat, touched : SUBSET (Campaigns \cup {None})]

Types ==
    /\ campaign \in [Campaigns -> Statuses]
    /\ row \in [Rows -> RowType]
    /\ accepted \in Nat
    /\ queue \in Seq(Rows)
    /\ launch \in [Requests -> Campaigns \cup {None}]
    /\ adapters \subseteq Channels
    /\ credit \in Nat /\ charged \in Nat
    /\ drain \in DrainType
    /\ acts \in 0..MaxActs /\ deaths \in 0..MaxDeaths

\* The rows are inserted in order, so the next are fresh.
Filled ==
    /\ \E k \in 0..MaxRows : \A r \in Rows : row[r].status # None <=> r <= k
    /\ \A r \in Rows : row[r].status = None => row[r].attempts = 0 /\ row[r].accepted = 0

\* A row is due once at most, and only while it is queued.
Due ==
    /\ \A i, j \in DOMAIN queue : queue[i] = queue[j] => i = j
    /\ \A i \in DOMAIN queue : row[queue[i]].status = "queued"

\* What is left of a batch is still due, and reserved for.
Batched ==
    /\ drain.todo \subseteq Range(queue)
    /\ drain.pc # "sending" => drain.todo = {}
    /\ drain.answer # "none" => \E r \in drain.todo : At(r)
    /\ drain.cost + Cardinality(drain.todo) <= drain.reserved

\* A queued row has an attempt left and an acceptance per death behind it, but for the answer
\* the drain has in hand.
Tried(r) ==
    /\ row[r].attempts <= MaxAttempts + deaths
    /\ row[r].status = "queued" /\ ~(At(r) /\ drain.answer \in Counted)
       => row[r].attempts < MaxAttempts + deaths
    /\ row[r].accepted <= 1 + deaths
    /\ row[r].status = "queued" /\ ~(At(r) /\ drain.answer = "sent") => row[r].accepted <= deaths
    /\ row[r].status = "sent" \/ (At(r) /\ drain.answer = "sent") => row[r].accepted > 0

\* What was charged is what was accepted and what the open batch still holds; a death may have
\* left a reservation behind.
Paid ==
    /\ charged >= accepted + Open
    /\ deaths = 0 => charged = accepted + Open

IInv ==
    /\ Types /\ Filled /\ Due /\ Batched
    /\ \A r \in Rows : Tried(r)
    /\ Paid

-----------------------------------------------------------------------------
(* Helpers.                                                                 *)

LEMMA BoundsAre ==
  /\ Audience \in Nat \ {0} /\ BatchLimit \in Nat \ {0} /\ MaxAttempts \in Nat \ {0}
  /\ MaxRows \in Nat /\ Credit \in Nat /\ MaxActs \in Nat /\ MaxDeaths \in Nat
  BY OutboxAssumption

LEMMA RowsAre == IsFiniteSet(Rows) /\ Rows \subseteq Nat
  BY BoundsAre, FS_Interval DEF Rows

\* The values the fields have.
LEMMA NoRowIs == /\ NoRow \in RowType /\ NoRow.status = None /\ NoRow.attempts = 0
                 /\ NoRow.accepted = 0
  BY DEF NoRow, RowType

LEMMA IdleIs == /\ Idle \in DrainType /\ Idle.pc = "idle" /\ Idle.todo = {} /\ Idle.answer = "none"
                /\ Idle.cost = 0 /\ Idle.reserved = 0
  BY DEF Idle, DrainType

LEMMA RowIs ==
  ASSUME Types
  PROVE  \A r \in Rows : /\ row[r] \in RowType
                         /\ row[r].campaign \in Campaigns \cup {None}
                         /\ row[r].status \in {None, "queued", "sent", "failed"}
                         /\ row[r].attempts \in Nat /\ row[r].accepted \in Nat
  BY DEF Types, RowType

LEMMA DrainIs ==
  ASSUME NEW d \in DrainType
  PROVE  /\ d.pc \in {"idle", "sending", "reconciling", "completing"}
         /\ d.todo \subseteq Rows /\ IsFiniteSet(d.todo) /\ Cardinality(d.todo) \in Nat
         /\ d.answer \in Answers \cup Counted \cup {"none"}
         /\ d.reserved \in Nat /\ d.cost \in Nat
<1>1. d.todo \subseteq Rows
  BY DEF DrainType
<1>2. IsFiniteSet(d.todo)
  BY <1>1, RowsAre, FS_Subset
<1> QED
  BY <1>1, <1>2, FS_CardinalityType DEF DrainType

LEMMA OpenIs ==
  ASSUME IInv
  PROVE  /\ Open \in Nat
         /\ deaths \in Nat /\ deaths <= MaxDeaths
<1>1. drain \in DrainType /\ deaths \in Nat /\ deaths <= MaxDeaths
  BY BoundsAre DEF IInv, Types
<1>2. CASE drain.answer = "sent"
  <2>1. drain.todo # {}
    BY <1>2 DEF IInv, Batched
  <2>2. Cardinality(drain.todo) # 0
    BY <1>1, <2>1, DrainIs, FS_EmptySet
  <2> QED
    BY <1>1, <1>2, <2>2, DrainIs DEF IInv, Batched, Open
<1>3. CASE drain.answer # "sent"
  BY <1>1, <1>3, DrainIs DEF IInv, Batched, Open
<1> QED
  BY <1>1, <1>2, <1>3

\* One row is replaced.
LEMMA RowChanges ==
  ASSUME Types, NEW r \in Rows, NEW v \in RowType, row' = [row EXCEPT ![r] = v]
  PROVE  /\ row' \in [Rows -> RowType]
         /\ row'[r] = v
         /\ \A s \in Rows : s # r => row'[s] = row[s]
  BY DEF Types

\* The drain is at one row.
LEMMA AtIs ==
  ASSUME Types
  PROVE  /\ \A r, s : At(r) /\ At(s) => r = s
         /\ \A r : At(r) => r \in drain.todo /\ r \in Rows /\ r \in Range(queue)
<1>1. Len(queue) \in Nat /\ DOMAIN queue = 1..Len(queue)
  BY DEF Types
<1>2. ASSUME NEW r, NEW s, At(r), At(s) PROVE r = s
  <2>1. PICK i \in DOMAIN queue :
           queue[i] = r /\ \A j \in 1..(i - 1) : queue[j] \notin drain.todo
    BY <1>2 DEF At
  <2>2. PICK k \in DOMAIN queue :
           queue[k] = s /\ \A j \in 1..(k - 1) : queue[j] \notin drain.todo
    BY <1>2 DEF At
  <2>3. r \in drain.todo /\ s \in drain.todo
    BY <1>2 DEF At
  <2>4. ~(i < k) /\ ~(k < i)
    BY <1>1, <2>1, <2>2, <2>3
  <2> QED
    BY <1>1, <2>1, <2>2, <2>4
<1>3. ASSUME NEW r, At(r) PROVE r \in drain.todo /\ r \in Rows /\ r \in Range(queue)
  BY <1>3 DEF At, Types, DrainType, Range
<1> QED
  BY <1>2, <1>3

\* The place of the drain stays when rows come due behind it.
LEMMA AtStays ==
  ASSUME Types, drain.todo \subseteq Range(queue), UNCHANGED <<drain>>, queue' \in Seq(Rows),
         Len(queue') >= Len(queue), \A i \in DOMAIN queue : queue'[i] = queue[i]
  PROVE  \A r : At(r)' <=> At(r)
<1>1. /\ Len(queue) \in Nat /\ DOMAIN queue = 1..Len(queue)
      /\ Len(queue') \in Nat /\ DOMAIN queue' = 1..Len(queue')
  BY DEF Types
<1>2. ASSUME NEW r, At(r) PROVE At(r)'
  <2>1. PICK i \in DOMAIN queue :
           queue[i] = r /\ \A j \in 1..(i - 1) : queue[j] \notin drain.todo
    BY <1>2 DEF At
  <2>2. i \in DOMAIN queue' /\ queue'[i] = r
    BY <1>1, <2>1
  <2>3. \A j \in 1..(i - 1) : queue'[j] \notin drain.todo
    BY <1>1, <2>1
  <2> QED
    BY <1>2, <2>2, <2>3 DEF At
<1>3. ASSUME NEW r, At(r)' PROVE At(r)
  <2>1. PICK i \in DOMAIN queue' :
           queue'[i] = r /\ \A j \in 1..(i - 1) : queue'[j] \notin drain.todo
    BY <1>3 DEF At
  <2>2. drain.pc = "sending" /\ r \in drain.todo
    BY <1>3 DEF At
  <2>3. PICK k \in DOMAIN queue : queue[k] = r
    BY <2>2 DEF Range
  <2>4. i <= k
    BY <1>1, <2>1, <2>2, <2>3
  <2>5. i \in DOMAIN queue /\ queue[i] = r
    BY <1>1, <2>1, <2>3, <2>4
  <2>6. \A j \in 1..(i - 1) : queue[j] \notin drain.todo
    BY <1>1, <2>1, <2>5
  <2> QED
    BY <2>2, <2>5, <2>6 DEF At
<1> QED
  BY <1>2, <1>3

\* A row that leaves the queue leaves the others in it.
LEMMA WithoutIs ==
  ASSUME Types, Due, NEW r \in Range(queue)
  PROVE  /\ Without(r) \in Seq(Rows)
         /\ Range(Without(r)) = Range(queue) \ {r}
         /\ \A i, j \in DOMAIN Without(r) : Without(r)[i] = Without(r)[j] => i = j
<1> DEFINE k == CHOOSE k \in DOMAIN queue : queue[k] = r
           w == SubSeq(queue, 1, k - 1) \o SubSeq(queue, k + 1, Len(queue))
<1>1. Len(queue) \in Nat /\ DOMAIN queue = 1..Len(queue) /\ \A i \in DOMAIN queue : queue[i] \in Rows
  BY DEF Types
<1>2. k \in DOMAIN queue /\ queue[k] = r
  BY DEF Range
<1>3. Without(r) = w
  BY DEF Without
<1> HIDE DEF k
<1>4. /\ w \in Seq(Rows) /\ Len(w) = Len(queue) - 1
      /\ \A i \in 1..Len(w) : w[i] = IF i < k THEN queue[i] ELSE queue[i + 1]
  <2> DEFINE a == SubSeq(queue, 1, k - 1)
             b == SubSeq(queue, k + 1, Len(queue))
  <2>1. k \in 1..Len(queue) /\ k \in Int
    BY <1>1, <1>2
  <2>2. a \in Seq(Rows) /\ Len(a) = k - 1 /\ \A i \in 1..(k - 1) : a[i] = queue[i]
    BY <1>1, <2>1, SubSeqProperties
  <2>3. /\ b \in Seq(Rows) /\ Len(b) = Len(queue) - k
        /\ \A i \in 1..(Len(queue) - k) : b[i] = queue[k + i]
    <3>1. k + 1 \in Int /\ Len(queue) \in Int /\ \A i \in (k + 1)..Len(queue) : queue[i] \in Rows
      BY <1>1, <2>1
    <3>2. /\ b \in Seq(Rows)
          /\ Len(b) = IF k + 1 <= Len(queue) THEN Len(queue) - (k + 1) + 1 ELSE 0
          /\ \A i \in 1..(Len(queue) - (k + 1) + 1) : b[i] = queue[(k + 1) + i - 1]
      BY <3>1, SubSeqProperties
    <3> HIDE DEF b
    <3>3. Len(b) = Len(queue) - k
      <4>1. Len(b) = IF k + 1 <= Len(queue) THEN Len(queue) - (k + 1) + 1 ELSE 0
        BY <3>2
      <4>2. CASE k = Len(queue)
        BY <1>1, <2>1, <4>1, <4>2
      <4>3. CASE k # Len(queue)
        <5>0. k \in Int /\ Len(queue) \in Int /\ k <= Len(queue)
          BY <1>1, <2>1
        <5>1. k + 1 <= Len(queue)
          BY <4>3, <5>0
        <5>2. Len(queue) - (k + 1) + 1 = Len(queue) - k
          BY <1>1, <2>1
        <5> QED
          BY <4>1, <5>1, <5>2
      <4> QED
        BY <4>2, <4>3
    <3>4. ASSUME NEW i \in 1..(Len(queue) - k) PROVE b[i] = queue[k + i]
      <4>1. i \in 1..(Len(queue) - (k + 1) + 1) /\ (k + 1) + i - 1 = k + i
        BY <1>1, <2>1
      <4> QED
        BY <3>2, <4>1
    <3> QED
      BY <3>2, <3>3, <3>4
  <2> HIDE DEF a, b
  <2>4. /\ a \o b \in Seq(Rows) /\ Len(a \o b) = Len(a) + Len(b)
        /\ \A i \in 1..(Len(a) + Len(b)) : (a \o b)[i] = IF i <= Len(a) THEN a[i] ELSE b[i - Len(a)]
    BY <2>2, <2>3, ConcatProperties
  <2>5. w = a \o b
    BY DEF a, b
  <2>6. ASSUME NEW i \in 1..Len(w) PROVE w[i] = IF i < k THEN queue[i] ELSE queue[i + 1]
    <3>1. i \in 1..(Len(a) + Len(b)) /\ Len(a) + Len(b) = Len(queue) - 1
      <4>1. Len(a) + Len(b) = Len(queue) - 1
        BY <1>1, <2>1, <2>2, <2>3
      <4> QED
        BY <2>4, <2>5, <4>1
    <3>2. CASE i < k
      BY <1>1, <2>1, <2>2, <2>4, <2>5, <3>1, <3>2
    <3>3. CASE i >= k
      <4>1. w[i] = b[i - (k - 1)]
        <5>1. ~(i <= Len(a)) /\ Len(a) = k - 1
          BY <1>1, <2>1, <2>2, <3>1, <3>3
        <5> QED
          BY <2>4, <2>5, <3>1, <5>1
      <4>2. i - (k - 1) \in 1..(Len(queue) - k) /\ k + (i - (k - 1)) = i + 1
        BY <1>1, <2>1, <3>1, <3>3
      <4>3. b[i - (k - 1)] = queue[k + (i - (k - 1))]
        BY <2>3, <4>2
      <4>4. ~(i < k)
        BY <1>1, <2>1, <3>1, <3>3
      <4> QED
        BY <4>1, <4>2, <4>3, <4>4
    <3> QED
      BY <2>1, <3>1, <3>2, <3>3
  <2>7. Len(w) = Len(queue) - 1
    <3>1. Len(a) + Len(b) = Len(queue) - 1
      BY <1>1, <2>1, <2>2, <2>3
    <3> QED
      BY <2>4, <2>5, <3>1
  <2> QED
    BY <2>4, <2>5, <2>6, <2>7
<1> HIDE DEF w
<1>5. DOMAIN w = 1..Len(w)
  BY <1>4
<1>6. \A i, j \in DOMAIN w : w[i] = w[j] => i = j
  <2> SUFFICES ASSUME NEW i \in DOMAIN w, NEW j \in DOMAIN w, w[i] = w[j] PROVE i = j
    OBVIOUS
  <2> DEFINE p == IF i < k THEN i ELSE i + 1
             q == IF j < k THEN j ELSE j + 1
  <2>1. p \in DOMAIN queue /\ q \in DOMAIN queue /\ queue[p] = queue[q]
    BY <1>1, <1>2, <1>4, <1>5
  <2>2. p = q
    BY <2>1 DEF Due
  <2> QED
    BY <1>1, <1>2, <1>4, <1>5, <2>2
<1>7. \A s \in Range(w) : s \in Range(queue) /\ s # r
  BY <1>1, <1>2, <1>4, <1>5 DEF Due, Range
<1>8. ASSUME NEW s \in Range(queue), s # r PROVE s \in Range(w)
  <2>1. PICK i \in DOMAIN queue : queue[i] = s
    BY DEF Range
  <2>2. CASE i < k
    BY <1>1, <1>2, <1>4, <1>5, <2>1, <2>2 DEF Range
  <2>3. CASE i > k
    <3>1. i - 1 \in DOMAIN w /\ w[i - 1] = s
      BY <1>1, <1>2, <1>4, <1>5, <2>1, <2>3
    <3> QED
      BY <3>1 DEF Range
  <2> QED
    BY <1>1, <1>2, <1>8, <2>1, <2>2, <2>3
<1> QED
  BY <1>3, <1>4, <1>6, <1>7, <1>8

-----------------------------------------------------------------------------
(* What people and events do.                                               *)

LEMMA InitInv == Init => IInv
<1> SUFFICES ASSUME Init PROVE IInv
  OBVIOUS
<1>1. Types
  BY BoundsAre, NoRowIs, IdleIs DEF Init, Types, Statuses
<1>2. Filled
  <2>1. 0 \in 0..MaxRows /\ \A r \in Rows : ~(r <= 0)
    BY BoundsAre DEF Rows
  <2> QED
    BY <2>1, NoRowIs DEF Init, Filled
<1>3. Due
  BY DEF Init, Due
<1>4. Batched
  BY IdleIs, FS_EmptySet DEF Init, Batched
<1>5. ASSUME NEW r \in Rows PROVE Tried(r)
  BY BoundsAre, NoRowIs, IdleIs DEF Init, Tried, At, None
<1>6. Paid
  BY IdleIs DEF Init, Paid, Open
<1> QED
  BY <1>1, <1>2, <1>3, <1>4, <1>5, <1>6 DEF IInv

\* Nothing the queue and the drain are about has changed.
LEMMA QuietInv ==
  ASSUME IInv, Types', UNCHANGED <<row, accepted, queue, charged, drain, deaths>>
  PROVE  IInv'
<1>1. \A r : At(r)' <=> At(r)
  BY DEF At
<1>2. Filled' /\ Due' /\ Paid'
  BY DEF IInv, Filled, Due, Paid, Open
<1>3. Batched'
  BY <1>1 DEF IInv, Batched
<1>4. \A r \in Rows : Tried(r)'
  BY <1>1 DEF IInv, Tried
<1> QED
  BY <1>2, <1>3, <1>4 DEF IInv

LEMMA CheckLaunchInv ==
  ASSUME IInv, NEW q \in Requests, NEW c \in Campaigns, CheckLaunch(q, c)
  PROVE  IInv'
<1>1. Types'
  BY DEF IInv, Types, CheckLaunch
<1> QED
  BY <1>1, QuietInv DEF CheckLaunch

LEMMA PauseResumeInv ==
  ASSUME IInv, NEW c \in Campaigns, Pause(c) \/ Resume(c)
  PROVE  IInv'
<1>1. acts' \in 0..MaxActs /\ campaign' \in [Campaigns -> Statuses]
  BY BoundsAre DEF IInv, Types, Statuses, Pause, Resume, Act
<1>2. UNCHANGED <<row, accepted, queue, launch, adapters, credit, charged, drain, deaths>>
  BY DEF Pause, Resume
<1>3. Types'
  BY <1>1, <1>2 DEF IInv, Types
<1> QED
  BY <1>2, <1>3, QuietInv

\* The rows in use are the first, as many as there are.
LEMMA FilledTo ==
  ASSUME Filled
  PROVE  \E k \in 0..MaxRows : /\ \A r \in Rows : row[r].status # None <=> r <= k
                               /\ Cardinality({r \in Rows : row[r].status # None}) = k
<1>1. PICK k \in 0..MaxRows : \A r \in Rows : row[r].status # None <=> r <= k
  BY DEF Filled
<1>2. {r \in Rows : row[r].status # None} = 1..k
  BY <1>1, BoundsAre DEF Rows
<1>3. Cardinality(1..k) = k
  BY <1>1, BoundsAre, FS_Interval
<1> QED
  BY <1>1, <1>2, <1>3

\* The rows of a launch are fresh, and due behind the others.
LEMMA InsertInv ==
  ASSUME IInv, NEW c \in Campaigns, NEW n \in Nat \ {0}, Insert(c, n),
         launch' \in [Requests -> Campaigns \cup {None}],
         UNCHANGED <<accepted, adapters, credit, charged, drain, acts, deaths>>
  PROVE  IInv'
<1> USE DEF None
<1>0. PICK k \in 0..MaxRows : /\ \A r \in Rows : row[r].status # None <=> r <= k
                             /\ Cardinality({r \in Rows : row[r].status # None}) = k
  BY FilledTo DEF IInv
<1>1. \A r \in Rows : row[r].status # None <=> r <= k
  BY <1>0
<1> DEFINE last == Cardinality({r \in Rows : row[r].status # None})
           new == (last + 1)..(last + n)
           v == [NoRow EXCEPT !.campaign = c, !.status = "queued"]
           add == [i \in 1..n |-> last + i]
<1>2. last = k
  BY <1>0
<1>3. /\ new \subseteq Rows
      /\ row' = [r \in Rows |-> IF r \in new THEN v ELSE row[r]]
      /\ queue' = queue \o add
      /\ campaign' = [campaign EXCEPT ![c] = "sending"]
  BY DEF Insert
<1> HIDE DEF last
<1>4. v \in RowType /\ v.status = "queued" /\ v.attempts = 0 /\ v.accepted = 0
  BY DEF NoRow, RowType
<1> HIDE DEF v
<1>5. /\ \A r \in Rows : row'[r] = IF r \in new THEN v ELSE row[r]
      /\ \A r \in Rows : r \in new => ~(r <= k) /\ row[r].status = None
  BY <1>1, <1>2, <1>3
<1>6. k + n \in 0..MaxRows
  <2>1. k + n \in new
    BY <1>1, <1>2
  <2> QED
    BY <2>1, <1>1, <1>3, BoundsAre DEF Rows
<1>7. add \in Seq(Rows) /\ Len(add) = n /\ \A i \in 1..n : add[i] = k + i
  <2>1. \A i \in 1..n : k + i \in Rows
    BY <1>1, <1>6, BoundsAre DEF Rows
  <2> QED
    BY <1>2, <2>1
<1> HIDE DEF add
<1>8. Len(queue) \in Nat /\ DOMAIN queue = 1..Len(queue) /\ queue \in Seq(Rows)
  BY DEF IInv, Types
<1>9. /\ queue' \in Seq(Rows) /\ Len(queue') = Len(queue) + n
      /\ DOMAIN queue' = 1..(Len(queue) + n)
      /\ \A i \in 1..(Len(queue) + n) :
            queue'[i] = IF i <= Len(queue) THEN queue[i] ELSE k + (i - Len(queue))
  <2>1. /\ queue' \in Seq(Rows) /\ Len(queue') = Len(queue) + n
        /\ \A i \in 1..(Len(queue) + n) :
              queue'[i] = IF i <= Len(queue) THEN queue[i] ELSE add[i - Len(queue)]
    <3>1. queue' = queue \o add
      BY <1>3
    <3>2. /\ queue \o add \in Seq(Rows)
          /\ Len(queue \o add) = Len(queue) + Len(add)
          /\ \A i \in 1..Len(queue) + Len(add) :
                (queue \o add)[i] = IF i <= Len(queue) THEN queue[i] ELSE add[i - Len(queue)]
      BY ONLY <1>7, <1>8, ConcatProperties
    <3> QED
      BY ONLY <1>7, <3>1, <3>2
  <2>2. \A i \in 1..(Len(queue) + n) : ~(i <= Len(queue)) => i - Len(queue) \in 1..n
    BY <1>8
  <2> QED
    BY <1>7, <1>8, <2>1, <2>2
<1>10. \A i \in DOMAIN queue : queue[i] \in Rows /\ queue[i] \notin new /\ queue[i] <= k
  BY <1>1, <1>5, <1>8 DEF IInv, Due
<1>11. Types'
  <2>1. row' \in [Rows -> RowType]
    BY <1>3, <1>4 DEF IInv, Types
  <2>2. campaign' \in [Campaigns -> Statuses]
    BY <1>3 DEF IInv, Types, Statuses
  <2> QED
    BY <1>9, <2>1, <2>2 DEF IInv, Types
<1>12. Filled'
  <2>1. \A r \in Rows : row'[r].status # None <=> r <= k + n
    BY <1>1, <1>2, <1>4, <1>5, RowsAre
  <2> QED
    BY <1>4, <1>5, <1>6, <2>1 DEF IInv, Filled
<1>13. Due'
  <2>1. \A i, j \in DOMAIN queue' : queue'[i] = queue'[j] => i = j
    BY <1>1, <1>8, <1>9, <1>10, RowsAre DEF IInv, Due
  <2>2. ASSUME NEW i \in DOMAIN queue' PROVE row'[queue'[i]].status = "queued"
    <3>1. CASE i <= Len(queue)
      BY <1>5, <1>8, <1>9, <1>10, <2>2, <3>1 DEF IInv, Due
    <3>2. CASE ~(i <= Len(queue))
      <4>1. queue'[i] \in new
        BY <1>1, <1>2, <1>8, <1>9, <2>2, <3>2
      <4> QED
        BY <1>3, <1>4, <1>5, <4>1
    <3> QED
      BY <3>1, <3>2
  <2> QED
    BY <2>1, <2>2 DEF Due
<1>14. \A r : At(r)' <=> At(r)
  <2>1. drain.todo \subseteq Range(queue) /\ Types
    BY DEF IInv, Batched
  <2> QED
    BY <1>8, <1>9, <2>1, AtStays
<1>15. Batched'
  <2>1. Range(queue) \subseteq Range(queue')
    <3>1. \A i \in DOMAIN queue : i \in DOMAIN queue' /\ queue'[i] = queue[i]
      BY ONLY <1>8, <1>9
    <3> QED
      BY ONLY <3>1 DEF Range
  <2>2. Batched /\ UNCHANGED drain
    BY DEF IInv, Insert
  <2> QED
    BY ONLY <1>14, <2>1, <2>2 DEF Batched
<1>16. ASSUME NEW r \in Rows PROVE Tried(r)'
  <2>1. deaths \in Nat
    BY OpenIs
  <2>2. CASE r \in new
    <3>1. ~At(r)
      BY <1>10, <2>2, AtIs DEF IInv, Range
    <3> QED
      BY <1>4, <1>5, <1>14, <2>1, <2>2, <3>1, BoundsAre DEF Tried
  <2>3. CASE r \notin new
    BY <1>5, <1>14, <2>3 DEF IInv, Tried
  <2> QED
    BY <2>2, <2>3
<1>17. Paid'
  BY DEF IInv, Paid, Open
<1> QED
  BY <1>11, <1>12, <1>13, <1>15, <1>16, <1>17 DEF IInv

LEMMA LaunchInv ==
  ASSUME IInv, NEW q \in Requests, Launch(q)
  PROVE  IInv'
<1>1. launch[q] \in Campaigns /\ launch' \in [Requests -> Campaigns \cup {None}]
  BY DEF IInv, Types, Launch
<1>2. /\ Insert(launch[q], Audience)
      /\ UNCHANGED <<accepted, adapters, credit, charged, drain, acts, deaths>>
  BY DEF Launch
<1> QED
  BY <1>1, <1>2, BoundsAre, InsertInv

LEMMA QueueTriggeredInv ==
  ASSUME IInv, NEW c \in Campaigns, QueueTriggered(c)
  PROVE  IInv'
<1>1. launch' \in [Requests -> Campaigns \cup {None}]
  BY DEF IInv, Types, QueueTriggered
<1>2. /\ Insert(c, 1)
      /\ UNCHANGED <<accepted, adapters, credit, charged, drain, acts, deaths>>
  BY DEF QueueTriggered
<1> QED
  BY <1>1, <1>2, InsertInv

-----------------------------------------------------------------------------
(* What the tick does.                                                      *)

\* The batch is of due rows.
LEMMA BatchIs ==
  ASSUME Types
  PROVE  Batch \subseteq Range(queue) /\ Batch \subseteq Rows
<1>1. \A i \in DOMAIN queue : queue[i] \in Rows /\ queue[i] \in Range(queue)
  BY DEF Types, Range
<1> QED
  BY <1>1 DEF Batch

\* A row stays as it was where no answer is in hand for it.
LEMMA TriedStays ==
  ASSUME IInv, NEW r \in Rows, row'[r] = row[r], deaths' = deaths, drain'.answer = "none",
         At(r) => drain.answer = "none"
  PROVE  Tried(r)'
  BY DEF IInv, Tried, Counted

LEMMA BeginDrainInv == IInv /\ BeginDrain => IInv'
<1> SUFFICES ASSUME IInv, BeginDrain PROVE IInv'
  OBVIOUS
<1> DEFINE n == Cardinality(Batch)
           d == [Idle EXCEPT !.pc = "sending", !.todo = Batch, !.adapters = adapters, !.reserved = n]
<1>1. Types /\ Batch \subseteq Range(queue) /\ Batch \subseteq Rows /\ adapters \subseteq Channels
  BY BatchIs DEF IInv, Types
<1>2. n \in Nat
  BY <1>1, RowsAre, FS_Subset, FS_CardinalityType
<1>3. /\ drain.pc = "idle" /\ credit >= n
      /\ credit' = credit - n /\ charged' = charged + n
      /\ drain' = d
      /\ UNCHANGED <<campaign, row, accepted, queue, launch, adapters, acts, deaths>>
  BY DEF BeginDrain, MayDrain
<1> HIDE DEF n
<1>4. /\ d \in DrainType /\ d.pc = "sending" /\ d.todo = Batch /\ d.answer = "none"
      /\ d.cost = 0 /\ d.reserved = n
  BY <1>1, <1>2 DEF Idle, DrainType
<1> HIDE DEF d
<1>5. ~(\E r : At(r)) /\ drain.answer = "none" /\ Open = 0
  BY <1>3 DEF IInv, Batched, At, Open
<1>6. Types'
  BY <1>2, <1>3, <1>4 DEF IInv, Types
<1>7. Filled' /\ Due'
  BY <1>3 DEF IInv, Filled, Due
<1>8. Batched'
  BY <1>1, <1>2, <1>3, <1>4 DEF Batched, n
<1>9. \A r \in Rows : Tried(r)'
  BY <1>3, <1>4, <1>5, TriedStays
<1>10. Paid'
  <2>1. Open' = n
    BY <1>2, <1>3, <1>4 DEF Open
  <2> QED
    BY <1>1, <1>2, <1>3, <1>5, <2>1 DEF IInv, Paid, Types
<1> QED
  BY <1>6, <1>7, <1>8, <1>9, <1>10 DEF IInv

\* The next row of the batch.
LEMMA OnwardsIs ==
  ASSUME IInv, NEW r, At(r)
  PROVE  /\ Onwards(r) \in DrainType /\ Onwards(r).answer = "none"
         /\ Onwards(r).pc = "sending" /\ Onwards(r).todo = drain.todo \ {r}
         /\ Onwards(r).cost = drain.cost /\ Onwards(r).reserved = drain.reserved
         /\ Cardinality(Onwards(r).todo) = Cardinality(drain.todo) - 1
<1>1. r \in drain.todo /\ r \in Rows /\ drain.pc = "sending" /\ drain \in DrainType
  BY AtIs DEF IInv, Types, At
<1>2. row[r].campaign \in Campaigns \cup {None}
  BY <1>1, RowIs DEF IInv
<1>3. IsFiniteSet(drain.todo)
  BY <1>1, DrainIs
<1> DEFINE c == row[r].campaign
           d == [drain EXCEPT !.todo = @ \ {r}, !.answer = "none", !.touched = @ \cup {c}]
<1> HIDE DEF c
<1>4. /\ d \in DrainType /\ d.answer = "none" /\ d.pc = drain.pc /\ d.todo = drain.todo \ {r}
      /\ d.cost = drain.cost /\ d.reserved = drain.reserved
  BY <1>1, <1>2 DEF DrainType, c
<1>5. Onwards(r) = d
  BY DEF Onwards, c
<1>6. Cardinality(drain.todo \ {r}) = Cardinality(drain.todo) - 1
  BY <1>1, <1>3, FS_RemoveElement
<1> HIDE DEF d
<1> QED
  BY <1>1, <1>4, <1>5, <1>6

LEMMA SkipInv ==
  ASSUME IInv, NEW r \in Rows, Skip(r)
  PROVE  IInv'
<1>1. /\ At(r) /\ drain.answer = "none" /\ drain' = Onwards(r)
      /\ UNCHANGED <<campaign, row, accepted, queue, launch, adapters, credit, charged, acts, deaths>>
  BY DEF Skip
<1>2. /\ drain' \in DrainType /\ drain'.answer = "none" /\ drain'.pc = "sending"
      /\ drain'.todo \subseteq drain.todo
      /\ drain'.cost = drain.cost /\ drain'.reserved = drain.reserved
      /\ Cardinality(drain'.todo) = Cardinality(drain.todo) - 1
      /\ drain.pc = "sending"
  BY <1>1, OnwardsIs DEF At
<1>3. Types'
  BY <1>1, <1>2 DEF IInv, Types
<1>4. Filled' /\ Due'
  BY <1>1 DEF IInv, Filled, Due
<1>5. Batched'
  <2>1. drain \in DrainType
    BY DEF IInv, Types
  <2> QED
    BY <1>1, <1>2, <2>1, DrainIs DEF IInv, Batched
<1>6. \A s \in Rows : Tried(s)'
  BY <1>1, <1>2, TriedStays
<1>7. Paid'
  BY <1>1, <1>2 DEF IInv, Paid, Open
<1> QED
  BY <1>3, <1>4, <1>5, <1>6, <1>7 DEF IInv

LEMMA SendInv ==
  ASSUME IInv, NEW r \in Rows, NEW answer \in Answers, Send(r, answer)
  PROVE  IInv'
<1> DEFINE v == [row[r] EXCEPT !.accepted = IF answer = "sent" THEN @ + 1 ELSE @]
           d == [drain EXCEPT !.answer = answer]
<1>1. /\ At(r) /\ drain.answer = "none" /\ drain' = d
      /\ UNCHANGED <<campaign, queue, launch, adapters, credit, charged, acts, deaths>>
  BY DEF Send
<1>2. Types /\ drain \in DrainType /\ row[r] \in RowType /\ accepted \in Nat /\ charged \in Nat
  BY DEF IInv, Types
<1>3. /\ v \in RowType /\ v.status = row[r].status /\ v.attempts = row[r].attempts
      /\ v.accepted = row[r].accepted + (IF answer = "sent" THEN 1 ELSE 0)
  BY <1>2 DEF RowType
<1>4. row' = [row EXCEPT ![r] = v] /\ accepted' = accepted + (IF answer = "sent" THEN 1 ELSE 0)
  <2>1. CASE answer = "sent"
    BY <2>1 DEF Send
  <2>2. CASE answer # "sent"
    <3>1. v = row[r]
      BY <1>2, <2>2 DEF RowType
    <3> QED
      BY <1>2, <2>2, <3>1 DEF Send, Types
  <2> QED
    BY <2>1, <2>2
<1> HIDE DEF v
<1>5. /\ row' \in [Rows -> RowType] /\ row'[r] = v /\ \A s \in Rows : s # r => row'[s] = row[s]
  BY <1>2, <1>3, <1>4, RowChanges
<1>6. /\ d \in DrainType /\ d.answer = answer /\ d.pc = drain.pc /\ d.todo = drain.todo
      /\ d.cost = drain.cost /\ d.reserved = drain.reserved
  BY <1>2 DEF DrainType
<1> HIDE DEF d
<1>7. \A s : At(s)' <=> At(s)
  BY <1>1, <1>6 DEF At
<1>8. r \in drain.todo /\ row[r].status = "queued"
  BY <1>1, <1>2, AtIs DEF IInv, Due, Range
<1>9. Types'
  BY <1>1, <1>2, <1>4, <1>5, <1>6 DEF Types
<1>10. Filled' /\ Due'
  <2>1. \A s \in Rows : row'[s].status = row[s].status
    BY <1>3, <1>5
  <2>2. \A i \in DOMAIN queue : queue[i] \in Rows
    BY <1>2 DEF Types
  <2> QED
    BY <1>1, <1>3, <1>5, <1>8, <2>1, <2>2 DEF IInv, Filled, Due, None
<1>11. Batched'
  BY <1>1, <1>6, <1>7, <1>8 DEF IInv, Batched
<1>12. ASSUME NEW s \in Rows PROVE Tried(s)'
  <2>1. answer \notin Counted /\ deaths \in Nat /\ row[r].accepted \in Nat
    BY <1>2, OpenIs, RowIs DEF Answers, Counted
  <2>2. CASE s = r
    BY <1>1, <1>3, <1>5, <1>6, <1>7, <1>8, <2>1, <2>2 DEF IInv, Tried, Counted
  <2>3. CASE s # r
    <3>1. ~At(s)
      BY <1>1, <1>2, <2>3, AtIs
    <3> QED
      BY <1>1, <1>5, <1>7, <2>3, <3>1 DEF IInv, Tried
  <2> QED
    BY <2>2, <2>3
<1>13. Paid'
  <2>1. Open' = Open - (IF answer = "sent" THEN 1 ELSE 0) /\ Open \in Nat
    <3>1. drain.pc = "sending"
      BY <1>1 DEF At
    <3> QED
      BY <1>1, <1>2, <1>6, <3>1, DrainIs, OpenIs DEF Open
  <2> QED
    BY <1>1, <1>2, <1>4, <2>1 DEF IInv, Paid
<1> QED
  BY <1>9, <1>10, <1>11, <1>12, <1>13 DEF IInv

LEMMA RecordSentInv ==
  ASSUME IInv, NEW r \in Rows, RecordSent(r)
  PROVE  IInv'
<1> DEFINE v == [row[r] EXCEPT !.status = "sent"]
           d == [Onwards(r) EXCEPT !.cost = @ + 1]
<1>1. /\ At(r) /\ drain.answer = "sent" /\ drain' = d
      /\ row' = [row EXCEPT ![r] = v] /\ queue' = Without(r)
      /\ UNCHANGED <<campaign, accepted, launch, adapters, credit, charged, acts, deaths>>
  BY DEF RecordSent
<1>2. Types /\ Due /\ drain \in DrainType /\ row[r] \in RowType
  BY DEF IInv, Types
<1>3. v \in RowType /\ v.status = "sent" /\ v.attempts = row[r].attempts /\ v.accepted = row[r].accepted
  BY <1>2 DEF RowType
<1> HIDE DEF v
<1>4. /\ row' \in [Rows -> RowType] /\ row'[r] = v /\ \A s \in Rows : s # r => row'[s] = row[s]
  BY <1>1, <1>2, <1>3, RowChanges
<1>5. /\ d \in DrainType /\ d.answer = "none" /\ d.pc = "sending"
      /\ d.todo = drain.todo \ {r} /\ Cardinality(d.todo) = Cardinality(drain.todo) - 1
      /\ d.cost = drain.cost + 1 /\ d.reserved = drain.reserved
  BY <1>1, OnwardsIs DEF DrainType
<1> HIDE DEF d
<1>6. r \in Range(queue) /\ row[r].status = "queued"
  BY <1>1, <1>2, AtIs DEF Due, Range
<1>7. /\ queue' \in Seq(Rows) /\ Range(queue') = Range(queue) \ {r}
      /\ \A i, j \in DOMAIN queue' : queue'[i] = queue'[j] => i = j
  BY <1>1, <1>2, <1>6, WithoutIs
<1>8. Types'
  BY <1>1, <1>2, <1>4, <1>5, <1>7 DEF Types
<1>9. Filled'
  BY <1>3, <1>4, <1>6 DEF IInv, Filled, None
<1>10. Due'
  <2>1. \A s \in Range(queue') : s \in Rows /\ s # r /\ row[s].status = "queued"
    <3>1. \A i \in DOMAIN queue : queue[i] \in Rows /\ row[queue[i]].status = "queued"
      BY <1>2 DEF Due, Types
    <3> QED
      BY <1>7, <3>1 DEF Range
  <2>2. \A i \in DOMAIN queue' : queue'[i] \in Range(queue')
    BY DEF Range
  <2> QED
    BY <1>4, <1>7, <2>1, <2>2 DEF Due
<1>11. Batched'
  BY <1>1, <1>2, <1>5, <1>7, DrainIs DEF IInv, Batched
<1>12. ASSUME NEW s \in Rows PROVE Tried(s)'
  <2>1. CASE s = r
    BY <1>1, <1>3, <1>4, <1>5, <2>1 DEF IInv, Tried
  <2>2. CASE s # r
    BY <1>1, <1>2, <1>4, <1>5, <2>2, AtIs, TriedStays
  <2> QED
    BY <2>1, <2>2
<1>13. Paid'
  <2>1. Open' = Open
    <3>1. drain.pc = "sending"
      BY <1>1 DEF At
    <3> QED
      BY <1>1, <1>2, <1>5, <3>1, DrainIs DEF Open
  <2> QED
    BY <1>1, <2>1 DEF IInv, Paid
<1> QED
  BY <1>8, <1>9, <1>10, <1>11, <1>12, <1>13 DEF IInv

LEMMA CountFailureInv ==
  ASSUME IInv, NEW r \in Rows, CountFailure(r)
  PROVE  IInv'
<1> DEFINE v == [row[r] EXCEPT !.attempts = @ + 1]
           answer == IF drain.answer = "retry" THEN "retry_counted" ELSE "permanent_counted"
           d == [drain EXCEPT !.answer = answer]
<1>1. /\ At(r) /\ drain.answer \in {"retry", "permanent"} /\ drain' = d
      /\ row' = [row EXCEPT ![r] = v]
      /\ UNCHANGED <<campaign, accepted, queue, launch, adapters, credit, charged, acts, deaths>>
  BY DEF CountFailure
<1>2. Types /\ drain \in DrainType /\ row[r] \in RowType
  BY DEF IInv, Types
<1>3. /\ v \in RowType /\ v.status = row[r].status /\ v.attempts = row[r].attempts + 1
      /\ v.accepted = row[r].accepted
  BY <1>2 DEF RowType
<1> HIDE DEF v
<1>4. /\ row' \in [Rows -> RowType] /\ row'[r] = v /\ \A s \in Rows : s # r => row'[s] = row[s]
  BY <1>1, <1>2, <1>3, RowChanges
<1>5. answer \in Counted
  BY DEF Counted
<1> HIDE DEF answer
<1>6. /\ d \in DrainType /\ d.answer = answer /\ d.pc = drain.pc /\ d.todo = drain.todo
      /\ d.cost = drain.cost /\ d.reserved = drain.reserved
  BY <1>2, <1>5 DEF DrainType
<1> HIDE DEF d
<1>7. \A s : At(s)' <=> At(s)
  BY <1>1, <1>6 DEF At
<1>8. r \in drain.todo /\ row[r].status = "queued"
  BY <1>1, <1>2, AtIs DEF IInv, Due, Range
<1>9. Types'
  BY <1>1, <1>2, <1>4, <1>6 DEF Types
<1>10. Filled' /\ Due'
  <2>1. \A s \in Rows : row'[s].status = row[s].status
    BY <1>3, <1>4
  <2>2. \A i \in DOMAIN queue : queue[i] \in Rows
    BY <1>2 DEF Types
  <2> QED
    BY <1>1, <1>3, <1>4, <1>8, <2>1, <2>2 DEF IInv, Filled, Due, None
<1>11. Batched'
  BY <1>1, <1>6, <1>7, <1>8 DEF IInv, Batched
<1>12. ASSUME NEW s \in Rows PROVE Tried(s)'
  <2>1. /\ deaths \in Nat /\ row[r].attempts \in Nat
        /\ drain.answer \notin Counted /\ drain.answer # "sent" /\ answer # "sent"
    BY <1>1, <1>2, <1>5, OpenIs, RowIs DEF Counted
  <2>2. CASE s = r
    BY <1>1, <1>3, <1>4, <1>5, <1>6, <1>7, <1>8, <2>1, <2>2, BoundsAre DEF IInv, Tried
  <2>3. CASE s # r
    <3>1. ~At(s)
      BY <1>1, <1>2, <2>3, AtIs
    <3> QED
      BY <1>1, <1>4, <1>7, <2>3, <3>1 DEF IInv, Tried
  <2> QED
    BY <2>2, <2>3
<1>13. Paid'
  <2>1. Open' = Open
    BY <1>1, <1>5, <1>6 DEF Open, Counted
  <2> QED
    BY <1>1, <2>1 DEF IInv, Paid
<1> QED
  BY <1>9, <1>10, <1>11, <1>12, <1>13 DEF IInv

LEMMA RecordFailureInv ==
  ASSUME IInv, NEW r \in Rows, RecordFailure(r)
  PROVE  IInv'
<1> DEFINE status == IF GivesUp(r) THEN "failed" ELSE "queued"
           v == [row[r] EXCEPT !.status = status]
<1>1. /\ At(r) /\ drain.answer \in Counted /\ drain' = Onwards(r)
      /\ row' = [row EXCEPT ![r] = v] /\ queue' = Without(r)
      /\ UNCHANGED <<campaign, accepted, launch, adapters, credit, charged, acts, deaths>>
  BY DEF RecordFailure
<1>2. Types /\ Due /\ drain \in DrainType /\ row[r] \in RowType
  BY DEF IInv, Types
<1>3. status \in {"failed", "queued"} /\ (status = "queued" => ~(row[r].attempts >= MaxAttempts))
  BY DEF GivesUp
<1> HIDE DEF status
<1>4. v \in RowType /\ v.status = status /\ v.attempts = row[r].attempts /\ v.accepted = row[r].accepted
  BY <1>2, <1>3 DEF RowType
<1> HIDE DEF v
<1>5. /\ row' \in [Rows -> RowType] /\ row'[r] = v /\ \A s \in Rows : s # r => row'[s] = row[s]
  BY <1>1, <1>2, <1>4, RowChanges
<1>6. /\ drain' \in DrainType /\ drain'.answer = "none" /\ drain'.pc = "sending"
      /\ drain'.todo = drain.todo \ {r} /\ Cardinality(drain'.todo) = Cardinality(drain.todo) - 1
      /\ drain'.cost = drain.cost /\ drain'.reserved = drain.reserved
  BY <1>1, OnwardsIs
<1>7. r \in Range(queue) /\ row[r].status = "queued"
  BY <1>1, <1>2, AtIs DEF Due, Range
<1>8. /\ queue' \in Seq(Rows) /\ Range(queue') = Range(queue) \ {r}
      /\ \A i, j \in DOMAIN queue' : queue'[i] = queue'[j] => i = j
  BY <1>1, <1>2, <1>7, WithoutIs
<1>9. Types'
  BY <1>1, <1>2, <1>5, <1>6, <1>8 DEF Types
<1>10. Filled'
  BY <1>3, <1>4, <1>5, <1>7 DEF IInv, Filled, None
<1>11. Due'
  <2>1. \A s \in Range(queue') : s \in Rows /\ s # r /\ row[s].status = "queued"
    <3>1. \A i \in DOMAIN queue : queue[i] \in Rows /\ row[queue[i]].status = "queued"
      BY <1>2 DEF Due, Types
    <3> QED
      BY <1>8, <3>1 DEF Range
  <2>2. \A i \in DOMAIN queue' : queue'[i] \in Range(queue')
    BY DEF Range
  <2> QED
    BY <1>5, <1>8, <2>1, <2>2 DEF Due
<1>12. Batched'
  BY <1>1, <1>2, <1>6, <1>8, DrainIs DEF IInv, Batched
<1>13. ASSUME NEW s \in Rows PROVE Tried(s)'
  <2>1. /\ deaths \in Nat /\ row[r].attempts \in Nat /\ drain.answer # "sent"
        /\ row[r].accepted \in Nat
    BY <1>1, <1>2, OpenIs, RowIs DEF Counted
  <2>2. CASE s = r
    BY <1>1, <1>3, <1>4, <1>5, <1>6, <1>7, <2>1, <2>2, BoundsAre DEF IInv, Tried, Counted
  <2>3. CASE s # r
    BY <1>1, <1>2, <1>5, <1>6, <2>3, AtIs, TriedStays
  <2> QED
    BY <2>2, <2>3
<1>14. Paid'
  <2>1. Open' = Open
    <3>1. drain.pc = "sending"
      BY <1>1 DEF At
    <3> QED
      BY <1>1, <1>6, <3>1 DEF Open, Counted
  <2> QED
    BY <1>1, <2>1 DEF IInv, Paid
<1> QED
  BY <1>9, <1>10, <1>11, <1>12, <1>13, <1>14 DEF IInv

LEMMA SettleInv == IInv /\ Settle => IInv'
<1> SUFFICES ASSUME IInv, Settle PROVE IInv'
  OBVIOUS
<1> DEFINE refund == drain.reserved - drain.cost
           d == [drain EXCEPT !.pc = "reconciling"]
<1>1. /\ drain.pc = "sending" /\ drain.todo = {}
      /\ credit' = credit + refund /\ charged' = charged - refund
      /\ drain' = d
      /\ UNCHANGED <<campaign, row, accepted, queue, launch, adapters, acts, deaths>>
  BY DEF Settle
<1>2. Types /\ drain \in DrainType /\ accepted \in Nat /\ charged \in Nat /\ credit \in Nat
  BY DEF IInv, Types
<1>3. drain.answer = "none" /\ ~(\E r : At(r))
  BY <1>1 DEF IInv, Batched, At
<1>4. refund \in Nat /\ Open = refund
  <2>1. Cardinality(drain.todo) = 0
    BY <1>1, FS_EmptySet
  <2> QED
    BY <1>1, <1>2, <1>3, <2>1, DrainIs DEF IInv, Batched, Open
<1> HIDE DEF refund
<1>5. /\ d \in DrainType /\ d.pc = "reconciling" /\ d.todo = drain.todo /\ d.answer = "none"
      /\ d.cost = drain.cost /\ d.reserved = drain.reserved
  BY <1>2, <1>3 DEF DrainType
<1> HIDE DEF d
<1>6. Types'
  BY <1>1, <1>2, <1>4, <1>5 DEF IInv, Types, Paid
<1>7. Filled' /\ Due'
  BY <1>1 DEF IInv, Filled, Due
<1>8. Batched'
  BY <1>1, <1>5 DEF IInv, Batched
<1>9. \A r \in Rows : Tried(r)'
  BY <1>1, <1>3, <1>5, TriedStays
<1>10. Paid'
  <2>1. Open' = 0
    BY <1>1, <1>5 DEF Open
  <2> QED
    BY <1>1, <1>2, <1>4, <2>1 DEF IInv, Paid
<1> QED
  BY <1>6, <1>7, <1>8, <1>9, <1>10 DEF IInv

LEMMA CountOpenInv == IInv /\ CountOpen => IInv'
<1> SUFFICES ASSUME IInv, CountOpen PROVE IInv'
  OBVIOUS
<1> DEFINE found == {c \in Campaigns : c \in drain.touched /\ QueuedOf(c) = {}}
           d == [drain EXCEPT !.pc = "completing", !.touched = found]
<1>1. /\ drain.pc = "reconciling" /\ drain' = d
      /\ UNCHANGED <<campaign, row, accepted, queue, launch, adapters, credit, charged, acts, deaths>>
  BY DEF CountOpen
<1>2. drain \in DrainType /\ found \subseteq Campaigns
  BY DEF IInv, Types
<1> HIDE DEF found
<1>3. drain.answer = "none" /\ drain.todo = {} /\ ~(\E r : At(r))
  BY <1>1 DEF IInv, Batched, At
<1>4. /\ d \in DrainType /\ d.pc = "completing" /\ d.todo = drain.todo /\ d.answer = "none"
      /\ d.cost = drain.cost /\ d.reserved = drain.reserved
  BY <1>2, <1>3 DEF DrainType
<1> HIDE DEF d
<1>5. Types'
  BY <1>1, <1>4 DEF IInv, Types
<1>6. Filled' /\ Due'
  BY <1>1 DEF IInv, Filled, Due
<1>7. Batched'
  BY <1>1, <1>3, <1>4 DEF IInv, Batched
<1>8. \A r \in Rows : Tried(r)'
  BY <1>1, <1>3, <1>4, TriedStays
<1>9. Paid'
  BY <1>1, <1>4 DEF IInv, Paid, Open
<1> QED
  BY <1>5, <1>6, <1>7, <1>8, <1>9 DEF IInv

LEMMA ReconcileInv == IInv /\ Reconcile => IInv'
<1> SUFFICES ASSUME IInv, Reconcile PROVE IInv'
  OBVIOUS
<1>1. /\ drain.pc = "completing" /\ drain' = Idle
      /\ UNCHANGED <<row, accepted, queue, launch, adapters, credit, charged, acts, deaths>>
  BY DEF Reconcile
<1>2. drain.answer = "none" /\ Open = 0
  BY <1>1 DEF IInv, Batched, At, Open
<1>3. campaign' \in [Campaigns -> Statuses]
  BY DEF IInv, Types, Reconcile, Statuses
<1>4. Types'
  BY <1>1, <1>3, IdleIs DEF IInv, Types
<1>5. Filled' /\ Due'
  BY <1>1 DEF IInv, Filled, Due
<1>6. Batched'
  BY <1>1, IdleIs, FS_EmptySet DEF Batched
<1>7. \A r \in Rows : Tried(r)'
  BY <1>1, <1>2, IdleIs, TriedStays
<1>8. Paid'
  BY <1>1, <1>2, IdleIs DEF IInv, Paid, Open
<1> QED
  BY <1>4, <1>5, <1>6, <1>7, <1>8 DEF IInv

LEMMA ComesDueInv ==
  ASSUME IInv, NEW r \in Rows, ComesDue(r)
  PROVE  IInv'
<1>1. /\ row[r].status = "queued" /\ r \notin Range(queue) /\ queue' = Append(queue, r)
      /\ UNCHANGED <<campaign, row, accepted, launch, adapters, credit, charged, drain, acts, deaths>>
  BY DEF ComesDue
<1>2. Len(queue) \in Nat /\ DOMAIN queue = 1..Len(queue) /\ queue \in Seq(Rows)
  BY DEF IInv, Types
<1>3. /\ queue' \in Seq(Rows) /\ Len(queue') = Len(queue) + 1
      /\ DOMAIN queue' = 1..(Len(queue) + 1)
      /\ \A i \in 1..(Len(queue) + 1) : queue'[i] = IF i <= Len(queue) THEN queue[i] ELSE r
  BY <1>1, <1>2
<1>4. \A i \in DOMAIN queue : queue'[i] = queue[i] /\ queue[i] # r
  BY <1>1, <1>2, <1>3 DEF Range
<1>5. \A s : At(s)' <=> At(s)
  BY <1>1, <1>2, <1>3, <1>4, AtStays DEF IInv, Batched
<1>6. Types'
  BY <1>1, <1>3 DEF IInv, Types
<1>7. Filled' /\ Paid'
  BY <1>1 DEF IInv, Filled, Paid, Open
<1>8. Due'
  BY <1>1, <1>2, <1>3, <1>4 DEF IInv, Due
<1>9. Batched'
  <2>1. Range(queue) \subseteq Range(queue')
    BY <1>2, <1>3, <1>4 DEF Range
  <2> QED
    BY <1>1, <1>5, <2>1 DEF IInv, Batched
<1>10. \A s \in Rows : Tried(s)'
  BY <1>1, <1>5 DEF IInv, Tried
<1> QED
  BY <1>6, <1>7, <1>8, <1>9, <1>10 DEF IInv

\* What a death leaves behind: the reservation, and a row it may try once more.
LEMMA DieInv == IInv /\ Die => IInv'
<1> SUFFICES ASSUME IInv, Die PROVE IInv'
  OBVIOUS
<1>1. /\ deaths < MaxDeaths /\ deaths' = deaths + 1 /\ drain' = Idle
      /\ launch' = [q \in Requests |-> None]
      /\ UNCHANGED <<campaign, row, accepted, queue, adapters, credit, charged, acts>>
  BY DEF Die
<1>2. Open \in Nat /\ deaths \in Nat /\ accepted \in Nat /\ charged \in Nat
  BY OpenIs DEF IInv, Types
<1>3. Types'
  BY <1>1, <1>2, IdleIs, BoundsAre DEF IInv, Types
<1>4. Filled' /\ Due'
  BY <1>1 DEF IInv, Filled, Due
<1>5. Batched'
  BY <1>1, IdleIs, FS_EmptySet DEF Batched
<1>6. ASSUME NEW r \in Rows PROVE Tried(r)'
  <2>1. row[r].attempts \in Nat /\ row[r].accepted \in Nat
    BY RowIs DEF IInv
  <2> QED
    BY <1>1, <1>2, <2>1, IdleIs, BoundsAre DEF IInv, Tried, Counted
<1>7. Paid'
  <2>1. Open' = 0
    BY <1>1, IdleIs DEF Open
  <2> QED
    BY <1>1, <1>2, <2>1 DEF IInv, Paid
<1> QED
  BY <1>3, <1>4, <1>5, <1>6, <1>7 DEF IInv

-----------------------------------------------------------------------------
(* The theorems.                                                            *)

LEMMA NextInv == IInv /\ [Next]_vars => IInv'
<1> SUFFICES ASSUME IInv, [Next]_vars PROVE IInv'
  OBVIOUS
<1>1. ASSUME NEW q \in Requests, NEW c \in Campaigns, CheckLaunch(q, c) PROVE IInv'
  BY <1>1, CheckLaunchInv
<1>2. ASSUME NEW q \in Requests, Launch(q) PROVE IInv'
  BY <1>2, LaunchInv
<1>3. ASSUME NEW c \in Campaigns, QueueTriggered(c) PROVE IInv'
  BY <1>3, QueueTriggeredInv
<1>4. ASSUME NEW c \in Campaigns, Pause(c) \/ Resume(c) PROVE IInv'
  BY <1>4, PauseResumeInv
<1>5. ASSUME NEW ch \in Channels, Configure(ch) PROVE IInv'
  <2>1. Types'
    BY <1>5, BoundsAre DEF IInv, Types, Configure, Act
  <2> QED
    BY <1>5, <2>1, QuietInv DEF Configure
<1>6. CASE TopUp
  <2>1. Types'
    BY <1>6, BoundsAre DEF IInv, Types, TopUp, Act
  <2> QED
    BY <1>6, <2>1, QuietInv DEF TopUp
<1>7. CASE BeginDrain
  BY <1>7, BeginDrainInv
<1>8. ASSUME NEW r \in drain.todo,
             Skip(r) \/ (\E a \in Answers : Send(r, a))
             \/ RecordSent(r) \/ CountFailure(r) \/ RecordFailure(r)
      PROVE  IInv'
  <2>1. r \in Rows
    BY DEF IInv, Types, DrainType
  <2>2. CASE Skip(r)
    BY <2>1, <2>2, SkipInv
  <2>3. ASSUME NEW a \in Answers, Send(r, a) PROVE IInv'
    BY <2>1, <2>3, SendInv
  <2>4. CASE RecordSent(r)
    BY <2>1, <2>4, RecordSentInv
  <2>5. CASE CountFailure(r)
    BY <2>1, <2>5, CountFailureInv
  <2>6. CASE RecordFailure(r)
    BY <2>1, <2>6, RecordFailureInv
  <2> QED
    BY <1>8, <2>2, <2>3, <2>4, <2>5, <2>6
<1>9. CASE Settle
  BY <1>9, SettleInv
<1>10. CASE CountOpen \/ Reconcile
  BY <1>10, CountOpenInv, ReconcileInv
<1>11. ASSUME NEW r \in Rows, ComesDue(r) PROVE IInv'
  BY <1>11, ComesDueInv
<1>12. CASE Die
  BY <1>12, DieInv
<1>13. CASE UNCHANGED vars
  <2>1. Types'
    BY <1>13 DEF IInv, Types, vars
  <2> QED
    BY <1>13, <2>1, QuietInv DEF vars
<1>14. CASE TickStep
  BY <1>7, <1>8, <1>9, <1>10, <1>14 DEF TickStep
<1> QED
  BY <1>1, <1>2, <1>3, <1>4, <1>5, <1>6, <1>11, <1>12, <1>13, <1>14 DEF Next

\* The inductive invariant of the outbox holds in every state, whatever is launched
\* twice, paused, unconfigured, refused by the provider or cut off by a death.
THEOREM Invariance == Spec => []IInv
<1> QED
  BY InitInv, NextInv, PTL DEF Spec

\* Every variable keeps its type; the balance is never overdrawn, and no row is tried
\* more often than max_attempts and once more for each death of the server.
THEOREM TypeCorrect == Spec => []TypeOK
<1>1. IInv => TypeOK
  <2> SUFFICES ASSUME IInv PROVE TypeOK
    OBVIOUS
  <2>1. \A r \in Rows : row[r].attempts \in 0..(MaxAttempts + MaxDeaths)
    BY OpenIs, RowIs, BoundsAre DEF IInv, Tried
  <2>2. Range(queue) \subseteq {r \in Rows : row[r].status = "queued"}
    BY DEF IInv, Types, Due, Range
  <2>3. drain \in DrainType
    BY DEF IInv, Types
  <2> QED
    BY <2>1, <2>2, <2>3, RowIs, DrainIs DEF IInv, Types, TypeOK
<1> QED
  BY <1>1, Invariance, PTL

\* A message goes out once, and once more at most for each death of the server; what
\* the provider accepted was paid for, and without a death nothing else was charged, for
\* any number of campaigns, rows, batches and attempts.
THEOREM EveryMessageOnceAndPaid == Spec => []SentOnceAndPaid
<1>1. IInv => SentOnceAndPaid
  BY DEF IInv, Tried, Paid, SentOnceAndPaid
<1> QED
  BY <1>1, Invariance, PTL

-----------------------------------------------------------------------------
(* The outbox is prepaid post.                                              *)

\* A step that leaves what a message is, the campaigns and the money alone, and finds no campaign
\* empty, is no step of the post.
LEMMA LettersStay ==
  ASSUME \A r \in Rows : /\ row'[r].status = row[r].status
                         /\ row'[r].campaign = row[r].campaign
                         /\ row'[r].accepted = row[r].accepted
  PROVE  UNCHANGED <<Life, Sender, Went>>
  BY DEF Life, Sender, Went

LEMMA QuietPost ==
  ASSUME UNCHANGED <<row, campaign, accepted, credit, charged, deaths, Found>>
  PROVE  UNCHANGED P!vars
<1>1. UNCHANGED <<Life, Sender, Went>>
  BY LettersStay
<1>2. UNCHANGED Completed
  BY DEF Completed
<1> QED
  BY <1>1, <1>2 DEF P!vars

\* Outside "completing" no campaign counts as found empty.
LEMMA FoundIs ==
  ASSUME \/ UNCHANGED drain
         \/ drain.pc # "completing" /\ drain'.pc # "completing"
  PROVE  UNCHANGED Found
  BY DEF Found

\* The loop of the drain stays in it.
LEMMA SendingFinds ==
  ASSUME IInv, NEW r, At(r), drain' \in {Onwards(r), [Onwards(r) EXCEPT !.cost = @ + 1]}
                             \/ \E a : drain' = [drain EXCEPT !.answer = a]
  PROVE  UNCHANGED Found
<1>1. drain.pc = "sending" /\ drain \in DrainType
  BY DEF At, IInv, Types
<1>2. Onwards(r).pc = "sending" /\ Onwards(r) \in DrainType
  BY OnwardsIs
<1>3. drain'.pc = "sending"
  BY <1>1, <1>2 DEF DrainType
<1> QED
  BY <1>1, <1>3, FoundIs

\* A pause or a resumption completes nothing and takes no completion back.
LEMMA PauseResumePost ==
  ASSUME IInv, NEW c \in Campaigns, Pause(c) \/ Resume(c)
  PROVE  UNCHANGED P!vars
<1>1. /\ campaign[c] \in {"sending", "paused"}
      /\ \E s \in {"sending", "paused"} : campaign' = [campaign EXCEPT ![c] = s]
      /\ UNCHANGED <<row, accepted, credit, charged, deaths, drain>>
  BY DEF Pause, Resume
<1>2. campaign \in [Campaigns -> Statuses]
  BY DEF IInv, Types
<1>3. UNCHANGED Completed
  BY <1>1, <1>2 DEF Completed
<1>4. UNCHANGED <<Life, Sender, Went, Found>>
  BY <1>1, LettersStay, FoundIs
<1> QED
  BY <1>1, <1>3, <1>4 DEF P!vars

\* The rows a campaign inserts are its messages, queued; it is not completed any more.
LEMMA InsertPost ==
  ASSUME IInv, NEW c \in Campaigns, NEW n \in Nat \ {0}, Insert(c, n),
         UNCHANGED <<accepted, credit, charged, deaths, drain>>
  PROVE  P!Next
<1>1. PICK k \in 0..MaxRows : /\ \A r \in Rows : row[r].status # None <=> r <= k
                             /\ Cardinality({r \in Rows : row[r].status # None}) = k
  BY FilledTo DEF IInv
<1> DEFINE new == (k + 1)..(k + n)
           v == [NoRow EXCEPT !.campaign = c, !.status = "queued"]
<1>2. /\ new \subseteq Rows
      /\ row' = [r \in Rows |-> IF r \in new THEN v ELSE row[r]]
      /\ campaign' = [campaign EXCEPT ![c] = "sending"]
  BY <1>1 DEF Insert
<1>3. v.status = "queued" /\ v.campaign = c /\ v.accepted = 0
  BY DEF NoRow
<1>4. \A r \in new : row[r].status = None /\ row[r].accepted = 0
  <2>1. \A r \in new : r \in Rows /\ ~(r <= k)
    BY <1>1, <1>2
  <2> QED
    BY <1>1, <2>1 DEF IInv, Filled
<1> HIDE DEF new, v
<1>5. \A r \in new : Life[r] = "none"
  BY <1>2, <1>4 DEF Life, None
<1>6. Life' = [r \in Rows |-> IF r \in new THEN "queued" ELSE Life[r]]
  BY <1>2, <1>3 DEF Life
<1>7. Sender' = [r \in Rows |-> IF r \in new THEN c ELSE Sender[r]]
  BY <1>2, <1>3 DEF Sender
<1>8. Went' = Went
  BY <1>2, <1>3, <1>4 DEF Went
<1>9. Completed' = Completed \ {c}
  <2>1. campaign \in [Campaigns -> Statuses]
    BY DEF IInv, Types
  <2> QED
    BY <1>2, <2>1 DEF Completed
<1>10. P!Queue(c, new)
  BY <1>5, <1>6, <1>7, <1>8, <1>9, FoundIs DEF P!Queue
<1> QED
  BY <1>2, <1>10 DEF P!Next

\* Credit is reserved for a batch.
LEMMA BeginDrainPost == IInv /\ BeginDrain => P!Next
<1> SUFFICES ASSUME IInv, BeginDrain PROVE P!Next
  OBVIOUS
<1> DEFINE n == Cardinality(Batch)
<1>1. /\ credit >= n /\ credit' = credit - n /\ charged' = charged + n
      /\ UNCHANGED <<campaign, row, accepted, deaths>>
      /\ drain.pc = "idle" /\ drain'.pc = "sending"
  BY DEF BeginDrain, MayDrain, Idle
<1>2. n \in Nat
  BY BatchIs, RowsAre, FS_Subset, FS_CardinalityType DEF IInv
<1> HIDE DEF n
<1>3. UNCHANGED <<Life, Sender, Went, Completed, Found>>
  BY <1>1, LettersStay, FoundIs DEF Completed
<1>4. n \in 0..credit
  BY <1>1, <1>2 DEF IInv, Types
<1> QED
  BY <1>1, <1>3, <1>4 DEF P!Pay, P!Next

\* The provider accepts a message: it is queued, has not gone out since the last death, and was
\* paid for.
LEMMA SendPost ==
  ASSUME IInv, NEW r \in Rows, NEW answer \in Answers, Send(r, answer)
  PROVE  P!Next \/ UNCHANGED P!vars
<1>0. UNCHANGED Found
  BY SendingFinds DEF Send
<1>1. CASE answer # "sent"
  <2>1. UNCHANGED <<row, campaign, accepted, credit, charged, deaths>>
    BY <1>1 DEF Send
  <2> QED
    BY <1>0, <2>1, QuietPost
<1>2. CASE answer = "sent"
  <2>1. /\ At(r) /\ drain.answer = "none"
        /\ row' = [row EXCEPT ![r].accepted = @ + 1] /\ accepted' = accepted + 1
        /\ UNCHANGED <<campaign, credit, charged, deaths>>
    BY <1>2 DEF Send
  <2>2. Types /\ drain \in DrainType /\ row \in [Rows -> RowType] /\ row[r].accepted \in Nat
    BY RowIs DEF IInv, Types
  <2>3. drain.pc = "sending" /\ r \in drain.todo /\ row[r].status = "queued"
    BY <2>1, <2>2, AtIs DEF IInv, At, Due, Range
  <2>4. row[r].accepted <= deaths
    BY <2>1, <2>3 DEF IInv, Tried
  <2>5. accepted < charged
    <3>1. Cardinality(drain.todo) \in Nat /\ Cardinality(drain.todo) # 0
      BY <2>2, <2>3, DrainIs, FS_EmptySet
    <3>2. Open > 0
      BY <2>1, <2>2, <2>3, <3>1, DrainIs DEF IInv, Batched, Open
    <3> QED
      BY <2>2, <3>2, OpenIs DEF IInv, Paid, Types
  <2>6. Life[r] = "queued" /\ Went[r] <= deaths
    BY <2>3, <2>4 DEF Life, Went
  <2>7. \A s \in Rows : /\ row'[s].status = row[s].status
                        /\ row'[s].campaign = row[s].campaign
                        /\ row'[s].accepted = IF s = r THEN row[r].accepted + 1 ELSE row[s].accepted
    BY <2>1, <2>2 DEF RowType
  <2>8. UNCHANGED <<Life, Sender, Completed>>
    BY <2>1, <2>7 DEF Life, Sender, Completed
  <2>9. Went' = [Went EXCEPT ![r] = Went[r] + 1]
    BY <2>7 DEF Went
  <2>10. P!GoOut(r)
    BY <1>0, <2>1, <2>5, <2>6, <2>8, <2>9 DEF P!GoOut
  <2> QED
    BY <2>10 DEF P!Next
<1> QED
  BY <1>1, <1>2

\* A row is written as sent or as failed.
LEMMA DecidePost ==
  ASSUME IInv, NEW r \in Rows, NEW l \in {"sent", "failed"}, row[r].status = "queued",
         l = "sent" => row[r].accepted > 0, row' = [row EXCEPT ![r].status = l],
         UNCHANGED <<campaign, accepted, credit, charged, deaths, Found>>
  PROVE  P!Next
<1>1. row \in [Rows -> RowType]
  BY DEF IInv, Types
<1>2. \A s \in Rows : /\ row'[s].status = IF s = r THEN l ELSE row[s].status
                      /\ row'[s].campaign = row[s].campaign
                      /\ row'[s].accepted = row[s].accepted
  BY <1>1 DEF RowType
<1>3. Life' = [Life EXCEPT ![r] = l]
  BY <1>2 DEF Life
<1>4. UNCHANGED <<Sender, Went, Completed>>
  BY <1>2 DEF Sender, Went, Completed
<1>5. Life[r] = "queued" /\ (l = "sent" => Went[r] > 0)
  BY DEF Life, Went
<1>6. P!Decide(r, l)
  BY <1>3, <1>4, <1>5 DEF P!Decide
<1> QED
  BY <1>6 DEF P!Next

LEMMA RecordSentPost ==
  ASSUME IInv, NEW r \in Rows, RecordSent(r)
  PROVE  P!Next
<1>1. /\ At(r) /\ drain.answer = "sent" /\ row' = [row EXCEPT ![r].status = "sent"]
      /\ UNCHANGED <<campaign, accepted, credit, charged, deaths, Found>>
  BY SendingFinds DEF RecordSent
<1>2. row[r].status = "queued" /\ row[r].accepted > 0
  BY <1>1, AtIs DEF IInv, Due, Range, Tried
<1> QED
  BY <1>1, <1>2, DecidePost

LEMMA RecordFailurePost ==
  ASSUME IInv, NEW r \in Rows, RecordFailure(r)
  PROVE  P!Next \/ UNCHANGED P!vars
<1> DEFINE status == IF GivesUp(r) THEN "failed" ELSE "queued"
<1>1. /\ At(r) /\ row' = [row EXCEPT ![r].status = status]
      /\ UNCHANGED <<campaign, accepted, credit, charged, deaths, Found>>
  BY SendingFinds DEF RecordFailure
<1>2. status \in {"failed", "queued"}
  OBVIOUS
<1> HIDE DEF status
<1>3. row[r].status = "queued"
  BY <1>1, AtIs DEF IInv, Due, Range
<1>4. CASE status = "failed"
  BY <1>1, <1>3, <1>4, DecidePost
<1>5. CASE status = "queued"
  <2>1. row \in [Rows -> RowType]
    BY DEF IInv, Types
  <2>2. row' = row
    BY <1>1, <1>3, <1>5, <2>1 DEF RowType
  <2> QED
    BY <1>1, <2>2, QuietPost
<1> QED
  BY <1>2, <1>4, <1>5

\* What a batch did not use comes back.
LEMMA SettlePost == IInv /\ Settle => P!Next
<1> SUFFICES ASSUME IInv, Settle PROVE P!Next
  OBVIOUS
<1> DEFINE n == drain.reserved - drain.cost
<1>1. /\ drain.pc = "sending" /\ drain.todo = {}
      /\ credit' = credit + n /\ charged' = charged - n
      /\ UNCHANGED <<campaign, row, accepted, deaths>>
      /\ drain' = [drain EXCEPT !.pc = "reconciling"]
  BY DEF Settle
<1>2. drain \in DrainType /\ accepted \in Nat /\ charged \in Nat /\ drain.answer = "none"
  BY <1>1 DEF IInv, Types, Batched
<1>3. n \in Nat /\ Open = n
  <2>1. Open = n
    BY <1>1, <1>2, DrainIs DEF Open
  <2> HIDE DEF n
  <2> QED
    BY <2>1, OpenIs
<1> HIDE DEF n
<1>4. accepted + n <= charged /\ n \in 0..charged
  BY <1>2, <1>3 DEF IInv, Paid
<1>5. UNCHANGED <<Life, Sender, Went, Completed, Found>>
  <2>1. drain'.pc = "reconciling"
    BY <1>1, <1>2 DEF DrainType
  <2> QED
    BY <1>1, <2>1, LettersStay, FoundIs DEF Completed
<1> QED
  BY <1>1, <1>4, <1>5 DEF P!Refund, P!Next

\* The look finds touched campaigns with nothing queued.
LEMMA CountOpenPost == IInv /\ CountOpen => P!Next
<1> SUFFICES ASSUME IInv, CountOpen PROVE P!Next
  OBVIOUS
<1> DEFINE C == {c \in Campaigns : c \in drain.touched /\ QueuedOf(c) = {}}
<1>1. /\ drain' = [drain EXCEPT !.pc = "completing", !.touched = C]
      /\ UNCHANGED <<campaign, row, accepted, credit, charged, deaths>>
  BY DEF CountOpen
<1>2. \A r \in Rows : Life[r] = "queued" => Sender[r] \notin C
  BY DEF Life, Sender, QueuedOf
<1>3. C \in SUBSET Campaigns /\ drain \in DrainType
  BY DEF IInv, Types
<1> HIDE DEF C
<1>4. drain'.pc = "completing" /\ drain'.touched = C
  BY <1>1, <1>3 DEF DrainType
<1>5. Found' = C
  BY <1>3, <1>4 DEF Found
<1>6. UNCHANGED <<Life, Sender, Went, Completed>>
  BY <1>1, LettersStay DEF Completed
<1>7. P!Check(C)
  BY <1>1, <1>2, <1>5, <1>6 DEF P!Check
<1> QED
  BY <1>3, <1>7 DEF P!Next

\* What was found is completed.
LEMMA ReconcilePost == IInv /\ Reconcile => P!Next
<1> SUFFICES ASSUME IInv, Reconcile PROVE P!Next
  OBVIOUS
<1>1. /\ drain.pc = "completing" /\ drain' = Idle
      /\ campaign' = [c \in Campaigns |-> IF c \in drain.touched THEN "completed" ELSE campaign[c]]
      /\ UNCHANGED <<row, accepted, credit, charged, deaths>>
  BY DEF Reconcile
<1>2. Completed' = Completed \cup Found
  BY <1>1 DEF Completed, Found
<1>3. Found' = {}
  BY <1>1, IdleIs DEF Found
<1>4. UNCHANGED <<Life, Sender, Went>>
  BY <1>1, LettersStay
<1>5. P!Complete
  BY <1>1, <1>2, <1>3, <1>4 DEF P!Complete
<1> QED
  BY <1>5 DEF P!Next

LEMMA DiePost == IInv /\ Die => P!Next
<1>1. ASSUME Die PROVE P!Restart
  <2>1. Found' = {}
    BY <1>1, IdleIs DEF Die, Found
  <2> QED
    BY <1>1, <2>1, LettersStay DEF Die, Completed, P!Restart
<1> QED
  BY <1>1 DEF P!Next

LEMMA TopUpPost == TopUp => P!Next
<1>1. ASSUME TopUp PROVE P!TopUp
  BY <1>1, LettersStay, FoundIs DEF TopUp, Completed, P!TopUp
<1> QED
  BY <1>1 DEF P!Next

\* Every step is a step of the post, or none.
LEMMA NextPost == IInv /\ [Next]_vars => [P!Next]_(P!vars)
<1> SUFFICES ASSUME IInv, [Next]_vars PROVE P!Next \/ UNCHANGED P!vars
  OBVIOUS
<1>1. ASSUME NEW q \in Requests, NEW c \in Campaigns, CheckLaunch(q, c) PROVE UNCHANGED P!vars
  BY <1>1, FoundIs, QuietPost DEF CheckLaunch
<1>2. ASSUME NEW q \in Requests, Launch(q) PROVE P!Next
  <2>1. launch[q] \in Campaigns
    BY <1>2 DEF IInv, Types, Launch
  <2>2. Insert(launch[q], Audience) /\ UNCHANGED <<accepted, credit, charged, deaths, drain>>
    BY <1>2 DEF Launch
  <2> QED
    BY <2>1, <2>2, BoundsAre, InsertPost
<1>3. ASSUME NEW c \in Campaigns, QueueTriggered(c) PROVE P!Next
  <2>1. Insert(c, 1) /\ UNCHANGED <<accepted, credit, charged, deaths, drain>>
    BY <1>3 DEF QueueTriggered
  <2> QED
    BY <2>1, InsertPost
<1>4. ASSUME NEW c \in Campaigns, Pause(c) \/ Resume(c) PROVE UNCHANGED P!vars
  BY <1>4, PauseResumePost
<1>5. ASSUME NEW ch \in Channels, Configure(ch) PROVE UNCHANGED P!vars
  BY <1>5, FoundIs, QuietPost DEF Configure
<1>6. CASE TopUp
  BY <1>6, TopUpPost
<1>7. CASE BeginDrain
  BY <1>7, BeginDrainPost
<1>8. ASSUME NEW r \in drain.todo,
             Skip(r) \/ (\E a \in Answers : Send(r, a))
             \/ RecordSent(r) \/ CountFailure(r) \/ RecordFailure(r)
      PROVE  P!Next \/ UNCHANGED P!vars
  <2>1. r \in Rows
    BY DEF IInv, Types, DrainType
  <2>2. CASE Skip(r)
    BY <2>2, SendingFinds, QuietPost DEF Skip
  <2>3. ASSUME NEW a \in Answers, Send(r, a) PROVE P!Next \/ UNCHANGED P!vars
    BY <2>1, <2>3, SendPost
  <2>4. CASE RecordSent(r)
    BY <2>1, <2>4, RecordSentPost
  <2>5. CASE CountFailure(r)
    <3>1. row' = [row EXCEPT ![r].attempts = @ + 1]
          /\ UNCHANGED <<campaign, accepted, credit, charged, deaths, Found>>
      BY <2>5, SendingFinds DEF CountFailure
    <3>2. row \in [Rows -> RowType]
      BY DEF IInv, Types
    <3>3. UNCHANGED <<Life, Sender, Went>>
      <4>1. \A s \in Rows : /\ row'[s].status = row[s].status
                            /\ row'[s].campaign = row[s].campaign
                            /\ row'[s].accepted = row[s].accepted
        BY ONLY <2>1, <3>1, <3>2 DEF RowType
      <4> QED
        BY ONLY <4>1, LettersStay
    <3> QED
      BY <3>1, <3>3 DEF P!vars, Completed
  <2>6. CASE RecordFailure(r)
    BY <2>1, <2>6, RecordFailurePost
  <2> QED
    BY <1>8, <2>2, <2>3, <2>4, <2>5, <2>6
<1>9. CASE Settle
  BY <1>9, SettlePost
<1>10. CASE CountOpen \/ Reconcile
  BY <1>10, CountOpenPost, ReconcilePost
<1>11. ASSUME NEW r \in Rows, ComesDue(r) PROVE UNCHANGED P!vars
  BY <1>11, FoundIs, QuietPost DEF ComesDue
<1>12. CASE Die
  BY <1>12, DiePost
<1>13. CASE UNCHANGED vars
  BY <1>13, FoundIs, QuietPost DEF vars
<1>14. CASE TickStep
  BY <1>7, <1>8, <1>9, <1>10, <1>14 DEF TickStep
<1> QED
  BY <1>1, <1>2, <1>3, <1>4, <1>5, <1>6, <1>11, <1>12, <1>13, <1>14 DEF Next

\* Whatever is launched twice, paused, unconfigured, refused or cut off by a death, the
\* outbox is prepaid post to the business: a message is decided once, and as sent only
\* if it went out; it goes out once per death and once more, paid for before; money
\* moves between the wallet and the charges only; a campaign is completed after a look
\* that found nothing of it queued.
THEOREM Refinement == Spec => ImplementsPrepaid
<1>1. Init => P!Init
  <2> SUFFICES ASSUME Init PROVE P!Init
    OBVIOUS
  <2>1. NoRow.status = "none" /\ NoRow.campaign = "none" /\ NoRow.accepted = 0
    BY DEF NoRow, None
  <2>2. \A r \in Rows : row[r] = NoRow
    BY DEF Init
  <2>3. /\ Life = [r \in Rows |-> "none"]
        /\ Sender = [r \in Rows |-> "none"]
        /\ Went = [r \in Rows |-> 0]
    BY <2>1, <2>2 DEF Life, Sender, Went
  <2>4. Completed = {} /\ Found = {}
    BY IdleIs DEF Init, Completed, Found
  <2> QED
    BY <2>3, <2>4 DEF Init, P!Init
<1>2. IInv /\ [Next]_vars => [P!Next]_(P!vars)
  BY NextPost
<1> QED
  BY <1>1, <1>2, Invariance, PTL DEF Spec, ImplementsPrepaid, P!Spec

\* What the post is about has its types.
LEMMA PostIs ==
  ASSUME IInv
  PROVE  /\ DOMAIN Life = Rows /\ DOMAIN Went = Rows
         /\ \A r \in Rows : Went[r] \in Nat
         /\ accepted \in Nat /\ charged \in Nat /\ deaths \in Nat
<1>1. \A r \in Rows : row[r].accepted \in Nat
  BY RowIs DEF IInv
<1> QED
  BY <1>1, OpenIs DEF Life, Went, IInv, Types

LEMMA KeptStays == IInv /\ P!Kept /\ [P!Next]_(P!vars) => P!Kept'
<1> SUFFICES ASSUME IInv, P!Kept, [P!Next]_(P!vars) PROVE P!Kept'
  OBVIOUS
<1>0. /\ DOMAIN Life = Rows /\ DOMAIN Went = Rows /\ \A r \in Rows : Went[r] \in Nat
      /\ accepted \in Nat /\ charged \in Nat /\ deaths \in Nat
  BY PostIs
<1>1. CASE UNCHANGED P!vars
  BY <1>1 DEF P!vars, P!Kept
<1>2. ASSUME NEW c \in Campaigns, NEW M \in SUBSET Rows, P!Queue(c, M) PROVE P!Kept'
  BY <1>2 DEF P!Queue, P!Kept
<1>3. CASE P!TopUp
  BY <1>3 DEF P!TopUp, P!Kept
<1>4. ASSUME NEW n \in 0..credit, P!Pay(n) PROVE P!Kept'
  BY <1>0, <1>4 DEF P!Pay, P!Kept
<1>5. ASSUME NEW n \in 0..charged, P!Refund(n) PROVE P!Kept'
  BY <1>0, <1>5 DEF P!Refund, P!Kept
<1>6. ASSUME NEW m \in Rows, P!GoOut(m) PROVE P!Kept'
  BY <1>0, <1>6 DEF P!GoOut, P!Kept
<1>7. ASSUME NEW m \in Rows, NEW l \in {"sent", "failed"}, P!Decide(m, l) PROVE P!Kept'
  BY <1>0, <1>7 DEF P!Decide, P!Kept
<1>8. ASSUME (\E C \in SUBSET Campaigns : P!Check(C)) \/ P!Complete PROVE P!Kept'
  BY <1>8 DEF P!Check, P!Complete, P!Kept
<1>9. CASE P!Restart
  BY <1>0, <1>9 DEF P!Restart, P!Kept
<1> QED
  BY <1>1, <1>2, <1>3, <1>4, <1>5, <1>6, <1>7, <1>8, <1>9 DEF P!Next

\* Nothing goes out unpaid or more than once per death and once more, and nothing counts
\* as sent that never went out. Prepaid keeps this, and the refinement carries it over.
THEOREM PostIsKept == Spec => []P!Kept
<1>1. IInv /\ P!Init => P!Kept
  <2> SUFFICES ASSUME IInv, P!Init PROVE P!Kept
    OBVIOUS
  <2>1. \A r \in Rows : Life[r] = "none" /\ Went[r] = 0
    BY DEF P!Init
  <2> QED
    BY <2>1 DEF P!Init, P!Kept
<1>2. IInv /\ P!Kept /\ [P!Next]_(P!vars) => P!Kept'
  BY KeptStays
<1> QED
  BY <1>1, <1>2, Invariance, Refinement, PTL DEF ImplementsPrepaid, P!Spec

=============================================================================
