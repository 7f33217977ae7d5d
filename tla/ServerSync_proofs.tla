-------------------------- MODULE ServerSync_proofs --------------------------
(***************************************************************************)
(* Proofs about ServerSync, for any orders, changes, bounds and faults.    *)
(*                                                                         *)
(* Three layers: the two databases, which change by local transactions and *)
(* by receiving events; the transport, which relies on the databases only  *)
(* in that logs grow and outcomes stay; and what both deliver, which is    *)
(* the module Delivery.                                                    *)
(***************************************************************************)
EXTENDS ServerSync, FiniteSetTheorems, TLAPS

-----------------------------------------------------------------------------
(* The databases.                                                           *)

Stamp == Nat \X Nat \X Nat
Bill == {<<>>} \cup (Sides \X Nat)
CopyType == [status : {"absent", "open"} \cup Settled, bill : Bill, hlc : Stamp,
             paid : Seq(Sides \X Nat)]
TxType == [kind : Kinds \cup {"none"}, xid : Nat, id : Nat, hlc : Stamp]
EventType == [id : Nat, xid : Nat, o : Orders, bill : Bill, hlc : Stamp,
              kind : {"create", "state", "pay"}, status : {"open"} \cup Settled]

InboxType(box) ==
    /\ \A s \in Sides : box[s] \in [Ids(Peer(s)) -> Rows]
    /\ box = [s \in Sides |-> box[s]]

Types ==
    /\ now \in Nat /\ floor \in [Sides -> Nat] /\ number \in [Sides -> Nat]
    /\ copy \in [Sides -> [Orders -> CopyType]]
    /\ tx \in [Sides -> [Orders -> TxType]]
    /\ log \in [Sides -> SUBSET EventType]
    /\ InboxType(inbox)
    /\ known \in [Sides -> SUBSET Orders]
    /\ faults \in Nat

\* Only a checkout posts a payment; an order that is not here has no stamp.
CopyShape(c) ==
    /\ c.status # "completed" => c.paid = <<>>
    /\ Len(c.paid) <= 1
    /\ c.status = "absent" => c.hlc = NoStamp

\* A transaction holds the row it found open, or creates it at home.
Holds(s, o) ==
    LET t == tx[s][o] IN
    t # NoTx =>
        /\ t.kind \in Kinds
        /\ t.kind = "create" => copy[s][o].status = "absent" /\ Home[o] = s
        /\ t.kind # "create" => copy[s][o].status = "open"
        /\ s = "central" => t.xid \in 1..number["central"]
        /\ t.id # 0 /\ t.kind # "create" => t.hlc[2] = t.id /\ t.hlc[3] = Node(s)

\* A state is of an open or a voided order, under a stamp of its own.
EventShape(s, e) ==
    /\ e.id \in 1..number[s]
    /\ s = "central" => e.xid <= number["central"]
    /\ e.kind = "state" => e.status \in {"open", "voided"}
    /\ e.kind = "state" => e.hlc[2] = e.id /\ e.hlc[3] = Node(s)

Rowed ==
    /\ \A s \in Sides, o \in Orders : CopyShape(copy[s][o]) /\ Holds(s, o)
    /\ \A s \in Sides : IsFiniteSet(log[s]) /\ \A e \in log[s] : EventShape(s, e)

\* The event ids a transaction has taken and not committed.
Taken(t) == IF t.id = 0 THEN {} ELSE IF t.kind = "pay" THEN {t.id, t.id + 1} ELSE {t.id}

\* No two events of a side have one id, whatever commits when.
Distinct ==
    \A s \in Sides :
        /\ \A e, f \in log[s] : e.id = f.id => e = f
        /\ \A o \in Orders : /\ Taken(tx[s][o]) \subseteq 1..number[s]
                             /\ \A e \in log[s] : e.id \notin Taken(tx[s][o])
        /\ \A o, p \in Orders : o # p => Taken(tx[s][o]) \cap Taken(tx[s][p]) = {}

\* The ids fit the inboxes: each transaction under way may still take two.
Pending == {o \in Orders : tx["central"][o] # NoTx /\ tx["central"][o].id = 0}
Fits ==
    /\ number["site"] <= MaxNumber["site"] + 2 * Cardinality(Orders)
    /\ number["central"] + 2 * Cardinality(Pending) <= MaxNumber["central"] + 2 * Cardinality(Orders)

\* An inbox row is of an event there is; what may be tried again is no legacy event.
Received ==
    \A s \in Sides : \A i \in Ids(Peer(s)) : inbox[s][i] # "none" =>
        \E e \in log[Peer(s)] :
            e.id = i /\ (inbox[s][i] \in {"deferred", "dead"} => e.kind # "create")

Base == Types /\ Rowed /\ Distinct /\ Fits /\ Received

-----------------------------------------------------------------------------
(* The transport.                                                           *)

PushType(L) == [on : BOOLEAN, left : SUBSET L, delivered : SUBSET Ids("site"),
                refused : SUBSET Ids("site")]
PullType(L) == [on : BOOLEAN, left : SUBSET L, at : Nat \X Nat, failed : BOOLEAN]

TransportTypes ==
    /\ push \in PushType(log["site"])
    /\ pushed \subseteq Ids("site") /\ refused \subseteq Ids("site")
    /\ orphan \subseteq log["site"]
    /\ pull \in PullType(log["central"])
    /\ pull.left # {} => pull.on
    /\ cursor \in Nat \X Nat
    /\ letters \in [Ids("central") -> {"none", "open", "closed"}]

\* What the push counts as delivered, the central server has decided.
Decided == \A i \in pushed \cup push.delivered : inbox["central"][i] \in Outcomes

Held(e) == inbox["site"][e.id] \in Outcomes \/ letters[e.id] # "none"

\* Nothing is behind a position but what the site holds, nothing will be committed there.
Passes(at) ==
    /\ \A e \in log["central"] : ~Before(at, Position(e)) => Held(e)
    /\ \A o \in Orders : tx["central"][o] # NoTx => at[1] < tx["central"][o].xid
    /\ at[1] <= number["central"]

\* The rest of the page is ahead of the pull and precedes whatever else is.
Ahead ==
    /\ \A f \in pull.left : Before(pull.at, Position(f))
    /\ \A e \in log["central"] \ pull.left : Before(pull.at, Position(e)) =>
          \A f \in pull.left : Before(Position(f), Position(e))
    /\ \A f \in pull.left, o \in Orders :
          tx["central"][o] # NoTx => f.xid < tx["central"][o].xid

Carried == TransportTypes /\ Decided /\ Passes(cursor) /\ (pull.on => Passes(pull.at) /\ Ahead)

IInv == Base /\ Carried

-----------------------------------------------------------------------------
(* Helpers.                                                                 *)

LEMMA PeerIs ==
  /\ \A s \in Sides : Peer(s) \in Sides /\ Peer(Peer(s)) = s /\ Peer(s) # s
  /\ \A s, r \in Sides : r # s => r = Peer(s)
  /\ "site" \in Sides /\ "central" \in Sides
  /\ Peer("site") = "central" /\ Peer("central") = "site"
  BY DEF Peer, Sides

\* One order's copy or transaction is replaced.
Put(f, s, o, v) == [f EXCEPT ![s][o] = v]

LEMMA CopyIs ==
  ASSUME Types, NEW s \in Sides, NEW o \in Orders, NEW v \in CopyType,
         copy' = Put(copy, s, o, v)
  PROVE  /\ copy' \in [Sides -> [Orders -> CopyType]]
         /\ copy'[s][o] = v
         /\ \A r \in Sides, p \in Orders : r # s \/ p # o => copy'[r][p] = copy[r][p]
  BY DEF Types, Put

LEMMA TxIs ==
  ASSUME Types, NEW s \in Sides, NEW o \in Orders, NEW v \in TxType,
         tx' = Put(tx, s, o, v)
  PROVE  /\ tx' \in [Sides -> [Orders -> TxType]]
         /\ tx'[s][o] = v
         /\ \A r \in Sides, p \in Orders : r # s \/ p # o => tx'[r][p] = tx[r][p]
  BY DEF Types, Put

LEMMA NumberIs ==
  ASSUME Types, NEW s \in Sides, NEW n \in Nat, number' = [number EXCEPT ![s] = n]
  PROVE  /\ number' \in [Sides -> Nat]
         /\ number'[s] = n
         /\ \A r \in Sides : r # s => number'[r] = number[r]
  BY DEF Types

LEMMA InboxIs ==
  ASSUME NEW b, NEW c, InboxType(b), NEW s \in Sides, NEW i \in Ids(Peer(s)), NEW row \in Rows,
         c = [b EXCEPT ![s][i] = row]
  PROVE  /\ InboxType(c)
         /\ \A r \in Sides, k \in Nat : r # s \/ k # i => c[r][k] = b[r][k]
<1>1. b = [r \in Sides |-> b[r]] /\ b[s] \in [Ids(Peer(s)) -> Rows]
  BY DEF InboxType
<1>2. c = [r \in Sides |-> IF r = s THEN [b[s] EXCEPT ![i] = row] ELSE b[r]]
  BY <1>1
<1> DEFINE w == [b[s] EXCEPT ![i] = row]
<1>3. w \in [Ids(Peer(s)) -> Rows] /\ w[i] = row /\ \A k : k # i => w[k] = b[s][k]
  BY <1>1
<1> HIDE DEF w
<1>4. \A r \in Sides : c[r] = IF r = s THEN w ELSE b[r]
  BY <1>2 DEF w
<1>5. InboxType(c)
  <2>1. \A r \in Sides : c[r] \in [Ids(Peer(r)) -> Rows]
    BY <1>3, <1>4 DEF InboxType
  <2> QED
    BY <1>2, <2>1 DEF InboxType
<1> QED
  BY <1>3, <1>4, <1>5

LEMMA NoTxIs == /\ NoTx \in TxType /\ NoTx.kind = "none" /\ NoTx.id = 0 /\ NoTx.xid = 0
                /\ NoTx.hlc = NoStamp
  BY DEF NoTx, TxType, NoStamp, Stamp

LEMMA TakenIs ==
  ASSUME NEW t \in TxType
  PROVE  /\ t.id = 0 => Taken(t) = {}
         /\ Taken(t) \subseteq Nat
         /\ Taken(NoTx) = {}
  BY NoTxIs DEF Taken, TxType

LEMMA NodeIs == \A s \in Sides : Node(s) \in {1, 2}
  BY DEF Node

\* The first of a set are in it.
LEMMA FirstIsIn ==
  /\ \A S, n : FirstOf(S, n, ById) \subseteq S
  /\ \A S, n : FirstOf(S, n, ByPosition) \subseteq S
  BY DEF FirstOf

\* The ids handed out fit the inboxes.
LEMMA PendingIs ==
  /\ IsFiniteSet(Orders) /\ Cardinality(Orders) \in Nat
  /\ IsFiniteSet(Pending) /\ Cardinality(Pending) \in Nat
  /\ Cardinality(Pending) <= Cardinality(Orders)
<1>1. IsFiniteSet(Orders) /\ Pending \in SUBSET Orders
  BY SyncAssumption DEF Pending
<1> QED
  BY <1>1, FS_Subset, FS_CardinalityType

LEMMA BoundsAre == \A s \in Sides : MaxNumber[s] \in Nat /\ Lag[s] \in Nat
  BY SyncAssumption

LEMMA IdIn ==
  ASSUME Types, Fits, NEW s \in Sides, NEW i \in 1..number[s]
  PROVE  i \in Ids(s) /\ i \in Nat
<1>1. number["site"] \in Nat /\ number["central"] \in Nat
  BY DEF Types, Sides
<1>2. MaxNumber["site"] \in Nat /\ MaxNumber["central"] \in Nat
  BY BoundsAre DEF Sides
<1>3. CASE s = "site"
  BY <1>1, <1>2, <1>3, PendingIs DEF Fits, Ids
<1>4. CASE s = "central"
  BY <1>1, <1>2, <1>4, PendingIs DEF Fits, Ids
<1> QED
  BY <1>3, <1>4 DEF Sides

-----------------------------------------------------------------------------
(* What the local actions do.                                               *)

LEMMA BeginIs ==
  ASSUME Base, NEW o \in Orders, NEW kind \in Kinds, Begin(o, kind)
  PROVE  /\ tx["central"][o] = NoTx /\ number["central"] < MaxNumber["central"]
         /\ kind = "create" => copy["central"][o].status = "absent" /\ Home[o] = "central"
         /\ kind # "create" => copy["central"][o].status = "open"
         /\ number' \in [Sides -> Nat] /\ number'["central"] = number["central"] + 1
         /\ number'["site"] = number["site"]
         /\ tx' \in [Sides -> [Orders -> TxType]]
         /\ tx'["central"][o].kind = kind /\ tx'["central"][o].id = 0
         /\ tx'["central"][o].xid = number["central"] + 1
         /\ tx'["central"][o].hlc = NoStamp
         /\ \A r \in Sides, p \in Orders : r # "central" \/ p # o => tx'[r][p] = tx[r][p]
         /\ UNCHANGED <<now, floor, copy, log, inbox, known, transport, faults>>
<1> DEFINE n == number["central"] + 1
           v == [NoTx EXCEPT !.kind = kind, !.xid = n]
<1>1. /\ tx["central"][o] = NoTx /\ number["central"] < MaxNumber["central"]
      /\ kind = "create" => copy["central"][o].status = "absent" /\ Home[o] = "central"
      /\ kind # "create" => copy["central"][o].status = "open"
      /\ UNCHANGED <<now, floor, copy, log, inbox, known, transport, faults>>
  BY DEF Begin, MayChange, clock
<1>2. number["central"] \in Nat /\ n \in Nat
  BY PeerIs DEF Base, Types
<1>3. number' = [number EXCEPT !["central"] = n] /\ tx' = Put(tx, "central", o, v)
  BY DEF Begin, Put
<1> HIDE DEF n
<1>4. v \in TxType /\ v.kind = kind /\ v.xid = n /\ v.id = 0 /\ v.hlc = NoStamp
  BY <1>2, NoTxIs DEF TxType
<1> HIDE DEF v
<1>5. /\ number' \in [Sides -> Nat] /\ number'["central"] = n
      /\ number'["site"] = number["site"]
  BY <1>2, <1>3, NumberIs, PeerIs DEF Base
<1>6. /\ tx' \in [Sides -> [Orders -> TxType]] /\ tx'["central"][o] = v
      /\ \A r \in Sides, p \in Orders : r # "central" \/ p # o => tx'[r][p] = tx[r][p]
  <2>1. "central" \in Sides /\ v \in TxType /\ Types /\ tx' = Put(tx, "central", o, v)
    BY <1>3, <1>4, PeerIs DEF Base
  <2> QED
    BY ONLY <2>1, o \in Orders, TxIs
<1>7. n = number["central"] + 1
  BY DEF n
<1>8. /\ tx'["central"][o].kind = kind /\ tx'["central"][o].id = 0
      /\ tx'["central"][o].xid = number["central"] + 1
      /\ tx'["central"][o].hlc = NoStamp
  BY <1>4, <1>6, <1>7
<1> QED
  BY <1>1, <1>5, <1>6, <1>7, <1>8

LEMMA GreatestIs ==
  ASSUME NEW i \in Int, NEW j \in Nat
  PROVE  Greatest(i, j) \in Nat /\ Greatest(i, j) >= i /\ Greatest(i, j) >= j
         /\ Greatest(i, j) \in {i, j}
  BY DEF Greatest

LEMMA RecordIs ==
  ASSUME Base, NEW s \in Sides, NEW o \in Orders, NEW t \in TxType, t.kind \in Kinds,
         Record(s, o, t)
  PROVE  /\ number' \in [Sides -> Nat]
         /\ number'[s] = number[s] + (IF t.kind = "pay" THEN 2 ELSE 1)
         /\ \A r \in Sides : r # s => number'[r] = number[r]
         /\ tx' \in [Sides -> [Orders -> TxType]]
         /\ tx'[s][o].kind = t.kind /\ tx'[s][o].xid = t.xid /\ tx'[s][o].id = number[s] + 1
         /\ tx'[s][o].hlc = IF t.kind = "create" THEN NoStamp ELSE NextStamp(s, number[s] + 1)
         /\ \A r \in Sides, p \in Orders : r # s \/ p # o => tx'[r][p] = tx[r][p]
         /\ now' \in Nat /\ now' >= now
         /\ UNCHANGED <<floor, copy, log, inbox, known, transport, faults>>
<1> DEFINE id == number[s] + 1
           n == IF t.kind = "pay" THEN number[s] + 2 ELSE number[s] + 1
           hlc == IF t.kind = "create" THEN NoStamp ELSE NextStamp(s, id)
           v == [t EXCEPT !.id = id, !.hlc = hlc]
<1>1. number' = [number EXCEPT ![s] = n] /\ tx' = Put(tx, s, o, v)
      /\ UNCHANGED <<floor, copy, log, inbox, known, transport, faults>>
  BY DEF Record, Put
<1>2. PICK d \in Pauses : now' = now + d
  BY DEF Record
<1>3. now' \in Nat /\ now' >= now
  BY <1>2, SyncAssumption DEF Base, Types
<1>4. number[s] \in Nat /\ id \in Nat /\ n \in Nat
  BY DEF Base, Types
<1>5. hlc \in Stamp
  <2>1. now \in Nat /\ floor[s] \in Nat /\ Lag[s] \in Nat
    BY BoundsAre DEF Base, Types
  <2>2. now - Lag[s] \in Int
    BY <2>1
  <2>2a. Greatest(now - Lag[s], floor[s]) \in Nat
    BY <2>1, <2>2, GreatestIs
  <2>3. NextStamp(s, id) \in Stamp
    BY <1>4, <2>2a, NodeIs DEF NextStamp, Stamp
  <2> QED
    BY <2>3, NoTxIs DEF NoStamp, Stamp
<1>6. n = number[s] + (IF t.kind = "pay" THEN 2 ELSE 1)
  OBVIOUS
<1> HIDE DEF n, id, hlc
<1>7. v \in TxType /\ v.kind = t.kind /\ v.xid = t.xid /\ v.id = id /\ v.hlc = hlc
  BY <1>4, <1>5 DEF TxType
<1> HIDE DEF v
<1>8. /\ number' \in [Sides -> Nat] /\ number'[s] = n
      /\ \A r \in Sides : r # s => number'[r] = number[r]
  BY <1>1, <1>4, NumberIs DEF Base
<1>9. /\ tx' \in [Sides -> [Orders -> TxType]] /\ tx'[s][o] = v
      /\ \A r \in Sides, p \in Orders : r # s \/ p # o => tx'[r][p] = tx[r][p]
  <2>1. Types
    BY DEF Base
  <2> QED
    BY ONLY <1>1, <1>7, <2>1, s \in Sides, o \in Orders, TxIs
<1> QED
  BY <1>1, <1>3, <1>6, <1>7, <1>8, <1>9 DEF id, hlc

\* A commit leaves the order as it was changed, and one or two events of it.
LEMMA ChangedIs ==
  ASSUME Base, NEW s \in Sides, NEW o \in Orders, tx[s][o].id # 0
  PROVE  LET t == tx[s][o]
             c == copy[s][o]
             n == Changed(s, o) IN
         /\ t \in TxType /\ c \in CopyType /\ t # NoTx /\ t.kind \in Kinds
         /\ n \in CopyType /\ CopyShape(n) /\ n.hlc = t.hlc
         /\ n.status = (IF t.kind = "void" THEN "voided"
                        ELSE IF t.kind = "pay" THEN "completed" ELSE "open")
         /\ n.bill = (IF t.kind \in {"create", "edit"} THEN <<s, t.id>> ELSE c.bill)
<1> DEFINE t == tx[s][o]
           c == copy[s][o]
           status == IF t.kind = "void" THEN "voided"
                     ELSE IF t.kind = "pay" THEN "completed" ELSE "open"
           bill == IF t.kind \in {"create", "edit"} THEN <<s, t.id>> ELSE c.bill
           paid == IF t.kind = "pay" THEN Append(c.paid, <<s, t.id + 1>>) ELSE c.paid
           hlc == t.hlc
           n == [status |-> status, bill |-> bill, hlc |-> hlc, paid |-> paid]
<1>1. t \in TxType /\ c \in CopyType /\ CopyShape(c) /\ Holds(s, o)
  BY DEF Base, Types, Rowed
<1>2. t # NoTx
  BY NoTxIs
<1>3. /\ t.kind \in Kinds
      /\ t.kind # "create" => c.status = "open"
      /\ t.kind = "create" => c.status = "absent"
  BY <1>1, <1>2 DEF Holds
<1>4. t.id \in Nat /\ hlc \in Stamp
  BY <1>1 DEF TxType
<1>5. c.paid = <<>> /\ c.bill \in Bill
  BY <1>1, <1>3 DEF CopyShape, CopyType
<1>6. Changed(s, o) = n
  <2>1. status = CASE t.kind = "void" -> "voided"
                   [] t.kind = "pay"  -> "completed"
                   [] OTHER           -> "open"
    OBVIOUS
  <2> QED
    BY <2>1 DEF Changed
<1>7. bill \in Bill
  BY <1>4, <1>5 DEF Bill
<1>8. paid \in Seq(Sides \X Nat) /\ Len(paid) <= 1 /\ (t.kind # "pay" => paid = <<>>)
  <2> DEFINE x == <<s, t.id + 1>>
  <2>1. x \in Sides \X Nat
    BY <1>4
  <2>3. paid = IF t.kind = "pay" THEN Append(c.paid, x) ELSE c.paid
    OBVIOUS
  <2> HIDE DEF x, paid, t, c
  <2>2. Append(<<>>, x) \in Seq(Sides \X Nat) /\ Len(Append(<<>>, x)) = 1
    BY ONLY <2>1
  <2>4. <<>> \in Seq(Sides \X Nat) /\ Len(<<>>) = 0
    BY ONLY TRUE
  <2>5. c.paid = <<>>
    BY <1>5
  <2>6. CASE t.kind = "pay"
    BY ONLY <2>2, <2>3, <2>5, <2>6
  <2>7. CASE t.kind # "pay"
    BY ONLY <2>3, <2>4, <2>5, <2>7
  <2> QED
    BY <2>6, <2>7
<1>9. status \in {"open"} \cup Settled /\ (status = "completed" <=> t.kind = "pay")
  BY DEF Settled
<1> HIDE DEF status, bill, paid, hlc
<1>10. n \in CopyType /\ n.status = status /\ n.bill = bill /\ n.hlc = hlc /\ n.paid = paid
  BY <1>4, <1>7, <1>8, <1>9 DEF CopyType
<1>11. CopyShape(n)
  BY <1>8, <1>9, <1>10 DEF CopyShape, Settled
<1>12. t.kind \in Kinds /\ n = Changed(s, o)
  BY <1>3, <1>6
<1> HIDE DEF n
<1> QED
  BY <1>1, <1>2, <1>10, <1>11, <1>12 DEF status, bill, hlc

LEMMA RecordedIs ==
  ASSUME Base, NEW s \in Sides, NEW o \in Orders, tx[s][o].id # 0
  PROVE  LET t == tx[s][o]
             R == Recorded(s, o) IN
         /\ R \subseteq EventType /\ IsFiniteSet(R)
         /\ \A e \in R : /\ e.o = o /\ e.xid = t.xid /\ e.hlc = t.hlc /\ e.id \in Taken(t)
                         /\ e.bill = Changed(s, o).bill
                         /\ e.kind = "create" <=> t.kind = "create"
                         /\ e.kind = "state" => e.id = t.id /\ e.status \in {"open", "voided"}
                         /\ e.kind = "state" /\ e.status = "voided" => t.kind = "void"
         /\ \A e, f \in R : e.id = f.id => e = f
         /\ t.kind = "create" => \E e \in R : e.kind = "create"
         /\ t.kind # "create" => \E e \in R : e.kind = "state"
<1> DEFINE t == tx[s][o]
           n == Changed(s, o)
           kind == IF t.kind = "create" THEN "create" ELSE "state"
           status == IF t.kind = "pay" THEN "open" ELSE n.status
           id == t.id
           xid == t.xid
           hlc == t.hlc
           bill == n.bill
           e1 == [id |-> id, xid |-> xid, o |-> o, bill |-> bill, hlc |-> hlc,
                  kind |-> kind, status |-> status]
           id2 == id + 1
           e2 == [e1 EXCEPT !.id = id2, !.kind = "pay", !.status = "completed"]
<1>1. /\ t \in TxType /\ n \in CopyType /\ t.kind \in Kinds
      /\ n.status = (IF t.kind = "void" THEN "voided"
                     ELSE IF t.kind = "pay" THEN "completed" ELSE "open")
  BY ChangedIs
<1>2. /\ id \in Nat /\ id2 \in Nat /\ xid \in Nat /\ hlc \in Stamp /\ bill \in Bill
      /\ id2 # id
  BY <1>1 DEF TxType, CopyType
<1>3. /\ kind \in {"create", "state"} /\ status \in {"open", "voided"}
      /\ kind = "create" <=> t.kind = "create"
      /\ status = "voided" => t.kind = "void"
  BY <1>1
<1>4. /\ Recorded(s, o) = {e1} \cup (IF t.kind # "pay" THEN {} ELSE {e2})
      /\ Taken(t) = IF t.kind = "pay" THEN {id, id2} ELSE {id}
  BY DEF Recorded, Taken
<1> HIDE DEF id, id2, xid, hlc, bill, kind, status, n
<1>5. /\ e1 \in EventType
      /\ e1.id = id /\ e1.xid = xid /\ e1.o = o /\ e1.bill = bill /\ e1.hlc = hlc
      /\ e1.kind = kind /\ e1.status = status
  BY <1>2, <1>3 DEF EventType, Settled
<1>6. /\ e2 \in EventType
      /\ e2.id = id2 /\ e2.xid = xid /\ e2.o = o /\ e2.bill = bill /\ e2.hlc = hlc
      /\ e2.kind = "pay" /\ e2.status = "completed"
  BY <1>2, <1>3 DEF EventType, Settled
<1> HIDE DEF e1, e2
<1>7. IsFiniteSet({e1} \cup (IF t.kind # "pay" THEN {} ELSE {e2}))
  <2>1. IsFiniteSet({e1}) /\ IsFiniteSet({e2}) /\ IsFiniteSet({})
    BY FS_Singleton, FS_EmptySet
  <2>2. IsFiniteSet({e1} \cup {e2}) /\ IsFiniteSet({e1} \cup {})
    BY <2>1, FS_Union
  <2> QED
    BY <2>2
<1> DEFINE R == {e1} \cup (IF t.kind # "pay" THEN {} ELSE {e2})
<1>8. /\ R \subseteq EventType
      /\ \A e \in R : e \in {e1, e2} /\ (e = e2 => t.kind = "pay" \/ e2 = e1)
      /\ e1 \in R
  BY <1>5, <1>6
<1>9. e1 # e2 /\ e1.id # e2.id
  BY <1>2, <1>5, <1>6
<1>10. t.kind = "pay" => kind = "state"
  BY DEF kind
<1>11. \A e \in R : /\ e.o = o /\ e.xid = xid /\ e.hlc = hlc /\ e.id \in Taken(t)
                    /\ e.bill = bill
                    /\ e.kind = "create" <=> t.kind = "create"
                    /\ e.kind = "state" => e.id = id /\ e.status \in {"open", "voided"}
                    /\ e.kind = "state" /\ e.status = "voided" => t.kind = "void"
  <2>1. e1.id \in Taken(t) /\ (t.kind = "pay" => e2.id \in Taken(t))
    BY <1>4, <1>5, <1>6
  <2> HIDE DEF R
  <2> QED
    BY <2>1, <1>3, <1>5, <1>6, <1>8, <1>9, <1>10
<1>12. \A e, f \in R : e.id = f.id => e = f
  BY <1>8, <1>9
<1>13. /\ t.kind = "create" => e1.kind = "create"
       /\ t.kind # "create" => e1.kind = "state"
  BY <1>3, <1>5
<1> QED
  BY <1>4, <1>7, <1>8, <1>11, <1>12, <1>13 DEF id, xid, hlc, bill, n

LEMMA CommitIs ==
  ASSUME Base, NEW s \in Sides, NEW o \in Orders, Commit(s, o)
  PROVE  /\ tx[s][o].id # 0
         /\ copy' \in [Sides -> [Orders -> CopyType]]
         /\ copy'[s][o] = Changed(s, o)
         /\ \A r \in Sides, p \in Orders : r # s \/ p # o => copy'[r][p] = copy[r][p]
         /\ log' \in [Sides -> SUBSET EventType]
         /\ log'[s] = log[s] \cup Recorded(s, o)
         /\ \A r \in Sides : r # s => log'[r] = log[r]
         /\ tx' \in [Sides -> [Orders -> TxType]]
         /\ tx'[s][o] = NoTx
         /\ \A r \in Sides, p \in Orders : r # s \/ p # o => tx'[r][p] = tx[r][p]
         /\ UNCHANGED <<now, floor, number, inbox, known, transport, faults>>
<1>1. /\ tx[s][o].id # 0
      /\ copy' = Put(copy, s, o, Changed(s, o))
      /\ log' = [log EXCEPT ![s] = @ \cup Recorded(s, o)]
      /\ tx' = Put(tx, s, o, NoTx)
      /\ UNCHANGED <<now, floor, number, inbox, known, transport, faults>>
  BY DEF Commit, clock, Put
<1> DEFINE n == Changed(s, o)
           R == Recorded(s, o)
<1>2. n \in CopyType /\ R \subseteq EventType
  BY <1>1, ChangedIs, RecordedIs
<1>2a. copy' = Put(copy, s, o, n) /\ tx' = Put(tx, s, o, NoTx) /\ NoTx \in TxType /\ Types
  BY <1>1, NoTxIs DEF Base
<1> HIDE DEF n, R
<1>3. /\ copy' \in [Sides -> [Orders -> CopyType]]
      /\ copy'[s][o] = n
      /\ \A r \in Sides, p \in Orders : r # s \/ p # o => copy'[r][p] = copy[r][p]
  BY ONLY <1>2, <1>2a, s \in Sides, o \in Orders, CopyIs
<1>4. /\ log' \in [Sides -> SUBSET EventType]
      /\ log'[s] = log[s] \cup R
      /\ \A r \in Sides : r # s => log'[r] = log[r]
  BY <1>1, <1>2 DEF Base, Types, R
<1>5. /\ tx' \in [Sides -> [Orders -> TxType]]
      /\ tx'[s][o] = NoTx
      /\ \A r \in Sides, p \in Orders : r # s \/ p # o => tx'[r][p] = tx[r][p]
  BY ONLY <1>2a, s \in Sides, o \in Orders, TxIs
<1> QED
  BY <1>1, <1>3, <1>4, <1>5 DEF n, R

-----------------------------------------------------------------------------
(* What receiving an event does.                                            *)

\* The order and the clock stay, a state is marked applied if stale or too late.
Keeps(s, e, row) ==
    LET c == copy[s][e.o] IN
    /\ copy'[s][e.o] = c /\ now' = now /\ floor' = floor
    /\ e.kind = "state" /\ row = "applied" => ~Newer(e.hlc, c.hlc) \/ c.status \in Settled
    /\ e.kind = "pay" => row # "applied"

Restates(s, e, row) ==
    LET c == copy[s][e.o]
        d == copy'[s][e.o] IN
    /\ e.kind = "state" /\ row = "applied"
    /\ c.status \notin Settled /\ Newer(e.hlc, c.hlc)
    /\ d.status = e.status /\ d.bill = e.bill /\ d.hlc = e.hlc /\ d.paid = c.paid
    /\ floor'[s] = Greatest(floor[s], e.hlc[1])
    /\ \A r \in Sides : r # s => floor'[r] = floor[r]
    /\ now' = now

Pays(s, e, row) ==
    LET c == copy[s][e.o]
        d == copy'[s][e.o] IN
    /\ e.kind = "pay" /\ row = "applied" /\ now' = now /\ floor' = floor
    /\ c.status = "open" /\ d.status = "completed" /\ d.hlc = c.hlc
    /\ d.paid = << <<Peer(s), e.id>> >>

Creates(s, e, row) ==
    LET d == copy'[s][e.o] IN
    /\ e.kind = "create" /\ row \in {"applied", "pending"} /\ now' = now /\ floor' = floor
    /\ copy[s][e.o].status = "absent"
    /\ d.status = "open" /\ d.bill = e.bill /\ d.hlc = NoStamp /\ d.paid = <<>>

LEMMA EventIs ==
  ASSUME Base, NEW s \in Sides, NEW e \in log[Peer(s)]
  PROVE  /\ e \in EventType /\ e.o \in Orders /\ e.bill \in Bill /\ e.hlc \in Stamp
         /\ e.id \in Nat /\ e.xid \in Nat
         /\ e.kind \in {"create", "state", "pay"}
         /\ e.kind = "state" => e.status \in {"open", "voided"}
         /\ e.id \in Ids(Peer(s))
         /\ copy[s][e.o] \in CopyType /\ CopyShape(copy[s][e.o])
<1>1. e \in EventType /\ EventShape(Peer(s), e) /\ Peer(s) \in Sides
  BY PeerIs DEF Base, Types, Rowed
<1>2. e.id \in 1..number[Peer(s)]
  BY <1>1 DEF EventShape
<1>3. e.o \in Orders
  BY <1>1 DEF EventType
<1> QED
  BY <1>1, <1>2, <1>3, IdIn DEF Base, Types, Rowed, EventShape, EventType

\* The handler writes a row over an unsettled order.
LEMMA WrittenIs ==
  ASSUME Base, NEW s \in Sides, NEW o \in Orders, NEW v \in CopyType,
         v.status # "absent",
         v.paid = <<>> \/ (Len(v.paid) = 1 /\ v.status = "completed"),
         copy' = Put(copy, s, o, v)
  PROVE  /\ copy' \in [Sides -> [Orders -> CopyType]]
         /\ copy'[s][o] = v
         /\ CopyShape(copy'[s][o])
         /\ \A r \in Sides, p \in Orders : r # s \/ p # o => copy'[r][p] = copy[r][p]
<1>3. /\ copy' \in [Sides -> [Orders -> CopyType]] /\ copy'[s][o] = v
      /\ \A r \in Sides, p \in Orders : r # s \/ p # o => copy'[r][p] = copy[r][p]
  <2>1. Types
    BY DEF Base
  <2> QED
    BY ONLY <2>1, copy' = Put(copy, s, o, v), v \in CopyType, s \in Sides,
            o \in Orders, CopyIs
<1>4. CopyShape(v)
  <2>1. Len(<<>>) = 0
    OBVIOUS
  <2>3. CASE v.paid = <<>>
    BY <2>1, <2>3 DEF CopyShape
  <2>4. CASE Len(v.paid) = 1 /\ v.status = "completed"
    BY <2>4 DEF CopyShape
  <2> QED
    BY <2>3, <2>4
<1> QED
  BY <1>3, <1>4

LEMMA NoOrderIs ==
  /\ NoOrder \in CopyType /\ NoOrder.status = "absent" /\ NoOrder.hlc = NoStamp
  /\ NoOrder.paid = <<>> /\ CopyShape(NoOrder)
<1>1. <<>> \in Seq(Sides \X Nat) /\ NoStamp \in Stamp /\ <<>> \in Bill /\ Len(<<>>) = 0
  BY DEF NoStamp, Stamp, Bill
<1> QED
  BY <1>1 DEF NoOrder, CopyType, CopyShape

LEMMA StateIs ==
  ASSUME Base, NEW s \in Sides, NEW e \in log[Peer(s)], NEW row, e.kind = "state",
         ApplyState(s, e, row)
  PROVE  /\ row \in {"applied", "deferred", "dead"}
         /\ copy' \in [Sides -> [Orders -> CopyType]]
         /\ \A r \in Sides, p \in Orders : r # s \/ p # e.o => copy'[r][p] = copy[r][p]
         /\ CopyShape(copy'[s][e.o])
         /\ now' \in Nat /\ now' >= now /\ floor' \in [Sides -> Nat]
         /\ Keeps(s, e, row) \/ Restates(s, e, row)
<1> DEFINE c == copy[s][e.o]
<1>0. /\ e.o \in Orders /\ c \in CopyType /\ CopyShape(c) /\ e.bill \in Bill
      /\ e.hlc \in Stamp /\ e.hlc[1] \in Nat
      /\ e.status \in {"open", "voided"}
      /\ now \in Nat /\ floor \in [Sides -> Nat] /\ floor[s] \in Nat
      /\ copy \in [Sides -> [Orders -> CopyType]]
  BY EventIs DEF Base, Types, Stamp
<1>1. CASE UNCHANGED <<copy, clock>> /\ row \in {"deferred", "dead"}
  BY <1>0, <1>1 DEF Keeps, clock
<1>2. CASE UNCHANGED <<copy, clock>> /\ row = "applied" /\ (Stale(c, e) \/ SettledHere(c, e))
  <2>1. ~Newer(e.hlc, c.hlc) \/ c.status \in Settled
    BY <1>2 DEF Stale, SettledHere
  <2> QED
    BY <1>0, <1>2, <2>1 DEF Keeps, clock
<1>3. CASE /\ ~Stale(c, e) /\ ~SettledHere(c, e) /\ row = "applied"
           /\ copy' = [copy EXCEPT ![s][e.o] =
                          [c EXCEPT !.status = e.status, !.bill = e.bill, !.hlc = e.hlc]]
           /\ floor' = [floor EXCEPT ![s] = Greatest(@, e.hlc[1])]
           /\ UNCHANGED now
  <2> DEFINE status == e.status
             bill == e.bill
             hlc == e.hlc
             o == e.o
             f == Greatest(floor[s], e.hlc[1])
             v == [c EXCEPT !.status = status, !.bill = bill, !.hlc = hlc]
  <2>2. copy' = Put(copy, s, o, v)
    BY <1>3 DEF Put
  <2>3. c.status \notin Settled /\ Newer(e.hlc, c.hlc)
    BY <1>3 DEF Stale, SettledHere
  <2>4. c.paid = <<>>
    BY <1>0, <2>3 DEF CopyShape, Settled
  <2>5. status \in {"open", "voided"} /\ bill \in Bill /\ hlc \in Stamp /\ o \in Orders
    BY <1>0
  <2> HIDE DEF status, bill, hlc, o, c
  <2>6. /\ v \in CopyType /\ v.status = status /\ v.bill = bill /\ v.hlc = hlc
        /\ v.paid = c.paid
    BY <1>0, <2>5 DEF CopyType, Settled
  <2> HIDE DEF v
  <2>6a. /\ copy' \in [Sides -> [Orders -> CopyType]]
         /\ copy'[s][o] = v
         /\ CopyShape(copy'[s][o])
         /\ \A r \in Sides, p \in Orders : r # s \/ p # o => copy'[r][p] = copy[r][p]
    <3>1. v.status # "absent" /\ v.paid = <<>>
      BY <2>4, <2>5, <2>6
    <3> QED
      BY ONLY <3>1, <2>2, <2>5, <2>6, Base, s \in Sides, WrittenIs
  <2>7. f \in Nat /\ now' \in Nat /\ now' >= now
    BY <1>0, <1>3, GreatestIs
  <2>8. floor' = [floor EXCEPT ![s] = f]
    BY <1>3
  <2> HIDE DEF f
  <2>9. /\ floor' \in [Sides -> Nat] /\ floor'[s] = f
        /\ \A r \in Sides : r # s => floor'[r] = floor[r]
    BY <1>0, <2>7, <2>8
  <2>10. Restates(s, e, row)
    BY <1>3, <2>3, <2>6, <2>6a, <2>9 DEF Restates, status, bill, hlc, o, f, c
  <2> QED
    BY <1>3, <2>6a, <2>7, <2>9, <2>10 DEF o
<1> QED
  BY <1>1, <1>2, <1>3 DEF ApplyState

LEMMA PaymentIs ==
  ASSUME Base, NEW s \in Sides, NEW e \in log[Peer(s)], NEW row, e.kind = "pay",
         ApplyPayment(s, e, row), UNCHANGED clock
  PROVE  /\ row \in {"applied", "deferred"}
         /\ copy' \in [Sides -> [Orders -> CopyType]]
         /\ \A r \in Sides, p \in Orders : r # s \/ p # e.o => copy'[r][p] = copy[r][p]
         /\ CopyShape(copy'[s][e.o])
         /\ now' = now /\ floor' = floor
         /\ Keeps(s, e, row) \/ Pays(s, e, row)
<1> DEFINE c == copy[s][e.o]
           x == <<Peer(s), e.id>>
<1>0. /\ e.o \in Orders /\ c \in CopyType /\ CopyShape(c) /\ x \in Sides \X Nat
      /\ copy \in [Sides -> [Orders -> CopyType]]
      /\ now' = now /\ floor' = floor
  BY EventIs, PeerIs DEF Base, Types, clock
<1>1. CASE UNCHANGED copy /\ row = "deferred"
  BY <1>0, <1>1 DEF Keeps
<1>3. CASE /\ c.status = "open" /\ row = "applied"
           /\ copy' = [copy EXCEPT ![s][e.o] =
                          [c EXCEPT !.status = "completed", !.paid = Append(c.paid, x)]]
  <2> DEFINE paid == Append(c.paid, x)
             o == e.o
             v == [c EXCEPT !.status = "completed", !.paid = paid]
  <2>2. copy' = Put(copy, s, o, v)
    BY <1>3 DEF Put
  <2>4. paid \in Seq(Sides \X Nat) /\ Len(paid) = 1 /\ paid = <<x>>
    <3>1. c.paid = <<>>
      BY <1>0, <1>3 DEF CopyShape
    <3>2. paid = Append(<<>>, x)
      BY <3>1
    <3> HIDE DEF x, paid
    <3> QED
      BY <3>2, <1>0
  <2>5. o \in Orders
    BY <1>0
  <2> HIDE DEF o, c, paid
  <2>6. /\ v \in CopyType /\ v.status = "completed" /\ v.hlc = c.hlc /\ v.paid = paid
    BY <1>0, <2>4 DEF CopyType, Settled
  <2> HIDE DEF v
  <2>6a. /\ copy' \in [Sides -> [Orders -> CopyType]]
         /\ copy'[s][o] = v
         /\ CopyShape(copy'[s][o])
         /\ \A r \in Sides, p \in Orders : r # s \/ p # o => copy'[r][p] = copy[r][p]
    <3>1. v.status # "absent" /\ Len(v.paid) = 1 /\ v.status = "completed"
      BY <2>4, <2>6
    <3> QED
      BY ONLY <3>1, <2>2, <2>5, <2>6, Base, s \in Sides, WrittenIs
  <2>10. Pays(s, e, row)
    BY <1>0, <1>3, <2>4, <2>6, <2>6a DEF Pays, o, c
  <2> QED
    BY <1>0, <1>3, <2>6a, <2>10 DEF o
<1> QED
  BY <1>1, <1>3 DEF ApplyPayment

LEMMA CreateIs ==
  ASSUME Base, NEW s \in Sides, NEW e \in log[Peer(s)], NEW row, e.kind = "create",
         ApplyCreate(s, e, row), UNCHANGED clock
  PROVE  /\ row \in {"applied", "pending", "failed"}
         /\ copy' \in [Sides -> [Orders -> CopyType]]
         /\ \A r \in Sides, p \in Orders : r # s \/ p # e.o => copy'[r][p] = copy[r][p]
         /\ CopyShape(copy'[s][e.o])
         /\ now' = now /\ floor' = floor
         /\ Keeps(s, e, row) \/ Creates(s, e, row)
<1> DEFINE c == copy[s][e.o]
<1>0. /\ e.o \in Orders /\ c \in CopyType /\ CopyShape(c) /\ e.bill \in Bill
      /\ copy \in [Sides -> [Orders -> CopyType]]
      /\ now' = now /\ floor' = floor
  BY EventIs, PeerIs DEF Base, Types, clock
<1>1. CASE UNCHANGED copy /\ row \in {"pending", "failed"}
  BY <1>0, <1>1 DEF Keeps
<1>3. CASE /\ c.status = "absent" /\ row \in {"applied", "pending"}
           /\ copy' = [copy EXCEPT ![s][e.o] = [NoOrder EXCEPT !.status = "open", !.bill = e.bill]]
  <2> DEFINE bill == e.bill
             o == e.o
             v == [NoOrder EXCEPT !.status = "open", !.bill = bill]
  <2>2. copy' = Put(copy, s, o, v)
    BY <1>3 DEF Put
  <2>5. o \in Orders /\ bill \in Bill
    BY <1>0
  <2> HIDE DEF o, bill
  <2>6. /\ v \in CopyType /\ v.status = "open" /\ v.bill = bill /\ v.hlc = NoStamp
        /\ v.paid = <<>>
    BY <2>5, NoOrderIs DEF CopyType
  <2> HIDE DEF v
  <2>6a. /\ copy' \in [Sides -> [Orders -> CopyType]]
         /\ copy'[s][o] = v
         /\ CopyShape(copy'[s][o])
         /\ \A r \in Sides, p \in Orders : r # s \/ p # o => copy'[r][p] = copy[r][p]
    <3>1. v.status # "absent" /\ v.paid = <<>>
      BY <2>6
    <3> QED
      BY ONLY <3>1, <2>2, <2>5, <2>6, Base, s \in Sides, WrittenIs
  <2>10. Creates(s, e, row)
    BY <1>0, <1>3, <2>6, <2>6a DEF Creates, bill, o
  <2> QED
    BY <1>0, <1>3, <2>6a, <2>10 DEF o
<1> QED
  BY <1>1, <1>3 DEF ApplyCreate

\* The receiver writes a row of its inbox and at most the order's row.
Receives(s, e, dead) ==
    LET row == inbox'[s][e.id] IN
    /\ inbox[s][e.id] \in {"none", "deferred"}
    /\ UNCHANGED copy \/ tx[s][e.o] = NoTx
    /\ row \in Rows \ {"none"} /\ (row = "dead" => dead = "dead")
    /\ e.kind # "create" => row \in Outcomes
    /\ row \in {"deferred", "dead"} => e.kind # "create"
    /\ Keeps(s, e, row) \/ Restates(s, e, row) \/ Pays(s, e, row) \/ Creates(s, e, row)

LEMMA HandleIs ==
  ASSUME Base, NEW s \in Sides, NEW e \in log[Peer(s)], NEW row \in Rows, Handle(s, e, row)
  PROVE  /\ row # "none"
         /\ e.kind # "create" => row \in {"applied", "deferred", "dead"}
         /\ row \in {"deferred", "dead"} => e.kind # "create"
         /\ copy' \in [Sides -> [Orders -> CopyType]]
         /\ \A r \in Sides, p \in Orders : r # s \/ p # e.o => copy'[r][p] = copy[r][p]
         /\ CopyShape(copy'[s][e.o])
         /\ now' \in Nat /\ now' >= now /\ floor' \in [Sides -> Nat]
         /\ Keeps(s, e, row) \/ Restates(s, e, row) \/ Pays(s, e, row) \/ Creates(s, e, row)
<1>0. now \in Nat /\ floor \in [Sides -> Nat]
  BY DEF Base, Types
<1>1. CASE e.kind = "state" /\ ApplyState(s, e, row)
  <2>1. /\ row \in {"applied", "deferred", "dead"}
        /\ copy' \in [Sides -> [Orders -> CopyType]]
        /\ \A r \in Sides, p \in Orders : r # s \/ p # e.o => copy'[r][p] = copy[r][p]
        /\ CopyShape(copy'[s][e.o])
        /\ now' \in Nat /\ now' >= now /\ floor' \in [Sides -> Nat]
        /\ Keeps(s, e, row) \/ Restates(s, e, row)
    BY ONLY <1>1, Base, s \in Sides, e \in log[Peer(s)], StateIs
  <2> QED
    BY <1>1, <2>1
<1>2. CASE e.kind = "pay" /\ ApplyPayment(s, e, row) /\ UNCHANGED clock
  <2>1. /\ row \in {"applied", "deferred"}
        /\ copy' \in [Sides -> [Orders -> CopyType]]
        /\ \A r \in Sides, p \in Orders : r # s \/ p # e.o => copy'[r][p] = copy[r][p]
        /\ CopyShape(copy'[s][e.o])
        /\ now' = now /\ floor' = floor
        /\ Keeps(s, e, row) \/ Pays(s, e, row)
    BY ONLY <1>2, Base, s \in Sides, e \in log[Peer(s)], PaymentIs
  <2> QED
    BY <1>0, <1>2, <2>1
<1>3. CASE e.kind = "create" /\ ApplyCreate(s, e, row) /\ UNCHANGED clock
  <2>1. /\ row \in {"applied", "pending", "failed"}
        /\ copy' \in [Sides -> [Orders -> CopyType]]
        /\ \A r \in Sides, p \in Orders : r # s \/ p # e.o => copy'[r][p] = copy[r][p]
        /\ CopyShape(copy'[s][e.o])
        /\ now' = now /\ floor' = floor
        /\ Keeps(s, e, row) \/ Creates(s, e, row)
    BY ONLY <1>3, Base, s \in Sides, e \in log[Peer(s)], CreateIs
  <2> QED
    BY <1>0, <1>3, <2>1
<1> QED
  BY <1>1, <1>2, <1>3 DEF Handle

\* What may be received again is no legacy event.
LEMMA DeferredIs ==
  ASSUME Base, NEW s \in Sides, NEW e \in log[Peer(s)], inbox[s][e.id] \in {"deferred", "dead"}
  PROVE  e.kind # "create"
<1>1. e.id \in Ids(Peer(s)) /\ Peer(s) \in Sides
  BY EventIs, PeerIs
<1>2. PICK f \in log[Peer(s)] : f.id = e.id /\ f.kind # "create"
  BY <1>1 DEF Base, Received
<1> QED
  BY <1>1, <1>2 DEF Base, Distinct

LEMMA ReceiveIs ==
  ASSUME Base, NEW s \in Sides, NEW e \in log[Peer(s)], NEW dead \in {"dead", "stuck"},
         NEW ok \in BOOLEAN, Receive(s, e, dead, ok)
  PROVE  /\ copy' \in [Sides -> [Orders -> CopyType]]
         /\ \A r \in Sides, p \in Orders : r # s \/ p # e.o => copy'[r][p] = copy[r][p]
         /\ CopyShape(copy'[s][e.o])
         /\ now' \in Nat /\ now' >= now /\ floor' \in [Sides -> Nat] /\ faults' \in Nat
         /\ InboxType(inbox')
         /\ \A r \in Sides, k \in Nat : r # s \/ k # e.id => inbox'[r][k] = inbox[r][k]
         /\ ok => inbox'[s][e.id] \in Outcomes
         /\ \/ UNCHANGED <<copy, inbox, now, floor>>
            \/ Receives(s, e, dead)
<1>0. /\ copy \in [Sides -> [Orders -> CopyType]] /\ now \in Nat /\ floor \in [Sides -> Nat]
      /\ faults \in Nat
      /\ InboxType(inbox)
      /\ e.id \in Ids(Peer(s)) /\ CopyShape(copy[s][e.o])
  BY EventIs DEF Base, Types
<1>f. Fault => faults' \in Nat
  BY <1>0 DEF Fault
<1>1. CASE UNCHANGED <<copy, inbox, now, floor>> /\ faults' \in Nat
           /\ (ok => inbox[s][e.id] \in Outcomes)
  BY <1>0, <1>1
<1>2. ASSUME /\ inbox[s][e.id] \in {"none", "deferred"}
             /\ tx[s][e.o] = NoTx,
             NEW row \in Rows, Handle(s, e, row),
             inbox' = [inbox EXCEPT ![s][e.id] = IF row = "dead" THEN dead ELSE row],
             ok = (row \in Outcomes),
             IF row = "pending" THEN Fault ELSE UNCHANGED faults
      PROVE  /\ copy' \in [Sides -> [Orders -> CopyType]]
             /\ \A r \in Sides, p \in Orders : r # s \/ p # e.o => copy'[r][p] = copy[r][p]
             /\ CopyShape(copy'[s][e.o])
             /\ now' \in Nat /\ now' >= now /\ floor' \in [Sides -> Nat] /\ faults' \in Nat
             /\ InboxType(inbox')
             /\ \A r \in Sides, k \in Nat : r # s \/ k # e.id => inbox'[r][k] = inbox[r][k]
             /\ ok => inbox'[s][e.id] \in Outcomes
             /\ Receives(s, e, dead)
  <2>1. /\ row # "none"
        /\ e.kind # "create" => row \in {"applied", "deferred", "dead"}
        /\ row \in {"deferred", "dead"} => e.kind # "create"
        /\ copy' \in [Sides -> [Orders -> CopyType]]
        /\ \A r \in Sides, p \in Orders : r # s \/ p # e.o => copy'[r][p] = copy[r][p]
        /\ CopyShape(copy'[s][e.o])
        /\ now' \in Nat /\ now' >= now /\ floor' \in [Sides -> Nat]
        /\ Keeps(s, e, row) \/ Restates(s, e, row) \/ Pays(s, e, row) \/ Creates(s, e, row)
    BY ONLY <1>2, Base, s \in Sides, e \in log[Peer(s)], HandleIs
  <2> DEFINE i == e.id
             kept == IF row = "dead" THEN dead ELSE row
  <2>2. kept \in Rows
    BY DEF Rows, Outcomes
  <2>3. inbox' = [inbox EXCEPT ![s][i] = kept] /\ i \in Ids(Peer(s))
    BY <1>0, <1>2
  <2>4. InboxType(inbox)
    BY DEF Base, Types
  <2> HIDE DEF i, kept
  <2>5. /\ InboxType(inbox')
        /\ inbox'[s][i] = kept
        /\ \A r \in Sides, k \in Nat : r # s \/ k # i => inbox'[r][k] = inbox[r][k]
    <3>1. InboxType(inbox')
      BY ONLY <2>2, <2>3, <2>4, s \in Sides, InboxIs
    <3>3. \A r \in Sides, k \in Nat : r # s \/ k # i => inbox'[r][k] = inbox[r][k]
      BY ONLY <2>2, <2>3, <2>4, s \in Sides, InboxIs
    <3>2. inbox'[s][i] = kept
      BY ONLY <2>2, <2>3, <2>4, s \in Sides DEF InboxType
    <3> QED
      BY <3>1, <3>2, <3>3
  <2>6. /\ kept # "none" /\ (kept = "dead" => dead = "dead")
        /\ row \in Outcomes => kept \in Outcomes
        /\ e.kind # "create" => kept \in Outcomes
        /\ kept \in {"deferred", "dead"} => e.kind # "create"
        /\ kept = "applied" => row = "applied"
    BY <2>1 DEF kept, Outcomes
  <2>7. \/ Keeps(s, e, kept) \/ Restates(s, e, kept)
        \/ Pays(s, e, kept) \/ Creates(s, e, kept)
    <3>1. Keeps(s, e, row) => Keeps(s, e, kept)
      BY <2>6 DEF Keeps
    <3>2. Restates(s, e, row) => row # "dead"
      BY DEF Restates
    <3>3. Pays(s, e, row) => row # "dead"
      BY DEF Pays
    <3>4. Creates(s, e, row) => row # "dead"
      BY DEF Creates
    <3>5. row # "dead" => kept = row
      BY DEF kept
    <3> QED
      BY <2>1, <3>1, <3>2, <3>3, <3>4, <3>5
  <2>8. Receives(s, e, dead)
    BY <1>2, <2>2, <2>5, <2>6, <2>7 DEF Receives, i
  <2>9. faults' \in Nat
    BY <1>0, <1>2, <1>f
  <2> QED
    BY <1>2, <2>1, <2>5, <2>6, <2>8, <2>9 DEF i
<1>3. CASE /\ inbox[s][e.id] \notin {"none", "deferred"}
           /\ ok = (inbox[s][e.id] \in Outcomes)
           /\ UNCHANGED <<inbox, copy, clock, faults>>
  BY <1>0, <1>1, <1>3 DEF clock
<1>4. CASE /\ inbox[s][e.id] \in {"none", "deferred"}
           /\ ~ok
           /\ Fault
           /\ UNCHANGED <<inbox, copy, clock>>
  BY <1>0, <1>f, <1>1, <1>4 DEF clock
<1>5. CASE /\ inbox[s][e.id] \in {"none", "deferred"}
           /\ tx[s][e.o] = NoTx
           /\ \E row \in Rows :
                 /\ Handle(s, e, row)
                 /\ inbox' = [inbox EXCEPT ![s][e.id] = IF row = "dead" THEN dead ELSE row]
                 /\ ok = (row \in Outcomes)
                 /\ IF row = "pending" THEN Fault ELSE UNCHANGED faults
  BY <1>2, <1>5
<1>6. CASE /\ inbox[s][e.id] \in {"none", "deferred"}
           /\ e.kind # "create"
           /\ inbox' = [inbox EXCEPT ![s][e.id] = dead]
           /\ ok
           /\ Fault
           /\ UNCHANGED <<copy, clock>>
  <2>1. dead \in Rows /\ dead \in Outcomes /\ dead # "none"
    BY DEF Rows, Outcomes
  <2>2. /\ InboxType(inbox') /\ inbox'[s][e.id] = dead
        /\ \A r \in Sides, k \in Nat : r # s \/ k # e.id => inbox'[r][k] = inbox[r][k]
    <3> DEFINE i == e.id
    <3>1. inbox' = [inbox EXCEPT ![s][i] = dead] /\ i \in Ids(Peer(s))
      BY <1>0, <1>6
    <3>2. InboxType(inbox)
      BY <1>0
    <3>3. dead \in Rows
      BY <2>1
    <3> HIDE DEF i
    <3>4. InboxType(inbox')
      BY ONLY <3>1, <3>2, <3>3, s \in Sides, InboxIs
    <3>5. \A r \in Sides, k \in Nat : r # s \/ k # i => inbox'[r][k] = inbox[r][k]
      BY ONLY <3>1, <3>2, <3>3, s \in Sides, InboxIs
    <3>6. inbox'[s][i] = dead
      BY ONLY <3>1, <3>2, s \in Sides DEF InboxType
    <3> QED
      BY <3>4, <3>5, <3>6 DEF i
  <2>3. Keeps(s, e, dead)
    BY <1>6 DEF Keeps, clock
  <2>4. Receives(s, e, dead)
    BY <1>6, <2>1, <2>2, <2>3 DEF Receives
  <2> QED
    BY <1>0, <1>f, <1>6, <2>1, <2>2, <2>4 DEF clock
<1> QED
  BY <1>3, <1>4, <1>5, <1>6 DEF Receive

\* An outcome stays an outcome.
LEMMA OutcomesStay ==
  ASSUME Base, NEW s \in Sides, NEW e \in log[Peer(s)], NEW dead \in {"dead", "stuck"},
         NEW ok \in BOOLEAN, Receive(s, e, dead, ok)
  PROVE  \A r \in Sides, k \in Nat : inbox[r][k] \in Outcomes => inbox'[r][k] \in Outcomes
<1>1. /\ \A r \in Sides, k \in Nat : r # s \/ k # e.id => inbox'[r][k] = inbox[r][k]
      /\ UNCHANGED inbox \/ Receives(s, e, dead)
  BY ReceiveIs
<1>2. inbox[s][e.id] \in Outcomes => inbox'[s][e.id] \in Outcomes
  <2>1. Receives(s, e, dead) /\ inbox[s][e.id] \in Outcomes => inbox[s][e.id] = "deferred"
    BY DEF Receives, Outcomes
  <2>2. inbox[s][e.id] = "deferred" => e.kind # "create"
    BY DeferredIs
  <2>3. Receives(s, e, dead) /\ e.kind # "create" => inbox'[s][e.id] \in Outcomes
    BY DEF Receives
  <2> QED
    BY <1>1, <2>1, <2>2, <2>3
<1> QED
  BY <1>1, <1>2

-----------------------------------------------------------------------------
(* The databases stay sound.                                                *)

Databases == <<now, floor, number, copy, tx, log, inbox, known>>

LEMMA InitBase == Init => Base
<1> SUFFICES ASSUME Init PROVE Base
  OBVIOUS
<1>1. Types
  <2>1. now \in Nat /\ faults \in Nat /\ known \in [Sides -> SUBSET Orders]
    BY BoundsAre, PeerIs DEF Init
  <2>2. /\ floor \in [Sides -> Nat] /\ number \in [Sides -> Nat]
        /\ copy \in [Sides -> [Orders -> CopyType]]
        /\ tx \in [Sides -> [Orders -> TxType]]
        /\ log \in [Sides -> SUBSET EventType]
    BY NoOrderIs, NoTxIs DEF Init
  <2>3. InboxType(inbox)
    <3>1. \A s \in Sides : inbox[s] = [i \in Ids(Peer(s)) |-> "none"]
      BY DEF Init
    <3>2. "none" \in Rows
      BY DEF Rows
    <3>3. \A s \in Sides : inbox[s] \in [Ids(Peer(s)) -> Rows]
      BY <3>1, <3>2
    <3>4. inbox = [s \in Sides |-> inbox[s]]
      BY DEF Init
    <3> QED
      BY <3>3, <3>4 DEF InboxType
  <2> QED
    BY <2>1, <2>2, <2>3 DEF Types
<1>2. /\ \A s \in Sides, o \in Orders : tx[s][o] = NoTx /\ copy[s][o] = NoOrder
      /\ \A s \in Sides : log[s] = {} /\ number[s] = 0
      /\ \A s \in Sides : \A i \in Ids(Peer(s)) : inbox[s][i] = "none"
  BY DEF Init
<1>3. Rowed
  BY <1>2, NoOrderIs, FS_EmptySet DEF Rowed, Holds
<1>4. Distinct
  <2>1. Taken(NoTx) = {}
    BY NoTxIs DEF Taken
  <2> QED
    BY <1>2, <2>1 DEF Distinct
<1>5. Fits
  <2>1. Pending = {} /\ Cardinality(Pending) = 0
    <3>1. \A o \in Orders : tx["central"][o] = NoTx
      BY <1>2, PeerIs
    <3>2. Pending = {}
      BY <3>1 DEF Pending
    <3> QED
      BY <3>2, FS_EmptySet
  <2>2. /\ MaxNumber["site"] \in Nat /\ MaxNumber["central"] \in Nat
        /\ number["site"] = 0 /\ number["central"] = 0 /\ Cardinality(Orders) \in Nat
    BY <1>2, BoundsAre, PendingIs, PeerIs
  <2> QED
    BY <2>1, <2>2 DEF Fits
<1>6. Received
  BY <1>2 DEF Received
<1> QED
  BY <1>1, <1>3, <1>4, <1>5, <1>6 DEF Base

LEMMA KeptBase ==
  ASSUME Base, UNCHANGED Databases, faults' \in Nat
  PROVE  Base'
<1>1. UNCHANGED <<now, floor, number, copy, tx, log, inbox, known>>
  BY DEF Databases
<1>2. Types'
  BY <1>1 DEF Base, Types
<1>3. Rowed'
  BY <1>1 DEF Base, Rowed, Holds, EventShape
<1>4. Distinct' /\ Fits' /\ Received'
  BY <1>1 DEF Base, Distinct, Fits, Pending, Received
<1> QED
  BY <1>2, <1>3, <1>4 DEF Base

LEMMA ArrivesBase ==
  ASSUME Base, NEW s \in Sides, NEW o \in Orders, MasterArrives(s, o)
  PROVE  Base'
<1>1. /\ UNCHANGED <<now, floor, number, copy, tx, log, inbox, faults>>
      /\ known' = [known EXCEPT ![s] = @ \cup {o}]
  BY DEF MasterArrives, clock
<1>2. Types'
  BY <1>1 DEF Base, Types
<1>3. UNCHANGED <<number, copy, tx, log, inbox>>
  BY <1>1
<1>4. Rowed'
  BY <1>3 DEF Base, Rowed, Holds, EventShape
<1>5. Distinct' /\ Fits'
  BY <1>3 DEF Base, Distinct, Fits, Pending
<1>6. Received'
  BY <1>3 DEF Base, Received
<1> QED
  BY <1>2, <1>4, <1>5, <1>6 DEF Base

\* Numbers only grow, so what was numbered stays numbered.
LEMMA EventsStay ==
  ASSUME Base, log' = log, number' \in [Sides -> Nat], \A s \in Sides : number'[s] >= number[s]
  PROVE  \A s \in Sides : IsFiniteSet(log'[s]) /\ \A e \in log'[s] : EventShape(s, e)'
<1>1. \A s \in Sides : IsFiniteSet(log[s]) /\ log'[s] = log[s]
  BY DEF Base, Rowed
<1>2. ASSUME NEW s \in Sides, NEW e \in log[s] PROVE EventShape(s, e)'
  <2>1. EventShape(s, e) /\ number[s] \in Nat /\ number'[s] \in Nat /\ number'[s] >= number[s]
        /\ e \in EventType
    BY DEF Base, Rowed, Types
  <2>2. e.id \in 1..number'[s]
    BY <2>1 DEF EventShape
  <2>3. s = "central" => e.xid <= number'["central"]
    BY <2>1 DEF EventShape, EventType
  <2> QED
    BY <2>1, <2>2, <2>3 DEF EventShape
<1> QED
  BY <1>1, <1>2

LEMMA BeginBase ==
  ASSUME Base, NEW o \in Orders, NEW kind \in Kinds, Begin(o, kind)
  PROVE  Base'
<1>1. /\ tx["central"][o] = NoTx /\ number["central"] < MaxNumber["central"]
      /\ kind = "create" => copy["central"][o].status = "absent" /\ Home[o] = "central"
      /\ kind # "create" => copy["central"][o].status = "open"
      /\ number' \in [Sides -> Nat] /\ number'["central"] = number["central"] + 1
      /\ number'["site"] = number["site"]
      /\ tx' \in [Sides -> [Orders -> TxType]]
      /\ tx'["central"][o].kind = kind /\ tx'["central"][o].id = 0
      /\ tx'["central"][o].xid = number["central"] + 1
      /\ \A r \in Sides, p \in Orders : r # "central" \/ p # o => tx'[r][p] = tx[r][p]
      /\ UNCHANGED <<now, floor, copy, log, inbox, known, transport, faults>>
  BY BeginIs
<1>2. /\ number["central"] \in Nat /\ number["site"] \in Nat
      /\ \A r \in Sides : number[r] \in Nat /\ number'[r] \in Nat /\ number'[r] >= number[r]
  BY <1>1, PeerIs DEF Base, Types, Sides
<1>3. Types'
  BY <1>1 DEF Base, Types
<1>4. Rowed'
  <2>1. ASSUME NEW r \in Sides, NEW p \in Orders PROVE Holds(r, p)'
    <3>1. CASE r = "central" /\ p = o
      BY <1>1, <1>2, <3>1 DEF Holds
    <3>2. CASE r # "central" \/ p # o
      <4>1. Holds(r, p) /\ tx'[r][p] = tx[r][p] /\ copy' = copy
        BY <1>1, <3>2 DEF Base, Rowed
      <4>2. tx[r][p].xid \in 1..number["central"] => tx[r][p].xid \in 1..number'["central"]
        BY <1>1, <1>2
      <4> QED
        BY <4>1, <4>2 DEF Holds
    <3> QED
      BY <3>1, <3>2
  <2>2. \A r \in Sides, p \in Orders : CopyShape(copy'[r][p])
    BY <1>1 DEF Base, Rowed
  <2> QED
    BY <1>1, <1>2, <2>1, <2>2, EventsStay DEF Rowed
<1>5. Distinct'
  <2>1. \A r \in Sides, p \in Orders :
           Taken(tx'[r][p]) \subseteq Taken(tx[r][p])
    <3>1. Taken(tx'["central"][o]) = {}
      BY <1>1 DEF Taken
    <3> QED
      BY <1>1, <3>1
  <2>2. \A r \in Sides : 1..number[r] \subseteq 1..number'[r]
    BY <1>2
  <2>5. ASSUME NEW r \in Sides
        PROVE  /\ \A e, f \in log'[r] : e.id = f.id => e = f
               /\ \A p \in Orders : /\ Taken(tx'[r][p]) \subseteq 1..number'[r]
                                    /\ \A e \in log'[r] : e.id \notin Taken(tx'[r][p])
    <3>1. log'[r] = log[r]
      BY <1>1
    <3> QED
      BY <3>1, <2>1, <2>2 DEF Base, Distinct
  <2>6. ASSUME NEW r \in Sides, NEW p \in Orders, NEW q \in Orders, p # q
        PROVE  Taken(tx'[r][p]) \cap Taken(tx'[r][q]) = {}
    <3>1. Taken(tx[r][p]) \cap Taken(tx[r][q]) = {}
      BY <2>6 DEF Base, Distinct
    <3> QED
      BY <2>1, <3>1
  <2> QED
    BY <2>5, <2>6 DEF Distinct
<1>6. Fits'
  <2>1. IsFiniteSet(Orders) /\ Pending' \subseteq Orders
    BY PendingIs DEF Pending
  <2>2. IsFiniteSet(Pending') /\ Cardinality(Pending') <= Cardinality(Orders)
    BY <2>1, FS_Subset
  <2>3. Cardinality(Pending') \in Nat /\ Cardinality(Orders) \in Nat
    BY <2>1, <2>2, FS_CardinalityType
  <2>4. MaxNumber["central"] \in Nat /\ number'["central"] <= MaxNumber["central"]
    BY <1>1, <1>2, BoundsAre, PeerIs
  <2>5. number'["site"] <= MaxNumber["site"] + 2 * Cardinality(Orders)
    BY <1>1 DEF Base, Fits
  <2>6. number'["central"] \in Nat
    BY <1>1, <1>2
  <2> DEFINE n == number'["central"]
             c == Cardinality(Pending')
             k == Cardinality(Orders)
             m == MaxNumber["central"]
  <2>7. n + 2 * c <= m + 2 * k
    <3>1. n \in Nat /\ c \in Nat /\ k \in Nat /\ m \in Nat /\ n <= m /\ c <= k
      BY <2>2, <2>3, <2>4, <2>6
    <3> HIDE DEF n, c, k, m
    <3> QED
      BY <3>1
  <2> QED
    BY <2>5, <2>7 DEF Fits
<1>7. Received'
  BY <1>1 DEF Base, Received
<1> QED
  BY <1>3, <1>4, <1>5, <1>6, <1>7 DEF Base

\* Of the numbers and the stamps taken, the transaction is what it was.
LEMMA RecordBase ==
  ASSUME Base, NEW s \in Sides, NEW o \in Orders, NEW t \in TxType, t.kind \in Kinds,
         tx[s][o].id = 0, Record(s, o, t),
         t.kind = "create" => copy[s][o].status = "absent" /\ Home[o] = s,
         t.kind # "create" => copy[s][o].status = "open",
         s = "central" => t.xid \in 1..number["central"] /\ tx["central"][o] # NoTx,
         s = "site" => number["site"] < MaxNumber["site"]
  PROVE  Base'
<1> DEFINE id == number[s] + 1
<1>1. /\ number' \in [Sides -> Nat]
      /\ number'[s] = number[s] + (IF t.kind = "pay" THEN 2 ELSE 1)
      /\ \A r \in Sides : r # s => number'[r] = number[r]
      /\ tx' \in [Sides -> [Orders -> TxType]]
      /\ tx'[s][o].kind = t.kind /\ tx'[s][o].xid = t.xid /\ tx'[s][o].id = id
      /\ tx'[s][o].hlc = IF t.kind = "create" THEN NoStamp ELSE NextStamp(s, id)
      /\ \A r \in Sides, p \in Orders : r # s \/ p # o => tx'[r][p] = tx[r][p]
      /\ now' \in Nat /\ now' >= now
      /\ UNCHANGED <<floor, copy, log, inbox, known, transport, faults>>
  BY RecordIs
<1>2. /\ number[s] \in Nat /\ id \in Nat /\ id # 0
      /\ \A r \in Sides : number[r] \in Nat /\ number'[r] \in Nat /\ number'[r] >= number[r]
      /\ number["central"] \in Nat /\ number["site"] \in Nat
  <2>1. \A r \in Sides : number[r] \in Nat /\ number'[r] \in Nat
    BY <1>1 DEF Base, Types
  <2>2. number'[s] >= number[s]
    BY <1>1, <2>1
  <2>3. \A r \in Sides : number'[r] >= number[r]
    BY <1>1, <2>1, <2>2
  <2> QED
    BY <2>1, <2>3, PeerIs
<1>3. Types'
  BY <1>1 DEF Base, Types
<1>4. Rowed'
  <2>1. ASSUME NEW r \in Sides, NEW p \in Orders PROVE Holds(r, p)'
    <3>0. \A x : x \in 1..number["central"] => x \in 1..number'["central"]
      BY <1>2, PeerIs
    <3>1. CASE r = s /\ p = o
      <4>1. NextStamp(s, id)[2] = id /\ NextStamp(s, id)[3] = Node(s)
        BY DEF NextStamp
      <4>2. s = "central" => tx'[s][o].xid \in 1..number'["central"]
        BY <1>1, <3>0
      <4> HIDE DEF id
      <4> QED
        BY <1>1, <3>1, <4>1, <4>2 DEF Holds
    <3>2. CASE r # s \/ p # o
      <4>1. Holds(r, p) /\ tx'[r][p] = tx[r][p] /\ copy' = copy
        BY <1>1, <3>2 DEF Base, Rowed
      <4> QED
        BY <3>0, <4>1 DEF Holds
    <3> QED
      BY <3>1, <3>2
  <2>2. \A r \in Sides, p \in Orders : CopyShape(copy'[r][p])
    BY <1>1 DEF Base, Rowed
  <2> QED
    BY <1>1, <1>2, <2>1, <2>2, EventsStay DEF Rowed
<1>5. Distinct'
  <2>1. Taken(tx'[s][o]) \subseteq 1..number'[s] /\ \A i \in Taken(tx'[s][o]) : i \notin 1..number[s]
    <3>1. CASE t.kind = "pay"
      <4>1. Taken(tx'[s][o]) = {id, id + 1}
        BY <1>1, <1>2, <3>1 DEF Taken
      <4> QED
        BY <1>1, <1>2, <3>1, <4>1
    <3>2. CASE t.kind # "pay"
      <4>1. Taken(tx'[s][o]) = {id}
        BY <1>1, <1>2, <3>2 DEF Taken
      <4> QED
        BY <1>1, <1>2, <3>2, <4>1
    <3> QED
      BY <3>1, <3>2
  <2>2. \A r \in Sides : 1..number[r] \subseteq 1..number'[r]
    BY <1>2
  <2>3. \A r \in Sides, p \in Orders : r # s \/ p # o => Taken(tx'[r][p]) = Taken(tx[r][p])
    BY <1>1
  <2>4. /\ \A r \in Sides, p \in Orders : Taken(tx[r][p]) \subseteq 1..number[r]
        /\ \A r \in Sides : \A e \in log[r] : e.id \in 1..number[r]
    BY DEF Base, Distinct, Rowed, EventShape
  <2>5. ASSUME NEW r \in Sides
        PROVE  /\ \A e, f \in log'[r] : e.id = f.id => e = f
               /\ \A p \in Orders : /\ Taken(tx'[r][p]) \subseteq 1..number'[r]
                                    /\ \A e \in log'[r] : e.id \notin Taken(tx'[r][p])
    BY <1>1, <2>1, <2>2, <2>3, <2>4 DEF Base, Distinct
  <2>6. ASSUME NEW r \in Sides, NEW p \in Orders, NEW q \in Orders, p # q
        PROVE  Taken(tx'[r][p]) \cap Taken(tx'[r][q]) = {}
    <3>1. Taken(tx[r][p]) \cap Taken(tx[r][q]) = {}
      BY <2>6 DEF Base, Distinct
    <3> QED
      BY <2>1, <2>3, <2>4, <2>6, <3>1
  <2> QED
    BY <2>5, <2>6 DEF Distinct
<1>6. Fits'
  <2>1. /\ MaxNumber["site"] \in Nat /\ MaxNumber["central"] \in Nat
        /\ Cardinality(Orders) \in Nat /\ Cardinality(Pending) \in Nat
        /\ IsFiniteSet(Pending)
    BY BoundsAre, PeerIs, PendingIs
  <2>2. /\ number["site"] <= MaxNumber["site"] + 2 * Cardinality(Orders)
        /\ number["central"] + 2 * Cardinality(Pending)
              <= MaxNumber["central"] + 2 * Cardinality(Orders)
    BY DEF Base, Fits
  <2> DEFINE k == Cardinality(Orders)
             c == Cardinality(Pending)
             d == Cardinality(Pending')
             m == number["site"]
             n == number["central"]
             m2 == number'["site"]
             n2 == number'["central"]
             Ms == MaxNumber["site"]
             Mc == MaxNumber["central"]
  <2>3. CASE s = "site"
    <3>1. Pending' = Pending
      BY <1>1, <2>3, PeerIs DEF Pending
    <3>2. k >= 1
      <4>1. Orders # {} /\ IsFiniteSet(Orders)
        BY PendingIs
      <4>2. k # 0
        BY <4>1, FS_EmptySet
      <4> QED
        BY <2>1, <4>2
    <3>3. m2 <= m + 2 /\ n2 = n /\ m < Ms /\ m \in Nat /\ m2 \in Nat
      BY <1>1, <1>2, <2>3, PeerIs
    <3>4. m2 <= Ms + 2 * k
      <4> HIDE DEF m, m2, Ms, k
      <4> QED
        BY <2>1, <3>2, <3>3 DEF Ms, k
    <3> QED
      BY <2>2, <3>1, <3>3, <3>4 DEF Fits
  <2>4. CASE s = "central"
    <3>1. Pending' = Pending \ {o} /\ o \in Pending
      <4>1. o \in Pending /\ o \notin Pending'
        BY <1>1, <1>2, <2>4 DEF Pending
      <4>2. \A p \in Orders : p # o => tx'["central"][p] = tx["central"][p]
        BY <1>1, <2>4
      <4> QED
        BY <4>1, <4>2 DEF Pending
    <3>2. d = c - 1
      BY <2>1, <3>1, FS_RemoveElement
    <3>3. n2 <= n + 2 /\ m2 = m /\ n \in Nat /\ n2 \in Nat
      BY <1>1, <1>2, <2>4, PeerIs
    <3>4. n2 + 2 * d <= Mc + 2 * k
      <4>1. n + 2 * c <= Mc + 2 * k /\ k \in Nat /\ c \in Nat /\ Mc \in Nat
        BY <2>1, <2>2
      <4> HIDE DEF n, n2, c, d, Mc, k
      <4> QED
        BY <4>1, <3>2, <3>3
    <3> QED
      BY <2>2, <3>3, <3>4 DEF Fits
  <2> QED
    BY <2>3, <2>4 DEF Sides
<1>7. Received'
  BY <1>1 DEF Base, Received
<1> QED
  BY <1>3, <1>4, <1>5, <1>6, <1>7 DEF Base

LEMMA CommitBase ==
  ASSUME Base, NEW s \in Sides, NEW o \in Orders, Commit(s, o)
  PROVE  Base'
<1> DEFINE t == tx[s][o]
           R == Recorded(s, o)
<1>1. /\ t.id # 0
      /\ copy' \in [Sides -> [Orders -> CopyType]]
      /\ copy'[s][o] = Changed(s, o)
      /\ \A r \in Sides, p \in Orders : r # s \/ p # o => copy'[r][p] = copy[r][p]
      /\ log' \in [Sides -> SUBSET EventType]
      /\ log'[s] = log[s] \cup R
      /\ \A r \in Sides : r # s => log'[r] = log[r]
      /\ tx' \in [Sides -> [Orders -> TxType]]
      /\ tx'[s][o] = NoTx
      /\ \A r \in Sides, p \in Orders : r # s \/ p # o => tx'[r][p] = tx[r][p]
      /\ UNCHANGED <<now, floor, number, inbox, known, transport, faults>>
  BY CommitIs
<1>2. /\ IsFiniteSet(R)
      /\ \A e \in R : /\ e.xid = t.xid /\ e.hlc = t.hlc /\ e.id \in Taken(t)
                      /\ e.kind = "create" <=> t.kind = "create"
                      /\ e.kind = "state" => e.id = t.id /\ e.status \in {"open", "voided"}
      /\ \A e, f \in R : e.id = f.id => e = f
  BY <1>1, RecordedIs
<1>3. /\ t # NoTx /\ CopyShape(copy'[s][o])
      /\ Holds(s, o)
  BY <1>1, ChangedIs DEF Base, Rowed
<1> HIDE DEF R
<1>4. Types'
  BY <1>1 DEF Base, Types
<1>5. Rowed'
  <2>1. ASSUME NEW r \in Sides, NEW p \in Orders PROVE Holds(r, p)' /\ CopyShape(copy'[r][p])
    <3>1. CASE r = s /\ p = o
      BY <1>1, <1>3, <3>1 DEF Holds
    <3>2. CASE r # s \/ p # o
      <4>1. Holds(r, p) /\ CopyShape(copy[r][p])
        BY DEF Base, Rowed
      <4> QED
        BY <1>1, <3>2, <4>1 DEF Holds
    <3> QED
      BY <3>1, <3>2
  <2>2. ASSUME NEW r \in Sides, NEW e \in log[r] PROVE EventShape(r, e)'
    <3>1. EventShape(r, e) /\ number' = number
      BY <1>1 DEF Base, Rowed
    <3> QED
      BY <3>1 DEF EventShape
  <2>3. ASSUME NEW e \in R PROVE EventShape(s, e)'
    <3>1. e.id \in 1..number[s]
      <4>1. Taken(t) \subseteq 1..number[s]
        BY DEF Base, Distinct
      <4> QED
        BY <1>2, <4>1
    <3>2. s = "central" => e.xid <= number["central"]
      BY <1>2, <1>3 DEF Holds
    <3>3. e.kind = "state" => e.hlc[2] = e.id /\ e.hlc[3] = Node(s)
      BY <1>1, <1>2, <1>3 DEF Holds
    <3>4. e.kind = "state" => e.status \in {"open", "voided"}
      BY <1>2
    <3>5. number' = number
      BY <1>1
    <3> QED
      BY <3>1, <3>2, <3>3, <3>4, <3>5 DEF EventShape
  <2>4. \A r \in Sides : IsFiniteSet(log'[r])
    <3>1. \A r \in Sides : IsFiniteSet(log[r])
      BY DEF Base, Rowed
    <3>2. IsFiniteSet(log[s] \cup R)
      BY <1>2, <3>1, FS_Union
    <3> QED
      BY <1>1, <3>1, <3>2
  <2>5. \A r \in Sides : \A e \in log'[r] : EventShape(r, e)'
    BY <1>1, <2>2, <2>3
  <2> QED
    BY <2>1, <2>4, <2>5 DEF Rowed
<1>6. Distinct'
  <2>1. ASSUME NEW r \in Sides, NEW e \in log'[r], NEW f \in log'[r], e.id = f.id
        PROVE  e = f
    <3>1. CASE e \in log[r] /\ f \in log[r]
      BY <2>1, <3>1 DEF Base, Distinct
    <3>2. CASE r = s /\ e \in R /\ f \in R
      BY <1>2, <2>1, <3>2
    <3>3. CASE r = s /\ ((e \in R /\ f \in log[s]) \/ (e \in log[s] /\ f \in R))
      <4>1. \A g \in log[s] : g.id \notin Taken(t)
        BY DEF Base, Distinct
      <4> QED
        BY <1>2, <2>1, <3>3, <4>1
    <3>4. r # s => e \in log[r] /\ f \in log[r]
      BY <1>1
    <3>5. r = s => e \in log[s] \cup R /\ f \in log[s] \cup R
      BY <1>1
    <3> QED
      BY <3>1, <3>2, <3>3, <3>4, <3>5
  <2>2. ASSUME NEW r \in Sides, NEW p \in Orders
        PROVE  /\ Taken(tx'[r][p]) \subseteq 1..number'[r]
               /\ \A e \in log'[r] : e.id \notin Taken(tx'[r][p])
               /\ \A q \in Orders : p # q => Taken(tx'[r][p]) \cap Taken(tx'[r][q]) = {}
    <3>1. Taken(NoTx) = {} /\ number' = number
      BY <1>1, TakenIs, NoTxIs
    <3>2. CASE r = s /\ p = o
      BY <1>1, <3>1, <3>2
    <3>3. CASE r # s \/ p # o
      <4>1. /\ Taken(tx[r][p]) \subseteq 1..number[r]
            /\ \A e \in log[r] : e.id \notin Taken(tx[r][p])
            /\ \A q \in Orders : p # q => Taken(tx[r][p]) \cap Taken(tx[r][q]) = {}
        BY DEF Base, Distinct
      <4>2. tx'[r][p] = tx[r][p]
        BY <1>1, <3>3
      <4>3. \A e \in log'[r] : e.id \notin Taken(tx'[r][p])
        <5>1. CASE r = s
          <6>1. Taken(tx[s][p]) \cap Taken(t) = {}
            BY <3>3, <5>1 DEF Base, Distinct
          <6> QED
            BY <1>1, <1>2, <4>1, <4>2, <5>1, <6>1
        <5>2. CASE r # s
          BY <1>1, <4>1, <4>2, <5>2
        <5> QED
          BY <5>1, <5>2
      <4>4. \A q \in Orders : Taken(tx'[r][q]) \subseteq Taken(tx[r][q])
        BY <1>1, <3>1
      <4> QED
        BY <3>1, <4>1, <4>2, <4>3, <4>4
    <3> QED
      BY <3>2, <3>3
  <2> QED
    BY <2>1, <2>2 DEF Distinct
<1>7. Fits'
  <2>1. Pending' = Pending
    <3>1. NoTx.id = 0
      BY NoTxIs
    <3>2. \A p \in Orders : /\ tx'["central"][p] # NoTx /\ tx'["central"][p].id = 0
                            <=> tx["central"][p] # NoTx /\ tx["central"][p].id = 0
      BY <1>1, PeerIs
    <3> QED
      BY <3>2 DEF Pending
  <2> QED
    BY <1>1, <2>1 DEF Base, Fits
<1>8. Received'
  <2>1. \A r \in Sides : log[r] \subseteq log'[r]
    BY <1>1
  <2>2. inbox' = inbox
    BY <1>1
  <2>3. ASSUME NEW r \in Sides, NEW i \in Ids(Peer(r)), inbox[r][i] # "none"
        PROVE  \E e \in log'[Peer(r)] :
                  e.id = i /\ (inbox[r][i] \in {"deferred", "dead"} => e.kind # "create")
    BY <2>1, <2>3, PeerIs DEF Base, Received
  <2> QED
    BY <2>2, <2>3 DEF Received
<1> QED
  BY <1>4, <1>5, <1>6, <1>7, <1>8 DEF Base

\* A row of the inbox and the order's row, no one else's transaction.
LEMMA InboxBase ==
  ASSUME Base, NEW s \in Sides, NEW e \in log[Peer(s)],
         copy' \in [Sides -> [Orders -> CopyType]],
         \A r \in Sides, p \in Orders : copy'[r][p] = copy[r][p] \/ tx[r][p] = NoTx,
         \A r \in Sides, p \in Orders : CopyShape(copy'[r][p]),
         now' \in Nat, floor' \in [Sides -> Nat], faults' \in Nat,
         InboxType(inbox'),
         \A r \in Sides, k \in Nat : r # s \/ k # e.id => inbox'[r][k] = inbox[r][k],
         \/ inbox'[s][e.id] = inbox[s][e.id]
         \/ inbox'[s][e.id] \in {"deferred", "dead"} => e.kind # "create",
         UNCHANGED <<number, tx, log, known>>
  PROVE  Base'
<1>1. Types'
  BY DEF Base, Types
<1>2. Rowed'
  <2>1. \A r \in Sides, p \in Orders : Holds(r, p)'
    <3>1. ASSUME NEW r \in Sides, NEW p \in Orders PROVE Holds(r, p)'
      <4>1. Holds(r, p)
        BY DEF Base, Rowed
      <4> QED
        BY <4>1 DEF Holds
    <3> QED
      BY <3>1
  <2>2. \A r \in Sides : number'[r] >= number[r]
    BY DEF Base, Types
  <2>3. number' \in [Sides -> Nat]
    BY <1>1 DEF Types
  <2> QED
    BY <2>1, <2>2, <2>3, EventsStay DEF Rowed
<1>3. Distinct' /\ Fits'
  BY DEF Base, Distinct, Fits, Pending
<1>4. Received'
  <2>1. ASSUME NEW r \in Sides, NEW i \in Ids(Peer(r)), inbox'[r][i] # "none"
        PROVE  \E f \in log[Peer(r)] :
                  f.id = i /\ (inbox'[r][i] \in {"deferred", "dead"} => f.kind # "create")
    <3>0. i \in Nat
      BY DEF Ids
    <3>1. inbox'[r][i] = inbox[r][i] \/ (r = s /\ i = e.id)
      BY <3>0
    <3>2. CASE inbox'[r][i] = inbox[r][i]
      BY <2>1, <3>2 DEF Base, Received
    <3>3. CASE r = s /\ i = e.id /\ (inbox'[r][i] \in {"deferred", "dead"} => e.kind # "create")
      BY <3>3
    <3> QED
      BY <3>1, <3>2, <3>3
  <2> QED
    BY <2>1 DEF Received
<1> QED
  BY <1>1, <1>2, <1>3, <1>4 DEF Base

LEMMA ReceiveBase ==
  ASSUME Base, NEW s \in Sides, NEW e \in log[Peer(s)], NEW dead \in {"dead", "stuck"},
         NEW ok \in BOOLEAN, Receive(s, e, dead, ok), UNCHANGED Local
  PROVE  Base'
<1>1. /\ copy' \in [Sides -> [Orders -> CopyType]]
      /\ \A r \in Sides, p \in Orders : r # s \/ p # e.o => copy'[r][p] = copy[r][p]
      /\ CopyShape(copy'[s][e.o])
      /\ now' \in Nat /\ now' >= now /\ floor' \in [Sides -> Nat] /\ faults' \in Nat
      /\ InboxType(inbox')
      /\ \A r \in Sides, k \in Nat : r # s \/ k # e.id => inbox'[r][k] = inbox[r][k]
      /\ \/ UNCHANGED <<copy, inbox, now, floor>>
         \/ Receives(s, e, dead)
  BY ReceiveIs
<1>2. UNCHANGED <<number, tx, log, known>>
  BY DEF Local
<1>3. \A r \in Sides, p \in Orders : copy'[r][p] = copy[r][p] \/ tx[r][p] = NoTx
  BY <1>1 DEF Receives
<1>4. \A r \in Sides, p \in Orders : CopyShape(copy'[r][p])
  BY <1>1 DEF Base, Rowed
<1>5. \/ inbox'[s][e.id] = inbox[s][e.id]
      \/ inbox'[s][e.id] \in {"deferred", "dead"} => e.kind # "create"
  BY <1>1 DEF Receives
<1> QED
  BY <1>1, <1>2, <1>3, <1>4, <1>5, InboxBase

\* A dead letter of the receiver is tried again or given up.
LEMMA LetterIs ==
  ASSUME Base, NEW s \in Sides, NEW e \in log[Peer(s)], RetryLetter(s, e) \/ DiscardLetter(s, e)
  PROVE  /\ UNCHANGED <<now, floor, number, copy, tx, log, known, transport, faults>>
         /\ inbox[s][e.id] = "dead"
         /\ InboxType(inbox')
         /\ inbox'[s][e.id] \in {"deferred", "discarded"}
         /\ \A r \in Sides, k \in Nat : r # s \/ k # e.id => inbox'[r][k] = inbox[r][k]
<1>1. /\ UNCHANGED <<now, floor, number, copy, tx, log, known, transport, faults>>
      /\ inbox[s][e.id] = "dead"
  BY DEF RetryLetter, DiscardLetter, clock
<1>2. PICK row \in {"deferred", "discarded"} : inbox' = [inbox EXCEPT ![s][e.id] = row]
  BY DEF RetryLetter, DiscardLetter
<1> DEFINE i == e.id
<1>3. /\ row \in Rows /\ i \in Ids(Peer(s)) /\ InboxType(inbox)
      /\ inbox' = [inbox EXCEPT ![s][i] = row]
  BY <1>2, EventIs DEF Base, Types, Rows, Outcomes
<1> HIDE DEF i
<1>4. InboxType(inbox')
  BY ONLY <1>3, s \in Sides, InboxIs
<1>5. \A r \in Sides, k \in Nat : r # s \/ k # i => inbox'[r][k] = inbox[r][k]
  BY ONLY <1>3, s \in Sides, InboxIs
<1>6. inbox'[s][i] = row
  BY ONLY <1>3, s \in Sides DEF InboxType
<1> QED
  BY <1>1, <1>2, <1>4, <1>5, <1>6 DEF i

LEMMA LetterBase ==
  ASSUME Base, NEW s \in Sides, NEW e \in log[Peer(s)], RetryLetter(s, e) \/ DiscardLetter(s, e)
  PROVE  Base'
<1>1. /\ UNCHANGED <<now, floor, number, copy, tx, log, known, transport, faults>>
      /\ inbox[s][e.id] = "dead"
      /\ InboxType(inbox')
      /\ inbox'[s][e.id] \in {"deferred", "discarded"}
      /\ \A r \in Sides, k \in Nat : r # s \/ k # e.id => inbox'[r][k] = inbox[r][k]
  BY LetterIs
<1>2. /\ copy' \in [Sides -> [Orders -> CopyType]]
      /\ now' \in Nat /\ floor' \in [Sides -> Nat] /\ faults' \in Nat
      /\ \A r \in Sides, p \in Orders : CopyShape(copy'[r][p]) /\ copy'[r][p] = copy[r][p]
  BY <1>1 DEF Base, Types, Rowed
<1>3. e.kind # "create"
  BY <1>1, DeferredIs
<1> QED
  BY <1>1, <1>2, <1>3, InboxBase

\* A crash rolls the side's transactions back.
LEMMA CrashBase ==
  ASSUME Base, NEW s \in Sides, faults' \in Nat,
         tx' = [tx EXCEPT ![s] = [o \in Orders |-> NoTx]],
         UNCHANGED <<now, floor, number, copy, log, inbox, known>>
  PROVE  Base'
<1>1. /\ tx' \in [Sides -> [Orders -> TxType]]
      /\ \A r \in Sides, o \in Orders : tx'[r][o] = tx[r][o] \/ tx'[r][o] = NoTx
  BY NoTxIs DEF Base, Types
<1>2. Types'
  BY <1>1 DEF Base, Types
<1>3. Rowed'
  <2>1. ASSUME NEW r \in Sides, NEW o \in Orders PROVE Holds(r, o)'
    <3>1. Holds(r, o)
      BY DEF Base, Rowed
    <3> QED
      BY <1>1, <3>1 DEF Holds
  <2>2. \A r \in Sides : number'[r] >= number[r]
    BY DEF Base, Types
  <2>3. number' \in [Sides -> Nat]
    BY <1>2 DEF Types
  <2>4. \A r \in Sides, o \in Orders : CopyShape(copy'[r][o])
    BY DEF Base, Rowed
  <2> QED
    BY <2>1, <2>2, <2>3, <2>4, EventsStay DEF Rowed
<1>4. Distinct'
  <2>1. Taken(NoTx) = {}
    BY TakenIs, NoTxIs
  <2>2. \A r \in Sides, o \in Orders : Taken(tx'[r][o]) \subseteq Taken(tx[r][o])
    BY <1>1, <2>1
  <2>3. ASSUME NEW r \in Sides
        PROVE  /\ \A e, f \in log'[r] : e.id = f.id => e = f
               /\ \A p \in Orders : /\ Taken(tx'[r][p]) \subseteq 1..number'[r]
                                    /\ \A e \in log'[r] : e.id \notin Taken(tx'[r][p])
    BY <2>2 DEF Base, Distinct
  <2>4. ASSUME NEW r \in Sides, NEW p \in Orders, NEW q \in Orders, p # q
        PROVE  Taken(tx'[r][p]) \cap Taken(tx'[r][q]) = {}
    <3>1. Taken(tx[r][p]) \cap Taken(tx[r][q]) = {}
      BY <2>4 DEF Base, Distinct
    <3> QED
      BY <2>2, <3>1
  <2> QED
    BY <2>3, <2>4 DEF Distinct
<1>5. Fits'
  <2>1. Pending' \subseteq Pending
    BY <1>1, PeerIs DEF Pending
  <2>2. IsFiniteSet(Pending) /\ Cardinality(Pending) \in Nat
    BY PendingIs
  <2>3. Cardinality(Pending') <= Cardinality(Pending) /\ Cardinality(Pending') \in Nat
    BY <2>1, <2>2, FS_Subset, FS_CardinalityType
  <2>4. /\ number["site"] <= MaxNumber["site"] + 2 * Cardinality(Orders)
        /\ number["central"] + 2 * Cardinality(Pending)
              <= MaxNumber["central"] + 2 * Cardinality(Orders)
        /\ number["central"] \in Nat /\ MaxNumber["central"] \in Nat
        /\ Cardinality(Orders) \in Nat
    BY BoundsAre, PeerIs, PendingIs DEF Base, Fits, Types
  <2> DEFINE k == Cardinality(Orders)
             c == Cardinality(Pending)
             d == Cardinality(Pending')
             n == number["central"]
             m == MaxNumber["central"]
  <2>5. n + 2 * d <= m + 2 * k
    <3>1. n + 2 * c <= m + 2 * k /\ d <= c /\ n \in Nat /\ c \in Nat /\ d \in Nat /\ k \in Nat
          /\ m \in Nat
      BY <2>2, <2>3, <2>4
    <3> HIDE DEF k, c, d, n, m
    <3> QED
      BY <3>1
  <2> QED
    BY <2>4, <2>5 DEF Fits
<1>6. Received'
  BY DEF Base, Received
<1> QED
  BY <1>2, <1>3, <1>4, <1>5, <1>6 DEF Base

-----------------------------------------------------------------------------
(* The order of the positions.                                              *)

LEMMA BeforeIs ==
  ASSUME NEW p \in Nat \X Nat, NEW q \in Nat \X Nat, NEW r \in Nat \X Nat
  PROVE  /\ Before(p, q) /\ Before(q, r) => Before(p, r)
         /\ Before(p, q) => ~Before(q, p)
         /\ ~Before(p, p)
         /\ p = q \/ Before(p, q) \/ Before(q, p)
         /\ Before(p, q) => p[1] <= q[1]
<1>1. /\ p[1] \in Nat /\ p[2] \in Nat /\ q[1] \in Nat /\ q[2] \in Nat
      /\ r[1] \in Nat /\ r[2] \in Nat
  OBVIOUS
<1>2. p[1] = q[1] /\ p[2] = q[2] => p = q
  OBVIOUS
<1> QED
  BY <1>1, <1>2 DEF Before

LEMMA PositionIs ==
  ASSUME Base, NEW e \in log["central"]
  PROVE  /\ e \in EventType /\ e.id \in Nat /\ e.id \in Ids("central")
         /\ e.xid \in Nat /\ e.xid <= number["central"]
         /\ Position(e) \in Nat \X Nat /\ Position(e)[1] = e.xid
         /\ \A f \in log["central"] : Position(e) = Position(f) => e = f
<1>1. e \in log[Peer("site")] /\ "central" \in Sides /\ "site" \in Sides /\ Peer("site") = "central"
  BY PeerIs
<1>2. e \in EventType /\ e.id \in Nat /\ e.xid \in Nat /\ e.id \in Ids("central")
  BY <1>1, EventIs
<1>3. e.xid <= number["central"]
  BY <1>1 DEF Base, Rowed, EventShape
<1>4. \A f \in log["central"] : Position(e) = Position(f) => e = f
  BY <1>1 DEF Base, Distinct, Position
<1> QED
  BY <1>2, <1>3, <1>4 DEF Position

\* Nothing of a set is before its first.
LEMMA FirstIsFirst ==
  ASSUME NEW S, IsFiniteSet(S), NEW e \in FirstOf(S, 1, ByPosition), NEW g \in S
  PROVE  ~Before(Position(g), Position(e))
<1> DEFINE T == {f \in S : ByPosition(f, e)}
<1>1. Cardinality(T) < 1
  BY DEF FirstOf
<1>2. IsFiniteSet(T) /\ Cardinality(T) \in Nat
  BY FS_Subset, FS_CardinalityType
<1>3. T = {}
  <2> HIDE DEF T
  <2> QED
    BY <1>1, <1>2, FS_EmptySet
<1> QED
  BY <1>3 DEF ByPosition

\* Nothing that did not fit is before what did.
LEMMA FirstsAreFirst ==
  ASSUME NEW S, IsFiniteSet(S), NEW n \in Nat, NEW f \in FirstOf(S, n, ByPosition),
         NEW e \in S, e \notin FirstOf(S, n, ByPosition),
         \A g \in S : Position(g) \in Nat \X Nat
  PROVE  ~Before(Position(e), Position(f))
<1> SUFFICES ASSUME Before(Position(e), Position(f)) PROVE FALSE
  OBVIOUS
<1> DEFINE T == {g \in S : ByPosition(g, e)}
           U == {g \in S : ByPosition(g, f)}
<1>1. Cardinality(U) < n /\ f \in S
  BY DEF FirstOf
<1>2. ~(Cardinality(T) < n)
  BY DEF FirstOf
<1>3. T \subseteq U
  BY <1>1, BeforeIs DEF ByPosition
<1>4. IsFiniteSet(U)
  BY FS_Subset
<1> HIDE DEF T, U
<1>5. Cardinality(T) <= Cardinality(U) /\ Cardinality(T) \in Nat /\ Cardinality(U) \in Nat
  BY <1>3, <1>4, FS_Subset, FS_CardinalityType
<1> QED
  BY <1>1, <1>2, <1>5

-----------------------------------------------------------------------------
(* The transport relies on the databases in a few things only.              *)

LEMMA RequestsGrow ==
  ASSUME NEW L, NEW M, L \subseteq M
  PROVE  PushType(L) \subseteq PushType(M) /\ PullType(L) \subseteq PullType(M)
  BY DEF PushType, PullType

OutcomesKept == \A r \in Sides, k \in Nat : inbox[r][k] \in Outcomes => inbox'[r][k] \in Outcomes

LEMMA DatabaseStep ==
  ASSUME Base, Carried, UNCHANGED transport, OutcomesKept,
         \A s \in Sides : log[s] \subseteq log'[s] /\ log'[s] \subseteq EventType,
         \A e \in log'["central"] \ log["central"] :
            \E o \in Orders : tx["central"][o] # NoTx /\ e.xid = tx["central"][o].xid,
         \A o \in Orders : tx'["central"][o] # NoTx =>
            \/ tx["central"][o] # NoTx /\ tx'["central"][o].xid = tx["central"][o].xid
            \/ tx'["central"][o].xid = number["central"] + 1,
         number'["central"] \in Nat, number'["central"] >= number["central"]
  PROVE  Carried'
<1>0. /\ UNCHANGED <<pushed, refused, push, orphan, pull, cursor, letters>>
      /\ TransportTypes /\ Decided /\ Passes(cursor) /\ (pull.on => Passes(pull.at) /\ Ahead)
  BY DEF transport, Carried
<1>1. TransportTypes'
  <2>1. log["site"] \subseteq log'["site"] /\ log["central"] \subseteq log'["central"]
    BY PeerIs
  <2> QED
    BY <1>0, <2>1, RequestsGrow DEF TransportTypes
<1>2. Decided'
  <2>1. \A i \in Ids("site") : i \in Nat
    BY DEF Ids
  <2>2. pushed \cup push.delivered \subseteq Ids("site")
    BY <1>0 DEF TransportTypes, PushType
  <2> QED
    BY <1>0, <2>1, <2>2, PeerIs DEF Decided, OutcomesKept
<1>3. /\ number["central"] \in Nat
      /\ \A e \in log'["central"] : e.id \in Nat /\ e.xid \in Nat
  BY PeerIs DEF Base, Types, EventType
<1>4. \A e \in log["central"] : Held(e) => Held(e)'
  BY <1>0, <1>3, PeerIs DEF Held, OutcomesKept
<1>5. ASSUME NEW at \in Nat \X Nat, Passes(at) PROVE Passes(at)'
  <2>1. ASSUME NEW e \in log'["central"], ~Before(at, Position(e)) PROVE Held(e)'
    <3>1. CASE e \in log["central"]
      BY <1>4, <1>5, <2>1, <3>1 DEF Passes
    <3>2. CASE e \notin log["central"]
      <4>1. PICK o \in Orders : tx["central"][o] # NoTx /\ e.xid = tx["central"][o].xid
        BY <2>1, <3>2
      <4>2. at[1] < e.xid
        BY <1>5, <4>1 DEF Passes
      <4> QED
        BY <2>1, <4>2 DEF Before, Position
    <3> QED
      BY <3>1, <3>2
  <2>2. ASSUME NEW o \in Orders, tx'["central"][o] # NoTx PROVE at[1] < tx'["central"][o].xid
    BY <1>3, <1>5, <2>2 DEF Passes
  <2>3. at[1] <= number'["central"]
    BY <1>3, <1>5 DEF Passes
  <2> QED
    BY <2>1, <2>2, <2>3 DEF Passes
<1>6. cursor \in Nat \X Nat /\ pull.at \in Nat \X Nat /\ pull.left \subseteq log["central"]
  BY <1>0 DEF TransportTypes, PullType
<1>7. pull.on => Ahead'
  <2> SUFFICES ASSUME pull.on PROVE Ahead'
    OBVIOUS
  <2>1. Ahead
    BY <1>0
  <2>2. ASSUME NEW e \in log'["central"] \ pull.left, Before(pull.at, Position(e)),
               NEW f \in pull.left
        PROVE  Before(Position(f), Position(e))
    <3>1. CASE e \in log["central"]
      BY <2>1, <2>2, <3>1 DEF Ahead
    <3>2. CASE e \notin log["central"]
      <4>1. PICK o \in Orders : tx["central"][o] # NoTx /\ e.xid = tx["central"][o].xid
        BY <2>2, <3>2
      <4>2. f.xid < e.xid
        BY <2>1, <2>2, <4>1 DEF Ahead
      <4> QED
        BY <4>2 DEF Before, Position
    <3> QED
      BY <3>1, <3>2
  <2>3. ASSUME NEW f \in pull.left, NEW o \in Orders, tx'["central"][o] # NoTx
        PROVE  f.xid < tx'["central"][o].xid
    <3>1. f.xid \in Nat /\ f.xid <= number["central"]
      BY <1>6, PositionIs
    <3> QED
      BY <1>3, <2>1, <2>3, <3>1 DEF Ahead
  <2> QED
    BY <1>0, <2>1, <2>2, <2>3 DEF Ahead
<1>8. Passes(cursor)' /\ (pull.on => Passes(pull.at)')
  BY <1>0, <1>5, <1>6
<1> QED
  BY <1>0, <1>1, <1>2, <1>7, <1>8 DEF Carried

-----------------------------------------------------------------------------
(* The steps of the databases.                                              *)

\* What a recording transaction is given.
MayRecord(s, o, t) ==
    /\ t \in TxType /\ t.kind \in Kinds /\ tx[s][o].id = 0 /\ Record(s, o, t)
    /\ t.kind = "create" => copy[s][o].status = "absent" /\ Home[o] = s
    /\ t.kind # "create" => copy[s][o].status = "open"
    /\ s = "central" => /\ t.xid \in 1..number["central"]
                        /\ tx["central"][o] # NoTx
                        /\ t.xid = tx["central"][o].xid
    /\ s = "site" => number["site"] < MaxNumber["site"]

LEMMA MayRecordCentral ==
  ASSUME Base, NEW o \in Orders, RecordCentral(o)
  PROVE  MayRecord("central", o, tx["central"][o])
<1>1. /\ tx["central"][o] # NoTx /\ tx["central"][o].id = 0
      /\ Record("central", o, tx["central"][o])
  BY DEF RecordCentral
<1>2. tx["central"][o] \in TxType /\ Holds("central", o)
  BY PeerIs DEF Base, Types, Rowed
<1>3. /\ tx["central"][o].kind \in Kinds
      /\ tx["central"][o].kind = "create" =>
            copy["central"][o].status = "absent" /\ Home[o] = "central"
      /\ tx["central"][o].kind # "create" => copy["central"][o].status = "open"
      /\ tx["central"][o].xid \in 1..number["central"]
  BY <1>1, <1>2 DEF Holds
<1> QED
  BY <1>1, <1>2, <1>3 DEF MayRecord

LEMMA MayRecordSite ==
  ASSUME Base, NEW o \in Orders, NEW kind \in Kinds, RecordSite(o, kind)
  PROVE  MayRecord("site", o, [NoTx EXCEPT !.kind = kind])
<1> DEFINE t == [NoTx EXCEPT !.kind = kind]
<1>1. /\ Record("site", o, t) /\ tx["site"][o] = NoTx /\ number["site"] < MaxNumber["site"]
      /\ kind = "create" => copy["site"][o].status = "absent" /\ Home[o] = "site"
      /\ kind # "create" => copy["site"][o].status = "open"
  BY DEF RecordSite, MayChange
<1>2. t \in TxType /\ t.kind = kind
  BY NoTxIs DEF TxType
<1>3. tx["site"][o].id = 0
  BY <1>1, NoTxIs
<1> HIDE DEF t
<1>4. MayRecord("site", o, t)
  BY <1>1, <1>2, <1>3 DEF MayRecord
<1> QED
  BY <1>4 DEF t

LEMMA RecordInv ==
  ASSUME Base, Carried, NEW s \in Sides, NEW o \in Orders, NEW t, MayRecord(s, o, t)
  PROVE  Base' /\ Carried'
<1>1. /\ t \in TxType /\ t.kind \in Kinds /\ tx[s][o].id = 0 /\ Record(s, o, t)
      /\ t.kind = "create" => copy[s][o].status = "absent" /\ Home[o] = s
      /\ t.kind # "create" => copy[s][o].status = "open"
      /\ s = "central" => t.xid \in 1..number["central"] /\ tx["central"][o] # NoTx
      /\ s = "central" => t.xid = tx["central"][o].xid
      /\ s = "site" => number["site"] < MaxNumber["site"]
  BY DEF MayRecord
<1>2. Base'
  BY <1>1, RecordBase
<1>3. /\ number' \in [Sides -> Nat]
      /\ number'[s] = number[s] + (IF t.kind = "pay" THEN 2 ELSE 1)
      /\ \A r \in Sides : r # s => number'[r] = number[r]
      /\ tx'[s][o].xid = t.xid
      /\ \A r \in Sides, p \in Orders : r # s \/ p # o => tx'[r][p] = tx[r][p]
      /\ UNCHANGED <<floor, copy, log, inbox, known, transport, faults>>
  BY <1>1, RecordIs
<1>4. \A p \in Orders : tx'["central"][p] # NoTx =>
         tx["central"][p] # NoTx /\ tx'["central"][p].xid = tx["central"][p].xid
  <2>1. ASSUME NEW p \in Orders, tx'["central"][p] # NoTx
        PROVE  tx["central"][p] # NoTx /\ tx'["central"][p].xid = tx["central"][p].xid
    <3>1. CASE s = "central" /\ p = o
      BY <1>1, <1>3, <3>1
    <3>2. CASE s # "central" \/ p # o
      BY <1>3, <2>1, <3>2, PeerIs
    <3> QED
      BY <3>1, <3>2
  <2> QED
    BY <2>1
<1>5. number'["central"] \in Nat /\ number'["central"] >= number["central"]
  <2>1. number["central"] \in Nat /\ number'["central"] \in Nat
    BY <1>3, PeerIs DEF Base, Types
  <2>2. CASE s = "central"
    BY <1>3, <2>1, <2>2
  <2>3. CASE s # "central"
    BY <1>3, <2>1, <2>3, PeerIs
  <2> QED
    BY <2>1, <2>2, <2>3
<1>6. OutcomesKept /\ \A r \in Sides : log[r] \subseteq log'[r] /\ log'[r] \subseteq EventType
  BY <1>3 DEF OutcomesKept, Base, Types
<1>7. Carried'
  BY <1>3, <1>4, <1>5, <1>6, DatabaseStep
<1> QED
  BY <1>2, <1>7

LEMMA BeginInv ==
  ASSUME Base, Carried, NEW o \in Orders, NEW kind \in Kinds, Begin(o, kind)
  PROVE  Base' /\ Carried'
<1>1. /\ number' \in [Sides -> Nat] /\ number'["central"] = number["central"] + 1
      /\ tx'["central"][o].xid = number["central"] + 1
      /\ \A r \in Sides, p \in Orders : r # "central" \/ p # o => tx'[r][p] = tx[r][p]
      /\ UNCHANGED <<now, floor, copy, log, inbox, known, transport, faults>>
  BY BeginIs
<1>2. number["central"] \in Nat /\ number'["central"] \in Nat
  BY <1>1, PeerIs DEF Base, Types
<1>3. OutcomesKept /\ \A r \in Sides : log[r] \subseteq log'[r] /\ log'[r] \subseteq EventType
  BY <1>1 DEF OutcomesKept, Base, Types
<1>4. \A p \in Orders : tx'["central"][p] # NoTx =>
         \/ tx["central"][p] # NoTx /\ tx'["central"][p].xid = tx["central"][p].xid
         \/ tx'["central"][p].xid = number["central"] + 1
  BY <1>1, PeerIs
<1>5. Carried'
  BY <1>1, <1>2, <1>3, <1>4, DatabaseStep
<1> QED
  BY <1>5, BeginBase

LEMMA CommitInv ==
  ASSUME Base, Carried, NEW s \in Sides, NEW o \in Orders, Commit(s, o)
  PROVE  Base' /\ Carried'
<1>1. /\ tx[s][o].id # 0
      /\ log' \in [Sides -> SUBSET EventType]
      /\ log'[s] = log[s] \cup Recorded(s, o)
      /\ \A r \in Sides : r # s => log'[r] = log[r]
      /\ tx'[s][o] = NoTx
      /\ \A r \in Sides, p \in Orders : r # s \/ p # o => tx'[r][p] = tx[r][p]
      /\ UNCHANGED <<now, floor, number, inbox, known, transport, faults>>
  BY CommitIs
<1>2. tx[s][o] # NoTx /\ \A e \in Recorded(s, o) : e.xid = tx[s][o].xid
  <2>1. tx[s][o] # NoTx
    BY <1>1, ChangedIs
  <2>2. \A e \in Recorded(s, o) : e.xid = tx[s][o].xid
    BY <1>1, RecordedIs
  <2> QED
    BY <2>1, <2>2
<1>3. OutcomesKept /\ \A r \in Sides : log[r] \subseteq log'[r] /\ log'[r] \subseteq EventType
  BY <1>1 DEF OutcomesKept
<1>4. \A p \in Orders : tx'["central"][p] # NoTx =>
         tx["central"][p] # NoTx /\ tx'["central"][p].xid = tx["central"][p].xid
  BY <1>1, PeerIs
<1>5. \A e \in log'["central"] \ log["central"] :
         \E p \in Orders : tx["central"][p] # NoTx /\ e.xid = tx["central"][p].xid
  BY <1>1, <1>2, PeerIs
<1>6. number'["central"] \in Nat /\ number'["central"] >= number["central"]
  BY <1>1, PeerIs DEF Base, Types
<1>7. Carried'
  BY <1>1, <1>3, <1>4, <1>5, <1>6, DatabaseStep
<1> QED
  BY <1>7, CommitBase

\* A step that leaves the transactions, the events and the transport alone.
LEMMA ElsewhereCarried ==
  ASSUME Base, Carried, UNCHANGED <<number, tx, log, transport>>, OutcomesKept
  PROVE  Carried'
<1>1. \A r \in Sides : log[r] \subseteq log'[r] /\ log'[r] \subseteq EventType
  BY DEF Base, Types
<1>2. number'["central"] \in Nat /\ number'["central"] >= number["central"]
  BY PeerIs DEF Base, Types
<1> QED
  BY <1>1, <1>2, DatabaseStep

LEMMA ArrivesInv ==
  ASSUME Base, Carried, NEW s \in Sides, NEW o \in Orders, MasterArrives(s, o)
  PROVE  Base' /\ Carried'
<1>1. UNCHANGED <<number, tx, log, transport>> /\ UNCHANGED inbox
  BY DEF MasterArrives
<1>2. OutcomesKept
  BY <1>1 DEF OutcomesKept
<1> QED
  BY <1>1, <1>2, ArrivesBase, ElsewhereCarried

LEMMA ReconcileInv ==
  ASSUME Base, Carried, NEW s \in Sides, NEW e \in log[Peer(s)], Reconcile(s, e)
  PROVE  Base' /\ Carried'
<1>1. Receive(s, e, "dead", TRUE) /\ UNCHANGED <<number, tx, log, known, transport>>
  BY DEF Reconcile
<1>2. "dead" \in {"dead", "stuck"} /\ TRUE \in BOOLEAN /\ UNCHANGED Local
  BY <1>1 DEF Local
<1>3. Base'
  BY <1>1, <1>2, ReceiveBase
<1>4. OutcomesKept
  BY <1>1, <1>2, OutcomesStay DEF OutcomesKept
<1> QED
  BY <1>1, <1>3, <1>4, ElsewhereCarried

LEMMA LetterInv ==
  ASSUME Base, Carried, NEW s \in Sides, NEW e \in log[Peer(s)],
         RetryLetter(s, e) \/ DiscardLetter(s, e)
  PROVE  Base' /\ Carried'
<1>1. /\ UNCHANGED <<now, floor, number, copy, tx, log, known, transport, faults>>
      /\ inbox'[s][e.id] \in {"deferred", "discarded"}
      /\ \A r \in Sides, k \in Nat : r # s \/ k # e.id => inbox'[r][k] = inbox[r][k]
  BY LetterIs
<1>2. OutcomesKept
  BY <1>1 DEF OutcomesKept, Outcomes
<1> QED
  BY <1>1, <1>2, LetterBase, ElsewhereCarried

-----------------------------------------------------------------------------
(* The steps of the transport.                                              *)

LEMMA CarriedIs ==
  ASSUME Base, Carried
  PROVE  /\ push.on \in BOOLEAN /\ push.left \subseteq log["site"]
         /\ push.delivered \subseteq Ids("site") /\ push.refused \subseteq Ids("site")
         /\ pull.on \in BOOLEAN /\ pull.left \subseteq log["central"]
         /\ pull.at \in Nat \X Nat /\ pull.failed \in BOOLEAN
         /\ cursor \in Nat \X Nat
         /\ IsFiniteSet(log["central"]) /\ IsFiniteSet(pull.left)
<1>1. push \in PushType(log["site"]) /\ pull \in PullType(log["central"]) /\ cursor \in Nat \X Nat
  BY DEF Carried, TransportTypes
<1>2. IsFiniteSet(log["central"])
  BY PeerIs DEF Base, Rowed
<1>3. pull.left \subseteq log["central"]
  BY <1>1 DEF PullType
<1>4. IsFiniteSet(pull.left)
  BY <1>2, <1>3, FS_Subset
<1> QED
  BY <1>1, <1>2, <1>3, <1>4 DEF PushType, PullType

LEMMA SiteIdIs ==
  ASSUME Base, NEW e \in log["site"]
  PROVE  e.id \in Ids("site") /\ e.id \in Nat
<1>1. e \in log[Peer("central")] /\ "central" \in Sides /\ Peer("central") = "site"
  BY PeerIs
<1> QED
  BY <1>1, EventIs

LEMMA IdleIs == \A L : Idle \in PushType(L) /\ NoPull \in PullType(L) /\ ~NoPull.on
                       /\ NoPull.left = {} /\ Idle.delivered = {}
  BY DEF Idle, NoPull, PushType, PullType

\* What is held stays held while outcomes and letters stay.
LettersKept == \A i \in Ids("central") : letters[i] # "none" => letters'[i] # "none"

LEMMA HeldStays ==
  ASSUME Base, OutcomesKept, LettersKept, UNCHANGED log
  PROVE  \A e \in log["central"] : Held(e) => Held(e)'
<1>1. \A e \in log["central"] : e.id \in Ids("central") /\ e.id \in Nat
  BY PositionIs
<1> QED
  BY <1>1, PeerIs DEF Held, OutcomesKept, LettersKept

LEMMA PassesStays ==
  ASSUME NEW at, Passes(at), UNCHANGED <<number, tx, log>>,
         \A e \in log["central"] : Held(e) => Held(e)'
  PROVE  Passes(at)'
  BY DEF Passes

LEMMA DecidedStays ==
  ASSUME OutcomesKept, Decided, NEW marks, marks \subseteq Ids("site"),
         \A i \in marks : i \in pushed \cup push.delivered \/ inbox'["central"][i] \in Outcomes
  PROVE  \A i \in marks : inbox'["central"][i] \in Outcomes
<1>1. \A i \in marks : i \in Nat
  BY DEF Ids
<1> QED
  BY <1>1, PeerIs DEF OutcomesKept, Decided

\* A step that leaves the pull's page and the transactions alone.
LEMMA PullKept ==
  ASSUME Base, Carried, OutcomesKept, LettersKept,
         UNCHANGED <<number, tx, log, pull, cursor>>
  PROVE  Passes(cursor)' /\ (pull'.on => Passes(pull.at)' /\ Ahead')
<1>1. \A e \in log["central"] : Held(e) => Held(e)'
  BY HeldStays
<1>2. Passes(cursor)'
  BY <1>1, PassesStays DEF Carried, Passes
<1>3. pull.on => Passes(pull.at)'
  BY <1>1 DEF Carried, Passes
<1>4. pull.on => Ahead'
  BY DEF Carried, Ahead
<1> QED
  BY <1>2, <1>3, <1>4

LEMMA StartPushInv ==
  ASSUME Base, Carried, NEW late \in SUBSET refused, StartPush(late)
  PROVE  Base' /\ Carried'
<1> DEFINE due == {e \in log["site"] : e.id \notin pushed \cup late}
           left == FirstOf(due, BatchSize, ById)
           r == [Idle EXCEPT !.on = TRUE, !.left = left]
<1>1. /\ push' = r
      /\ UNCHANGED <<now, floor, copy, inbox, number, tx, log, known, faults>>
      /\ UNCHANGED <<pushed, refused, orphan, pull, cursor, letters>>
  BY DEF StartPush, clock, Local
<1>2. left \subseteq log["site"]
  BY FirstIsIn
<1> HIDE DEF left
<1>3. r \in PushType(log["site"]) /\ r.delivered = {}
  BY <1>2, IdleIs DEF PushType
<1> HIDE DEF r
<1>4. Base'
  BY <1>1, KeptBase DEF Databases, Base, Types
<1>5. TransportTypes'
  BY <1>1, <1>3 DEF Carried, TransportTypes
<1>6. Decided'
  BY <1>1, <1>3 DEF Carried, Decided
<1>7. Passes(cursor)' /\ (pull'.on => Passes(pull.at)' /\ Ahead')
  BY <1>1, PullKept DEF OutcomesKept, LettersKept
<1> QED
  BY <1>1, <1>4, <1>5, <1>6, <1>7 DEF Carried

LEMMA ServePushInv ==
  ASSUME Base, Carried, ServePush
  PROVE  Base' /\ Carried'
<1>1. PICK e \in FirstOf(push.left, 1, ById), ok \in BOOLEAN :
         /\ Receive("central", e, "dead", ok)
         /\ push' = [push EXCEPT !.left = @ \ {e},
                                 !.delivered = IF ok THEN @ \cup {e.id} ELSE @,
                                 !.refused = IF ok THEN @ ELSE @ \cup {e.id}]
         /\ UNCHANGED <<Local, pushed, refused, orphan, pull, cursor, letters>>
  BY DEF ServePush
<1>2. e \in log["site"] /\ e \in log[Peer("central")] /\ "central" \in Sides
  BY CarriedIs, FirstIsIn, PeerIs
<1>3. "dead" \in {"dead", "stuck"} /\ UNCHANGED <<number, tx, log, known>>
  BY <1>1 DEF Local
<1>4. Base'
  BY <1>1, <1>2, <1>3, ReceiveBase
<1>5. OutcomesKept
  BY <1>1, <1>2, <1>3, OutcomesStay DEF OutcomesKept
<1>6. ok => inbox'["central"][e.id] \in Outcomes
  BY <1>1, <1>2, <1>3, ReceiveIs
<1> DEFINE left == push.left \ {e}
           delivered == IF ok THEN push.delivered \cup {e.id} ELSE push.delivered
           none == IF ok THEN push.refused ELSE push.refused \cup {e.id}
           r == [push EXCEPT !.left = left, !.delivered = delivered, !.refused = none]
<1>7. push' = r
  BY <1>1
<1>8. /\ left \subseteq log["site"] /\ delivered \subseteq Ids("site")
      /\ none \subseteq Ids("site")
  BY <1>2, SiteIdIs, CarriedIs
<1>9. push \in PushType(log["site"])
  BY DEF Carried, TransportTypes
<1>10. \A i \in delivered : i \in push.delivered \/ (ok /\ i = e.id)
  OBVIOUS
<1> HIDE DEF left, delivered, none
<1>11. r \in PushType(log["site"]) /\ r.delivered = delivered
  BY <1>8, <1>9 DEF PushType
<1> HIDE DEF r
<1>12. TransportTypes'
  BY <1>1, <1>3, <1>7, <1>11 DEF Carried, TransportTypes
<1>13. Decided'
  <2>1. pushed \cup delivered \subseteq Ids("site")
    BY <1>8 DEF Carried, TransportTypes
  <2>2. \A i \in pushed \cup delivered :
           i \in pushed \cup push.delivered \/ inbox'["central"][i] \in Outcomes
    BY <1>6, <1>10
  <2>3. \A i \in pushed \cup delivered : inbox'["central"][i] \in Outcomes
    BY <1>5, <2>1, <2>2, DecidedStays DEF Carried
  <2> QED
    BY <1>1, <1>7, <1>11, <2>3 DEF Decided
<1>14. Passes(cursor)' /\ (pull'.on => Passes(pull.at)' /\ Ahead')
  BY <1>1, <1>3, <1>5, PullKept DEF LettersKept
<1> QED
  BY <1>1, <1>4, <1>12, <1>13, <1>14 DEF Carried

LEMMA ServeOrphanInv ==
  ASSUME Base, Carried, ServeOrphan
  PROVE  Base' /\ Carried'
<1>1. PICK e \in FirstOf(orphan, 1, ById), ok \in BOOLEAN :
         /\ Receive("central", e, "dead", ok)
         /\ orphan' = orphan \ {e}
         /\ UNCHANGED <<Local, pushed, refused, push, pull, cursor, letters>>
  BY DEF ServeOrphan
<1>2. e \in log[Peer("central")] /\ "central" \in Sides
  BY FirstIsIn, PeerIs DEF Carried, TransportTypes
<1>3. "dead" \in {"dead", "stuck"} /\ UNCHANGED <<number, tx, log, known>>
  BY <1>1 DEF Local
<1>4. Base'
  BY <1>1, <1>2, <1>3, ReceiveBase
<1>5. OutcomesKept
  BY <1>1, <1>2, <1>3, OutcomesStay DEF OutcomesKept
<1>6. TransportTypes'
  BY <1>1, <1>3 DEF Carried, TransportTypes
<1>7. Decided'
  <2>1. pushed \cup push.delivered \subseteq Ids("site")
    BY CarriedIs DEF Carried, TransportTypes
  <2> QED
    BY <1>1, <1>5, <2>1, DecidedStays DEF Carried, Decided
<1>8. Passes(cursor)' /\ (pull'.on => Passes(pull.at)' /\ Ahead')
  BY <1>1, <1>3, <1>5, PullKept DEF LettersKept
<1> QED
  BY <1>1, <1>4, <1>6, <1>7, <1>8 DEF Carried

\* The answer arrived, or is given up.
LEMMA EndPushInv ==
  ASSUME Base, Carried, UNCHANGED <<now, floor, copy, inbox, number, tx, log, known>>,
         UNCHANGED <<pull, cursor, letters>>, faults' \in Nat, push' = Idle,
         pushed' \subseteq pushed \cup push.delivered, refused' \subseteq refused \cup push.refused,
         orphan' \in {orphan, push.left}
  PROVE  Base' /\ Carried'
<1>1. Base'
  BY KeptBase DEF Databases
<1>2. OutcomesKept /\ LettersKept
  BY DEF OutcomesKept, LettersKept
<1>3. TransportTypes'
  BY CarriedIs, IdleIs DEF Carried, TransportTypes
<1>4. Decided'
  BY IdleIs DEF Carried, Decided
<1>5. Passes(cursor)' /\ (pull'.on => Passes(pull.at)' /\ Ahead')
  BY <1>2, PullKept
<1> QED
  BY <1>1, <1>3, <1>4, <1>5 DEF Carried

LEMMA FinishPushInv ==
  ASSUME Base, Carried, FinishPush
  PROVE  Base' /\ Carried'
<1>1. /\ UNCHANGED <<now, floor, copy, inbox, number, tx, log, known>>
      /\ UNCHANGED <<pull, cursor, letters>> /\ faults' \in Nat
      /\ push' = Idle /\ orphan' = orphan
      /\ pushed' = pushed \cup push.delivered
      /\ refused' = (refused \cup push.refused) \ push.delivered
  BY DEF FinishPush, clock, Local, Base, Types
<1> QED
  BY <1>1, EndPushInv

LEMMA GiveUpPushInv ==
  ASSUME Base, Carried, GiveUpPush
  PROVE  Base' /\ Carried'
<1>1. /\ UNCHANGED <<now, floor, copy, inbox, number, tx, log, known>>
      /\ UNCHANGED <<pull, cursor, letters>> /\ faults' \in Nat
      /\ push' = Idle /\ orphan' \in {orphan, push.left}
      /\ pushed' = pushed /\ refused' = refused
  BY DEF GiveUpPush, clock, Local, Fault, Base, Types
<1> QED
  BY <1>1, EndPushInv

\* The pull begins at the cursor with the first of the page.
LEMMA StartPullInv ==
  ASSUME Base, Carried, StartPull
  PROVE  Base' /\ Carried'
<1> DEFINE page == {e \in log["central"] : Before(cursor, Position(e)) /\ BelowXmin(e.xid)}
           left == FirstOf(page, BatchSize, ByPosition)
           at == cursor
           r == [NoPull EXCEPT !.on = TRUE, !.left = left, !.at = at]
<1>1. /\ pull' = r
      /\ UNCHANGED <<now, floor, copy, inbox, number, tx, log, known, faults>>
      /\ UNCHANGED <<pushed, refused, push, orphan, cursor, letters>>
  BY DEF StartPull, clock, Local
<1>2. left \subseteq page /\ page \subseteq log["central"] /\ IsFiniteSet(page)
  BY FirstIsIn, CarriedIs, FS_Subset
<1>3. at \in Nat \X Nat /\ at = cursor
  BY CarriedIs
<1>4. \A f \in left : Before(cursor, Position(f)) /\ BelowXmin(f.xid)
  BY <1>2
<1>5. ASSUME NEW e \in log["central"] \ left, Before(cursor, Position(e)), NEW f \in left
      PROVE  Before(Position(f), Position(e))
  <2>1. /\ f \in log["central"] /\ e # f
        /\ Position(e) \in Nat \X Nat /\ Position(f) \in Nat \X Nat /\ Position(e) # Position(f)
        /\ e.xid \in Nat /\ f.xid \in Nat
    BY <1>2, <1>5, PositionIs
  <2>2. CASE BelowXmin(e.xid)
    <3>1. e \in page /\ e \notin left
      BY <1>5, <2>2
    <3>2. BatchSize \in Nat /\ \A g \in page : Position(g) \in Nat \X Nat
      BY <1>2, PositionIs, SyncAssumption
    <3>3. ~Before(Position(e), Position(f))
      BY <1>2, <3>1, <3>2, FirstsAreFirst
    <3> QED
      BY <2>1, <3>3, BeforeIs
  <2>3. CASE ~BelowXmin(e.xid)
    <3>1. PICK o \in Orders : tx["central"][o] # NoTx /\ ~(e.xid < tx["central"][o].xid)
      BY <2>3 DEF BelowXmin
    <3>2. f.xid < tx["central"][o].xid
      BY <1>4, <3>1 DEF BelowXmin
    <3>3. tx["central"][o].xid \in Nat
      BY PeerIs DEF Base, Types, TxType
    <3>4. f.xid < e.xid
      BY <2>1, <3>1, <3>2, <3>3
    <3> QED
      BY <3>4 DEF Before, Position
  <2> QED
    BY <2>2, <2>3
<1>6. \A f \in left, o \in Orders : tx["central"][o] # NoTx => f.xid < tx["central"][o].xid
  BY <1>4 DEF BelowXmin
<1> HIDE DEF left, at
<1>7. /\ r \in PullType(log["central"]) /\ r.on = TRUE /\ r.left = left /\ r.at = at
  BY <1>2, <1>3, IdleIs DEF PullType
<1> HIDE DEF r
<1>8. Base'
  BY <1>1, KeptBase DEF Databases, Base, Types
<1>9. TransportTypes'
  BY <1>1, <1>7 DEF Carried, TransportTypes
<1>10. Decided'
  BY <1>1 DEF Carried, Decided
<1>11. \A e \in log["central"] : Held(e) => Held(e)'
  BY <1>1 DEF Held
<1>12. Passes(cursor)' /\ Passes(pull.at)'
  <2>1. Passes(cursor) /\ cursor' = cursor /\ pull'.at = cursor
    BY <1>1, <1>3, <1>7 DEF Carried
  <2> QED
    BY <1>1, <1>11, <2>1 DEF Passes
<1>13. Ahead'
  BY <1>1, <1>3, <1>4, <1>5, <1>6, <1>7 DEF Ahead
<1> QED
  BY <1>8, <1>9, <1>10, <1>12, <1>13 DEF Carried

\* The position passes the first of the page.
LEMMA PassedIs ==
  ASSUME Base, Carried, NEW e \in FirstOf(pull.left, 1, ByPosition), pull' = Passed(e),
         UNCHANGED <<number, tx, log, cursor>>, OutcomesKept, LettersKept, Held(e)'
  PROVE  /\ pull' \in PullType(log["central"])
         /\ pull'.left # {} => pull'.on
         /\ Passes(cursor)' /\ Passes(pull.at)' /\ Ahead'
<1>1. /\ e \in pull.left /\ pull.left \subseteq log["central"] /\ IsFiniteSet(pull.left)
      /\ pull.at \in Nat \X Nat /\ pull \in PullType(log["central"]) /\ pull.on
  BY FirstIsIn, CarriedIs DEF Carried, TransportTypes
<1> DEFINE left == pull.left \ {e}
           at == Position(e)
           r == [pull EXCEPT !.left = left, !.at = at, !.failed = FALSE]
<1>2. /\ at \in Nat \X Nat /\ at[1] = e.xid /\ e.xid <= number["central"]
      /\ \A g \in log["central"] : Position(g) \in Nat \X Nat /\ (Position(g) = at => g = e)
  BY <1>1, PositionIs
<1>3. pull' = r /\ left \subseteq log["central"] /\ e \notin left
  BY <1>1 DEF Passed
<1>4. \A g \in pull.left : g = e \/ (g \in left /\ Before(at, Position(g)))
  <2>1. ASSUME NEW g \in pull.left, g # e PROVE Before(at, Position(g))
    <3>1. ~Before(Position(g), Position(e))
      BY <1>1, FirstIsFirst
    <3>2. Position(g) \in Nat \X Nat /\ Position(g) # at
      BY <1>1, <1>2, <2>1
    <3> QED
      BY <1>2, <3>1, <3>2, BeforeIs
  <2> QED
    BY <2>1
<1>5. Passes(pull.at) /\ Ahead /\ Passes(cursor)
  BY <1>1 DEF Carried
<1>6. \A g \in log["central"] : Held(g) => Held(g)'
  BY HeldStays
<1>7. ASSUME NEW g \in log["central"], ~Before(at, Position(g)) PROVE Held(g)'
  <2>1. CASE g = e
    BY <2>1
  <2>2. CASE g # e /\ ~Before(pull.at, Position(g))
    BY <1>5, <1>6, <2>2 DEF Passes
  <2>3. CASE g # e /\ Before(pull.at, Position(g))
    <3>1. g \notin pull.left
      BY <1>4, <1>7, <2>3
    <3>2. Before(at, Position(g))
      BY <1>1, <1>5, <2>3, <3>1 DEF Ahead
    <3> QED
      BY <1>7, <3>2
  <2> QED
    BY <2>1, <2>2, <2>3
<1>8. \A o \in Orders : tx["central"][o] # NoTx => at[1] < tx["central"][o].xid
  BY <1>1, <1>2, <1>5 DEF Ahead
<1>9. \A f \in left : Before(at, Position(f)) /\ f \in pull.left
  BY <1>4
<1>10. ASSUME NEW g \in log["central"] \ left, Before(at, Position(g)), NEW f \in left
       PROVE  Before(Position(f), Position(g))
  <2>1. g # e /\ g \notin pull.left
    BY <1>2, <1>4, <1>10, BeforeIs
  <2>2. Before(pull.at, Position(e))
    BY <1>1, <1>5 DEF Ahead
  <2>3. Before(pull.at, Position(g))
    BY <1>1, <1>2, <1>10, <2>2, BeforeIs
  <2> QED
    BY <1>5, <1>9, <2>1, <2>3 DEF Ahead
<1> HIDE DEF left, at
<1>11. /\ r \in PullType(log["central"]) /\ r.on = pull.on /\ r.left = left /\ r.at = at
  BY <1>1, <1>2, <1>3 DEF PullType
<1> HIDE DEF r
<1>12. /\ pull'.on = pull.on /\ pull'.left = left /\ pull'.at = at
       /\ pull' \in PullType(log["central"])
  BY <1>3, <1>11
<1>13. Passes(cursor)'
  BY <1>5, <1>6 DEF Passes
<1>14. Passes(pull.at)'
  BY <1>2, <1>7, <1>8, <1>12 DEF Passes
<1>15. Ahead'
  <2>1. \A f \in left, o \in Orders : tx["central"][o] # NoTx => f.xid < tx["central"][o].xid
    BY <1>5, <1>9 DEF Ahead
  <2> QED
    BY <1>9, <1>10, <1>12, <2>1 DEF Ahead
<1> QED
  BY <1>1, <1>12, <1>13, <1>14, <1>15

LEMMA PullEventInv ==
  ASSUME Base, Carried, PullEvent
  PROVE  Base' /\ Carried'
<1>1. PICK e \in FirstOf(pull.left, 1, ByPosition), ok \in BOOLEAN :
         /\ Receive("site", e, "dead", ok)
         /\ pull' = IF ok THEN Passed(e) ELSE [pull EXCEPT !.failed = TRUE]
         /\ UNCHANGED <<Local, pushed, refused, push, orphan, cursor, letters>>
  BY DEF PullEvent
<1>2. /\ e \in log["central"] /\ e \in log[Peer("site")] /\ "site" \in Sides
      /\ "dead" \in {"dead", "stuck"} /\ UNCHANGED <<number, tx, log, known>>
  BY <1>1, CarriedIs, FirstIsIn, PeerIs DEF Local
<1>3. Base'
  BY <1>1, <1>2, ReceiveBase
<1>4. OutcomesKept /\ LettersKept
  BY <1>1, <1>2, OutcomesStay DEF OutcomesKept, LettersKept
<1>5. ok => inbox'["site"][e.id] \in Outcomes
  BY <1>1, <1>2, ReceiveIs
<1>6. Decided'
  <2>1. pushed \cup push.delivered \subseteq Ids("site")
    BY CarriedIs DEF Carried, TransportTypes
  <2> QED
    BY <1>1, <1>4, <2>1, DecidedStays DEF Carried, Decided
<1>7. CASE ok
  <2>1. Held(e)' /\ pull' = Passed(e)
    BY <1>1, <1>5, <1>7 DEF Held
  <2>2. /\ pull' \in PullType(log["central"])
        /\ pull'.left # {} => pull'.on
        /\ Passes(cursor)' /\ Passes(pull.at)' /\ Ahead'
    BY <1>1, <1>2, <1>4, <2>1, PassedIs
  <2>3. TransportTypes'
    BY <1>1, <1>2, <2>2 DEF Carried, TransportTypes
  <2> QED
    BY <1>3, <1>6, <2>2, <2>3 DEF Carried
<1>8. CASE ~ok
  <2>1. pull' = [pull EXCEPT !.failed = TRUE] /\ pull \in PullType(log["central"])
    BY <1>1, <1>8 DEF Carried, TransportTypes
  <2>2. /\ pull' \in PullType(log["central"]) /\ pull'.on = pull.on /\ pull'.left = pull.left
        /\ pull'.at = pull.at
    BY <2>1 DEF PullType
  <2>3. TransportTypes'
    BY <1>1, <1>2, <2>2 DEF Carried, TransportTypes
  <2>4. \A g \in log["central"] : Held(g) => Held(g)'
    BY <1>2, <1>4, HeldStays
  <2>5. Passes(cursor)'
    BY <1>1, <1>2, <2>4 DEF Carried, Passes
  <2>6. pull.on => Passes(pull.at)'
    BY <1>2, <2>2, <2>4 DEF Carried, Passes
  <2>7. pull.on => Ahead'
    BY <1>2, <2>2 DEF Carried, Ahead
  <2> QED
    BY <1>3, <1>6, <2>2, <2>3, <2>5, <2>6, <2>7 DEF Carried
<1> QED
  BY <1>7, <1>8

LEMMA LettersIs ==
  ASSUME Carried, NEW i \in Ids("central"), NEW v \in {"open", "closed"},
         letters' = [letters EXCEPT ![i] = v]
  PROVE  /\ letters' \in [Ids("central") -> {"none", "open", "closed"}]
         /\ letters'[i] = v /\ LettersKept
  BY DEF Carried, TransportTypes, LettersKept

LEMMA RecordPullLetterInv ==
  ASSUME Base, Carried, RecordPullLetter
  PROVE  Base' /\ Carried'
<1>1. PICK e \in FirstOf(pull.left, 1, ByPosition) :
         /\ letters' = [letters EXCEPT ![e.id] = "open"]
         /\ pull' = Passed(e)
         /\ UNCHANGED <<clock, copy, inbox, Local, faults, pushed, refused, push, orphan, cursor>>
  BY DEF RecordPullLetter
<1>2. /\ UNCHANGED <<now, floor, copy, inbox, number, tx, log, known, faults>>
      /\ UNCHANGED <<pushed, refused, push, orphan, cursor>>
  BY <1>1 DEF clock, Local
<1>3. e \in log["central"] /\ e.id \in Ids("central")
  <2>1. e \in log["central"]
    BY CarriedIs, FirstIsIn
  <2> QED
    BY <2>1, PositionIs
<1>4. /\ letters' \in [Ids("central") -> {"none", "open", "closed"}]
      /\ letters'[e.id] = "open" /\ LettersKept
  BY <1>1, <1>3, LettersIs
<1>5. OutcomesKept /\ Held(e)'
  BY <1>2, <1>4 DEF OutcomesKept, Held
<1>6. /\ pull' \in PullType(log["central"])
      /\ pull'.left # {} => pull'.on
      /\ Passes(cursor)' /\ Passes(pull.at)' /\ Ahead'
  BY <1>1, <1>2, <1>4, <1>5, PassedIs
<1>7. TransportTypes'
  BY <1>2, <1>4, <1>6 DEF Carried, TransportTypes
<1>8. Decided'
  BY <1>2 DEF Carried, Decided
<1>9. Base'
  BY <1>2, KeptBase DEF Databases, Base, Types
<1> QED
  BY <1>6, <1>7, <1>8, <1>9 DEF Carried

\* The pull is over: its position is saved or forgotten.
LEMMA EndPullInv ==
  ASSUME Base, Carried, UNCHANGED <<now, floor, copy, inbox, number, tx, log, known>>,
         UNCHANGED <<pushed, refused, push, orphan, letters>>, faults' \in Nat, pull' = NoPull,
         cursor' = cursor \/ (pull.on /\ cursor' = pull.at)
  PROVE  Base' /\ Carried'
<1>1. Base'
  BY KeptBase DEF Databases
<1>2. TransportTypes'
  BY CarriedIs, IdleIs DEF Carried, TransportTypes
<1>3. Decided'
  BY DEF Carried, Decided
<1>4. \A e \in log["central"] : Held(e) => Held(e)'
  BY DEF Held
<1>5. ASSUME NEW at, Passes(at), cursor' = at PROVE Passes(cursor)'
  BY <1>4, <1>5 DEF Passes
<1>6. Passes(cursor)'
  BY <1>5 DEF Carried
<1>7. ~pull'.on
  BY IdleIs
<1> QED
  BY <1>1, <1>2, <1>3, <1>6, <1>7 DEF Carried

LEMMA GiveUpPullInv ==
  ASSUME Base, Carried, GiveUpPull
  PROVE  Base' /\ Carried'
<1>1. /\ UNCHANGED <<now, floor, copy, inbox, number, tx, log, known>>
      /\ UNCHANGED <<pushed, refused, push, orphan, letters, cursor>> /\ pull' = NoPull
      /\ UNCHANGED faults \/ Fault
  BY DEF GiveUpPull, clock, Local
<1>2. faults' \in Nat
  BY <1>1 DEF Fault, Base, Types
<1> QED
  BY <1>1, <1>2, EndPullInv

LEMMA SaveCursorInv ==
  ASSUME Base, Carried, SaveCursor
  PROVE  Base' /\ Carried'
<1>1. /\ UNCHANGED <<now, floor, copy, inbox, number, tx, log, known>>
      /\ UNCHANGED <<pushed, refused, push, orphan, letters>> /\ pull' = NoPull
      /\ pull.on /\ cursor' = pull.at /\ faults' \in Nat
  BY DEF SaveCursor, clock, Local, Base, Types
<1> QED
  BY <1>1, EndPullInv

LEMMA RetryPulledInv ==
  ASSUME Base, Carried, NEW e \in log["central"], RetryPulled(e)
  PROVE  Base' /\ Carried'
<1>1. PICK ok \in BOOLEAN :
         /\ Receive("site", e, "stuck", ok)
         /\ letters' = [letters EXCEPT ![e.id] =
                           IF inbox'["site"][e.id] \in {"applied", "deferred"} /\ ok
                           THEN "closed" ELSE @]
  BY DEF RetryPulled
<1>2. /\ e \in log[Peer("site")] /\ "site" \in Sides
      /\ "stuck" \in {"dead", "stuck"} /\ UNCHANGED <<number, tx, log, known>>
      /\ UNCHANGED Local /\ e.id \in Ids("central") /\ letters[e.id] = "open"
      /\ UNCHANGED <<pushed, refused, push, orphan, pull, cursor>>
  BY PositionIs, PeerIs DEF RetryPulled, Local
<1>3. Base'
  BY <1>1, <1>2, ReceiveBase
<1>4. OutcomesKept
  BY <1>1, <1>2, OutcomesStay DEF OutcomesKept
<1> DEFINE v == IF inbox'["site"][e.id] \in {"applied", "deferred"} /\ ok
                THEN "closed" ELSE "open"
<1>5. letters' = [letters EXCEPT ![e.id] = v] /\ v \in {"open", "closed"}
  BY <1>1, <1>2
<1> HIDE DEF v
<1>6. /\ letters' \in [Ids("central") -> {"none", "open", "closed"}] /\ LettersKept
  BY <1>2, <1>5 DEF Carried, TransportTypes, LettersKept
<1>7. TransportTypes'
  BY <1>2, <1>6 DEF Carried, TransportTypes
<1>8. Decided'
  <2>1. pushed \cup push.delivered \subseteq Ids("site")
    BY CarriedIs DEF Carried, TransportTypes
  <2> QED
    BY <1>2, <1>4, <2>1, DecidedStays DEF Carried, Decided
<1>9. Passes(cursor)' /\ (pull'.on => Passes(pull.at)' /\ Ahead')
  BY <1>2, <1>4, <1>6, PullKept
<1> QED
  BY <1>3, <1>7, <1>8, <1>9 DEF Carried

LEMMA DiscardPulledInv ==
  ASSUME Base, Carried, NEW e \in log["central"], DiscardPulled(e)
  PROVE  Base' /\ Carried'
<1>1. /\ letters' = [letters EXCEPT ![e.id] = "closed"]
      /\ UNCHANGED <<now, floor, copy, inbox, number, tx, log, known, faults>>
      /\ UNCHANGED <<pushed, refused, push, orphan, pull, cursor>>
      /\ e.id \in Ids("central")
  BY PositionIs DEF DiscardPulled, clock, Local
<1>2. letters' \in [Ids("central") -> {"none", "open", "closed"}] /\ LettersKept
  BY <1>1, LettersIs
<1>3. Base'
  BY <1>1, KeptBase DEF Databases, Base, Types
<1>4. TransportTypes'
  BY <1>1, <1>2 DEF Carried, TransportTypes
<1>5. Decided'
  BY <1>1 DEF Carried, Decided
<1>6. Passes(cursor)' /\ (pull'.on => Passes(pull.at)' /\ Ahead')
  BY <1>1, <1>2, PullKept DEF OutcomesKept
<1> QED
  BY <1>3, <1>4, <1>5, <1>6 DEF Carried

LEMMA CrashInv ==
  ASSUME Base, Carried, NEW s \in Sides, Crash(s)
  PROVE  Base' /\ Carried'
<1>1. /\ tx' = [tx EXCEPT ![s] = [o \in Orders |-> NoTx]]
      /\ push' = Idle /\ pull' \in {pull, NoPull} /\ orphan' \in {orphan, {}, push.left}
      /\ UNCHANGED <<now, floor, number, copy, log, inbox, known, pushed, refused, cursor, letters>>
      /\ faults' \in Nat
  BY DEF Crash, clock, Fault, Base, Types
<1>2. Base'
  BY <1>1, CrashBase
<1>3. TransportTypes'
  BY <1>1, CarriedIs, IdleIs DEF Carried, TransportTypes
<1>4. Decided'
  BY <1>1, IdleIs DEF Carried, Decided
<1>5. \A o \in Orders : tx'["central"][o] = tx["central"][o] \/ tx'["central"][o] = NoTx
  BY <1>1, PeerIs DEF Base, Types
<1>6. \A e \in log["central"] : Held(e) => Held(e)'
  BY <1>1 DEF Held
<1>7. Passes(cursor)'
  BY <1>1, <1>5, <1>6 DEF Carried, Passes
<1>8. pull'.on => pull' = pull /\ pull.on
  BY <1>1, IdleIs
<1>9. pull'.on => Passes(pull.at)'
  BY <1>1, <1>5, <1>6, <1>8 DEF Carried, Passes
<1>10. pull'.on => Ahead'
  BY <1>1, <1>5, <1>8 DEF Carried, Ahead
<1> QED
  BY <1>2, <1>3, <1>4, <1>7, <1>9, <1>10 DEF Carried

-----------------------------------------------------------------------------
(* The invariant.                                                           *)

LEMMA InitInv == Init => IInv
<1> SUFFICES ASSUME Init PROVE IInv
  OBVIOUS
<1>1. Base
  BY InitBase
<1>2. /\ log["site"] = {} /\ log["central"] = {} /\ push = Idle /\ pull = NoPull
      /\ pushed = {} /\ refused = {} /\ orphan = {} /\ cursor = <<0, 0>>
      /\ letters = [i \in Ids("central") |-> "none"]
      /\ \A o \in Orders : tx["central"][o] = NoTx
  BY PeerIs DEF Init
<1>3. TransportTypes
  BY <1>2, IdleIs DEF TransportTypes
<1>4. Decided
  BY <1>2, IdleIs DEF Decided
<1>5. Passes(cursor)
  <2>1. number["central"] \in Nat /\ cursor[1] = 0
    BY <1>1, <1>2, PeerIs DEF Base, Types
  <2> QED
    BY <1>2, <2>1 DEF Passes
<1>6. ~pull.on
  BY <1>2, IdleIs
<1> QED
  BY <1>1, <1>3, <1>4, <1>5, <1>6 DEF IInv, Carried

LEMMA NextInv == IInv /\ [Next]_vars => IInv'
<1> SUFFICES ASSUME IInv, [Next]_vars PROVE IInv'
  OBVIOUS
<1>0. Base /\ Carried
  BY DEF IInv
<1>1. ASSUME NEW o \in Orders, NEW kind \in Kinds, RecordSite(o, kind) PROVE IInv'
  BY <1>0, <1>1, MayRecordSite, RecordInv, PeerIs DEF IInv
<1>2. ASSUME NEW o \in Orders, NEW kind \in Kinds, Begin(o, kind) PROVE IInv'
  BY <1>0, <1>2, BeginInv DEF IInv
<1>3. ASSUME NEW o \in Orders, RecordCentral(o) PROVE IInv'
  BY <1>0, <1>3, MayRecordCentral, RecordInv, PeerIs DEF IInv
<1>4. ASSUME NEW o \in Orders, NEW s \in Sides, Commit(s, o) PROVE IInv'
  BY <1>0, <1>4, CommitInv DEF IInv
<1>5. ASSUME NEW o \in Orders, NEW s \in Sides, MasterArrives(s, o) PROVE IInv'
  BY <1>0, <1>5, ArrivesInv DEF IInv
<1>6. ASSUME NEW s \in Sides, NEW e \in log[Peer(s)], Reconcile(s, e) PROVE IInv'
  BY <1>0, <1>6, ReconcileInv DEF IInv
<1>7. ASSUME NEW s \in Sides, NEW e \in log[Peer(s)], RetryLetter(s, e) \/ DiscardLetter(s, e)
      PROVE  IInv'
  BY <1>0, <1>7, LetterInv DEF IInv
<1>8. ASSUME NEW late \in SUBSET refused, StartPush(late) PROVE IInv'
  BY <1>0, <1>8, StartPushInv DEF IInv
<1>9. CASE ServePush
  BY <1>0, <1>9, ServePushInv DEF IInv
<1>10. CASE ServeOrphan
  BY <1>0, <1>10, ServeOrphanInv DEF IInv
<1>11. CASE FinishPush
  BY <1>0, <1>11, FinishPushInv DEF IInv
<1>12. CASE GiveUpPush
  BY <1>0, <1>12, GiveUpPushInv DEF IInv
<1>13. CASE StartPull
  BY <1>0, <1>13, StartPullInv DEF IInv
<1>14. CASE PullEvent
  BY <1>0, <1>14, PullEventInv DEF IInv
<1>15. CASE RecordPullLetter
  BY <1>0, <1>15, RecordPullLetterInv DEF IInv
<1>16. CASE GiveUpPull
  BY <1>0, <1>16, GiveUpPullInv DEF IInv
<1>17. CASE SaveCursor
  BY <1>0, <1>17, SaveCursorInv DEF IInv
<1>18. ASSUME NEW e \in log["central"], RetryPulled(e) PROVE IInv'
  BY <1>0, <1>18, RetryPulledInv DEF IInv
<1>19. ASSUME NEW e \in log["central"], DiscardPulled(e) PROVE IInv'
  BY <1>0, <1>19, DiscardPulledInv DEF IInv
<1>20. ASSUME NEW s \in Sides, Crash(s) PROVE IInv'
  BY <1>0, <1>20, CrashInv DEF IInv
<1>21. CASE UNCHANGED vars
  <2>1. /\ UNCHANGED <<now, floor, number, copy, tx, log, inbox, known>>
        /\ UNCHANGED <<pushed, refused, push, orphan, pull, cursor, letters>> /\ faults' = faults
    BY <1>21 DEF vars, clock, transport
  <2>2. faults' \in Nat
    BY <1>0, <2>1 DEF Base, Types
  <2>3. Base'
    BY <1>0, <2>1, <2>2, KeptBase DEF Databases
  <2>4. Carried'
    BY <1>0, <2>1, ElsewhereCarried DEF OutcomesKept, transport
  <2> QED
    BY <2>3, <2>4 DEF IInv
<1>22. CASE Next
  BY <1>1, <1>2, <1>3, <1>4, <1>5, <1>6, <1>7, <1>8, <1>9, <1>10, <1>11, <1>12, <1>13, <1>14,
     <1>15, <1>16, <1>17, <1>18, <1>19, <1>20, <1>22 DEF Next
<1> QED
  BY <1>21, <1>22

\* The databases and the transport are sound in every state, whatever is asked
\* for, commits late, fails, is lost or crashes.
THEOREM Invariance == Spec => []IInv
<1> QED
  BY InitInv, NextInv, PTL DEF Spec

\* Every state of the two databases and of the transport is well-typed; an order
\* carries at most one payment per side, and only once completed.
THEOREM TypeCorrect == Spec => []TypeOK
<1>1. IInv => TypeOK
  <2> SUFFICES ASSUME IInv PROVE TypeOK
    OBVIOUS
  <2>0. Base /\ Carried
    BY DEF IInv
  <2>1. ASSUME NEW s \in Sides, NEW o \in Orders
        PROVE  /\ copy[s][o].status \in {"absent", "open"} \cup Settled
               /\ Len(copy[s][o].paid) <= (IF copy[s][o].status = "completed" THEN 1 ELSE 0)
    <3>1. copy[s][o] \in CopyType /\ CopyShape(copy[s][o])
      BY <2>0 DEF Base, Types, Rowed
    <3>2. Len(<<>>) = 0
      OBVIOUS
    <3>3. CASE copy[s][o].status = "completed"
      BY <3>1, <3>3 DEF CopyShape, CopyType
    <3>4. CASE copy[s][o].status # "completed"
      BY <3>1, <3>2, <3>4 DEF CopyShape, CopyType
    <3> QED
      BY <3>3, <3>4
  <2>2. /\ now \in Nat /\ floor \in [Sides -> Nat] /\ number \in [Sides -> Nat]
        /\ \A s \in Sides : inbox[s] \in [Ids(Peer(s)) -> Rows]
        /\ known \in [Sides -> SUBSET Orders]
    BY <2>0 DEF Base, Types, InboxType
  <2>3. /\ pushed \subseteq Ids("site") /\ refused \subseteq Ids("site")
        /\ push.left \subseteq log["site"] /\ orphan \subseteq log["site"]
        /\ pull.left \subseteq log["central"]
        /\ letters \in [Ids("central") -> {"none", "open", "closed"}]
    BY <2>0, CarriedIs DEF Carried, TransportTypes
  <2> QED
    BY <2>1, <2>2, <2>3 DEF TypeOK
<1> QED
  BY <1>1, Invariance, PTL

\* The pull's cursor never passes an event of the central server that the site
\* neither decided nor keeps a dead letter of: a transaction that commits late
\* commits ahead of the cursor.
THEOREM NothingIsBehindCursor == Spec => []NothingBehindCursor
<1>1. IInv => NothingBehindCursor
  BY DEF IInv, Carried, Passes, Held, NothingBehindCursor
<1> QED
  BY <1>1, Invariance, PTL

\* A row marked pushed is decided at the central server, whichever requests and
\* answers were lost.
THEOREM EveryPushedIsHeld == Spec => []PushedIsHeld
<1>1. IInv => PushedIsHeld
  BY DEF IInv, Carried, Decided, PushedIsHeld
<1> QED
  BY <1>1, Invariance, PTL

LEMMA ReceiveSettled ==
  ASSUME Base, NEW r \in Sides, NEW e \in log[Peer(r)], NEW dead \in {"dead", "stuck"},
         NEW ok \in BOOLEAN, Receive(r, e, dead, ok),
         NEW s \in Sides, NEW o \in Orders, copy[s][o].status \in Settled
  PROVE  copy'[s][o] = copy[s][o]
<1>1. CASE s # r \/ o # e.o
  BY <1>1, ReceiveIs
<1>2. CASE s = r /\ o = e.o
  <2>1. UNCHANGED copy \/ Receives(r, e, dead)
    BY ReceiveIs
  <2>2. copy[r][e.o].status \notin {"open", "absent"}
    BY <1>2 DEF Settled
  <2>3. ASSUME NEW row, \/ Keeps(r, e, row) \/ Restates(r, e, row)
                        \/ Pays(r, e, row) \/ Creates(r, e, row)
        PROVE  copy'[r][e.o] = copy[r][e.o]
    BY <1>2, <2>2, <2>3 DEF Keeps, Restates, Pays, Creates
  <2> QED
    BY <1>2, <2>1, <2>3 DEF Receives
<1> QED
  BY <1>1, <1>2

\* A completed or voided order is never touched again on that side, by a late
\* change, a repeated event or the other side's payment.
THEOREM SettledStays == Spec => SettledIsFinal
<1>1. ASSUME IInv, [Next]_vars
      PROVE  \A s \in Sides, o \in Orders :
                copy[s][o].status \in Settled => copy'[s][o] = copy[s][o]
  <2>0. Base /\ Carried
    BY <1>1 DEF IInv
  <2> SUFFICES ASSUME NEW s \in Sides, NEW o \in Orders, copy[s][o].status \in Settled
               PROVE  copy'[s][o] = copy[s][o]
    OBVIOUS
  <2>1. ASSUME NEW r \in Sides, NEW p \in Orders, Commit(r, p) PROVE copy'[s][o] = copy[s][o]
    <3>1. CASE s # r \/ o # p
      BY <2>0, <2>1, <3>1, CommitIs
    <3>2. CASE s = r /\ o = p
      <4>1. tx[s][o].id # 0 /\ tx[s][o] # NoTx
        BY <2>1, <3>2, NoTxIs DEF Commit
      <4>2. copy[s][o].status \in {"absent", "open"}
        BY <2>0, <4>1 DEF Base, Rowed, Holds
      <4> QED
        BY <4>2 DEF Settled
    <3> QED
      BY <3>1, <3>2
  <2>2. ASSUME NEW r \in Sides, NEW e \in log[Peer(r)], NEW dead \in {"dead", "stuck"},
               NEW ok \in BOOLEAN, Receive(r, e, dead, ok)
        PROVE  copy'[s][o] = copy[s][o]
    BY <2>0, <2>2, ReceiveSettled
  <2>3. ASSUME NEW r \in Sides, NEW e \in log[Peer(r)], Reconcile(r, e)
        PROVE  copy'[s][o] = copy[s][o]
    BY <2>2, <2>3 DEF Reconcile
  <2>4. CASE ServePush \/ ServeOrphan
    <3>1. PICK e \in log["site"], ok \in BOOLEAN : Receive("central", e, "dead", ok)
      <4>1. push.left \subseteq log["site"] /\ orphan \subseteq log["site"]
        BY <2>0, CarriedIs DEF Carried, TransportTypes
      <4>2. ServePush => \E e \in push.left, ok \in BOOLEAN : Receive("central", e, "dead", ok)
        BY FirstIsIn DEF ServePush
      <4>3. ServeOrphan => \E e \in orphan, ok \in BOOLEAN : Receive("central", e, "dead", ok)
        BY FirstIsIn DEF ServeOrphan
      <4> QED
        BY <2>4, <4>1, <4>2, <4>3
    <3> QED
      BY <2>2, <3>1, PeerIs
  <2>5. CASE PullEvent
    <3>1. PICK e \in log["central"], ok \in BOOLEAN : Receive("site", e, "dead", ok)
      BY <2>0, <2>5, CarriedIs, FirstIsIn DEF PullEvent
    <3> QED
      BY <2>2, <3>1, PeerIs
  <2>6. ASSUME NEW e \in log["central"], RetryPulled(e) PROVE copy'[s][o] = copy[s][o]
    <3>1. PICK ok \in BOOLEAN : Receive("site", e, "stuck", ok)
      BY <2>6 DEF RetryPulled
    <3> QED
      BY <2>2, <3>1, PeerIs
  <2>7. CASE UNCHANGED copy
    BY <2>7
  <2>8. ASSUME NEW p \in Orders, NEW kind \in Kinds, RecordSite(p, kind) \/ Begin(p, kind)
        PROVE  UNCHANGED copy
    BY <2>8 DEF RecordSite, Record, Begin
  <2>9. ASSUME NEW p \in Orders, NEW r \in Sides, RecordCentral(p) \/ MasterArrives(r, p)
        PROVE  UNCHANGED copy
    BY <2>9 DEF RecordCentral, Record, MasterArrives
  <2>10. ASSUME NEW r \in Sides, NEW e \in log[Peer(r)], RetryLetter(r, e) \/ DiscardLetter(r, e)
         PROVE  UNCHANGED copy
    BY <2>10 DEF RetryLetter, DiscardLetter
  <2>11. ASSUME NEW late \in SUBSET refused, StartPush(late) PROVE UNCHANGED copy
    BY <2>11 DEF StartPush
  <2>12. ASSUME FinishPush \/ GiveUpPush \/ StartPull \/ RecordPullLetter \/ GiveUpPull \/ SaveCursor
         PROVE  UNCHANGED copy
    BY <2>12 DEF FinishPush, GiveUpPush, StartPull, RecordPullLetter, GiveUpPull, SaveCursor
  <2>13. ASSUME NEW e \in log["central"], DiscardPulled(e) PROVE UNCHANGED copy
    BY <2>13 DEF DiscardPulled
  <2>14. ASSUME NEW r \in Sides, Crash(r) PROVE UNCHANGED copy
    BY <2>14 DEF Crash
  <2>15. UNCHANGED vars => UNCHANGED copy
    BY DEF vars
  <2>16. CASE Next
    BY <2>1, <2>3, <2>4, <2>5, <2>6, <2>7, <2>8, <2>9, <2>10, <2>11, <2>12, <2>13, <2>14, <2>16,
       PeerIs DEF Next
  <2> QED
    BY <1>1, <2>7, <2>15, <2>16
<1>2. IInv /\ [Next]_vars =>
         [\A s \in Sides, o \in Orders :
             copy[s][o].status \in Settled => copy'[s][o] = copy[s][o]]_vars
  BY <1>1
<1> QED
  BY <1>2, Invariance, PTL DEF Spec, SettledIsFinal

-----------------------------------------------------------------------------
(* What the sync delivers.                                                  *)

\* A payment from the other side is of an event there is.
PaidFromLog ==
    \A s \in Sides, o \in Orders :
        LET p == copy[s][o].paid IN
        p = <<>> \/ p[1][1] = s \/ \E e \in log[Peer(s)] : p = << <<Peer(s), e.id>> >>

LettersFromLog ==
    \A i \in Ids("central") : letters[i] # "none" => \E e \in log["central"] : e.id = i

\* The pull does not fall behind the cursor.
Linked == PaidFromLog /\ LettersFromLog /\ (pull.on => ~Before(pull.at, cursor))

\* The receiver's answer to one event, whoever asks for it.
Answers(r, e) ==
    /\ r \in Sides /\ e \in log[Peer(r)]
    /\ \E dead \in {"dead", "stuck"}, ok \in BOOLEAN : Receive(r, e, dead, ok)

LettersSame == \A i \in Ids("central") : letters'[i] # "none" <=> letters[i] # "none"

\* What a step does to the events and what became of them.
LEMMA StepIs ==
  ASSUME IInv, [Next]_vars
  PROVE  \/ UNCHANGED <<log, copy, inbox, pushed, cursor>> /\ LettersSame
         \/ \E s \in Sides, o \in Orders : Commit(s, o)
         \/ /\ \E r \in Sides : \E e \in log[Peer(r)] : Answers(r, e)
            /\ UNCHANGED <<tx, log, pushed, cursor>> /\ LettersSame
         \/ \E s \in Sides : \E e \in log[Peer(s)] : RetryLetter(s, e) \/ DiscardLetter(s, e)
         \/ RecordPullLetter \/ FinishPush \/ SaveCursor
<1> DEFINE Stay == UNCHANGED <<log, copy, inbox, pushed, cursor>> /\ LettersSame
           Answer == /\ \E r \in Sides : \E e \in log[Peer(r)] : Answers(r, e)
                     /\ UNCHANGED <<tx, log, pushed, cursor>> /\ LettersSame
<1>0. Base /\ Carried
  BY DEF IInv
<1>a. UNCHANGED letters => LettersSame
  BY DEF LettersSame
<1>1. ASSUME NEW o \in Orders, NEW kind \in Kinds, RecordSite(o, kind) \/ Begin(o, kind)
      PROVE  Stay
  BY <1>a, <1>1 DEF RecordSite, Record, Begin, transport
<1>2. ASSUME NEW o \in Orders, NEW s \in Sides, RecordCentral(o) \/ MasterArrives(s, o)
      PROVE  Stay
  BY <1>a, <1>2 DEF RecordCentral, Record, MasterArrives, transport
<1>3. ASSUME NEW s \in Sides, NEW e \in log[Peer(s)], Reconcile(s, e) PROVE Answer
  <2>1. Answers(s, e)
    BY <1>3 DEF Reconcile, Answers
  <2> QED
    BY <1>a, <1>3, <2>1 DEF Reconcile, transport
<1>4. ASSUME NEW late \in SUBSET refused, StartPush(late) PROVE Stay
  BY <1>a, <1>4 DEF StartPush, Local
<1>5. CASE ServePush
  <2>1. PICK e \in push.left, ok \in BOOLEAN :
           /\ Receive("central", e, "dead", ok)
           /\ UNCHANGED <<Local, pushed, refused, orphan, pull, cursor, letters>>
    BY <1>5, FirstIsIn DEF ServePush
  <2>2. e \in log["site"]
    BY <1>0, CarriedIs
  <2>3. Answers("central", e)
    BY <2>1, <2>2, PeerIs DEF Answers
  <2> QED
    BY <1>a, <2>1, <2>2, <2>3, PeerIs DEF Local
<1>6. CASE ServeOrphan
  <2>1. PICK e \in orphan, ok \in BOOLEAN :
           /\ Receive("central", e, "dead", ok)
           /\ UNCHANGED <<Local, pushed, refused, push, pull, cursor, letters>>
    BY <1>6, FirstIsIn DEF ServeOrphan
  <2>2. e \in log["site"]
    BY <1>0 DEF Carried, TransportTypes
  <2>3. Answers("central", e)
    BY <2>1, <2>2, PeerIs DEF Answers
  <2> QED
    BY <1>a, <2>1, <2>2, <2>3, PeerIs DEF Local
<1>7. CASE PullEvent
  <2>1. PICK e \in pull.left, ok \in BOOLEAN :
           /\ Receive("site", e, "dead", ok)
           /\ UNCHANGED <<Local, pushed, refused, push, orphan, cursor, letters>>
    BY <1>7, FirstIsIn DEF PullEvent
  <2>2. e \in log["central"]
    BY <1>0, CarriedIs
  <2>3. Answers("site", e)
    BY <2>1, <2>2, PeerIs DEF Answers
  <2> QED
    BY <1>a, <2>1, <2>2, <2>3, PeerIs DEF Local
<1>8. ASSUME NEW e \in log["central"], RetryPulled(e) PROVE Answer
  <2>1. PICK ok \in BOOLEAN :
           /\ Receive("site", e, "stuck", ok)
           /\ letters' = [letters EXCEPT ![e.id] =
                             IF inbox'["site"][e.id] \in {"applied", "deferred"} /\ ok
                             THEN "closed" ELSE @]
           /\ letters[e.id] = "open"
           /\ UNCHANGED <<Local, pushed, refused, push, orphan, pull, cursor>>
    BY <1>8 DEF RetryPulled
  <2>2. LettersSame
    BY <1>0, <2>1 DEF LettersSame, Carried, TransportTypes
  <2>3. Answers("site", e)
    BY <2>1, PeerIs DEF Answers
  <2> QED
    BY <2>1, <2>2, <2>3, PeerIs DEF Local
<1>9. ASSUME NEW e \in log["central"], DiscardPulled(e) PROVE Stay
  <2>1. LettersSame
    BY <1>0, <1>9 DEF DiscardPulled, LettersSame, Carried, TransportTypes
  <2> QED
    BY <1>9, <2>1 DEF DiscardPulled, Local
<1>10. ASSUME GiveUpPush \/ StartPull \/ GiveUpPull PROVE Stay
  BY <1>a, <1>10 DEF GiveUpPush, StartPull, GiveUpPull, Local
<1>11. ASSUME NEW s \in Sides, Crash(s) PROVE Stay
  BY <1>a, <1>11 DEF Crash
<1>12. CASE UNCHANGED vars
  BY <1>a, <1>12 DEF vars, transport
<1>13. CASE Next
  BY <1>1, <1>2, <1>3, <1>4, <1>5, <1>6, <1>7, <1>8, <1>9, <1>10, <1>11, <1>13, PeerIs DEF Next
<1> QED
  BY <1>12, <1>13

\* The pull begins at the cursor and moves on, and the cursor follows it.
LEMMA PullIs ==
  ASSUME IInv, [Next]_vars
  PROVE  \/ UNCHANGED <<pull, cursor>>
         \/ ~pull'.on
         \/ pull'.at = cursor /\ UNCHANGED cursor
         \/ /\ pull.on /\ Before(pull.at, pull'.at) /\ UNCHANGED cursor
            /\ pull'.at \in Nat \X Nat
         \/ pull.on /\ pull'.at = pull.at /\ UNCHANGED cursor
<1> DEFINE Goal == \/ UNCHANGED <<pull, cursor>>
                   \/ ~pull'.on
                   \/ pull'.at = cursor /\ UNCHANGED cursor
                   \/ /\ pull.on /\ Before(pull.at, pull'.at) /\ UNCHANGED cursor
                      /\ pull'.at \in Nat \X Nat
                   \/ pull.on /\ pull'.at = pull.at /\ UNCHANGED cursor
<1>0. Base /\ Carried
  BY DEF IInv
<1>1. ASSUME NEW o \in Orders, NEW kind \in Kinds, RecordSite(o, kind) \/ Begin(o, kind)
      PROVE  UNCHANGED <<pull, cursor>>
  BY <1>1 DEF RecordSite, Record, Begin, transport
<1>2. ASSUME NEW o \in Orders, NEW s \in Sides,
             RecordCentral(o) \/ MasterArrives(s, o) \/ Commit(s, o)
      PROVE  UNCHANGED <<pull, cursor>>
  BY <1>2 DEF RecordCentral, Record, MasterArrives, Commit, transport
<1>3. ASSUME NEW s \in Sides, NEW e \in log[Peer(s)],
             Reconcile(s, e) \/ RetryLetter(s, e) \/ DiscardLetter(s, e)
      PROVE  UNCHANGED <<pull, cursor>>
  BY <1>3 DEF Reconcile, RetryLetter, DiscardLetter, transport
<1>4. ASSUME NEW late \in SUBSET refused, StartPush(late) PROVE UNCHANGED <<pull, cursor>>
  BY <1>4 DEF StartPush
<1>5. ASSUME ServePush \/ ServeOrphan \/ FinishPush \/ GiveUpPush PROVE UNCHANGED <<pull, cursor>>
  BY <1>5 DEF ServePush, ServeOrphan, FinishPush, GiveUpPush
<1>6. CASE StartPull
  <2> DEFINE left == FirstOf({e \in log["central"] : Before(cursor, Position(e)) /\ BelowXmin(e.xid)},
                             BatchSize, ByPosition)
             at == cursor
             v == [NoPull EXCEPT !.on = TRUE, !.left = left, !.at = at]
  <2>1. pull' = v /\ UNCHANGED cursor
    BY <1>6 DEF StartPull
  <2> HIDE DEF left, at
  <2>2. v.at = at
    BY DEF NoPull
  <2> HIDE DEF v
  <2> QED
    BY <2>1, <2>2 DEF at
<1>7. ASSUME NEW e \in FirstOf(pull.left, 1, ByPosition), pull' = Passed(e), UNCHANGED cursor
      PROVE  Goal
  <2> DEFINE left == pull.left \ {e}
             at == Position(e)
             v == [pull EXCEPT !.left = left, !.at = at, !.failed = FALSE]
  <2>1. e \in pull.left /\ e \in log["central"] /\ pull.on /\ pull \in PullType(log["central"])
    BY <1>0, <1>7, FirstIsIn, CarriedIs DEF Carried, TransportTypes
  <2>2. Before(pull.at, at) /\ at \in Nat \X Nat
    BY <1>0, <2>1, PositionIs DEF Carried, Ahead
  <2>3. pull' = v
    BY <1>7 DEF Passed
  <2> HIDE DEF left, at
  <2>4. v.at = at
    BY <2>1 DEF PullType
  <2> HIDE DEF v
  <2> QED
    BY <1>7, <2>1, <2>2, <2>3, <2>4
<1>8. CASE PullEvent
  <2>1. PICK e \in FirstOf(pull.left, 1, ByPosition), ok \in BOOLEAN :
           /\ pull' = IF ok THEN Passed(e) ELSE [pull EXCEPT !.failed = TRUE]
           /\ UNCHANGED cursor
    BY <1>8 DEF PullEvent
  <2>2. CASE ok
    BY <1>7, <2>1, <2>2
  <2>3. CASE ~ok
    <3>1. pull \in PullType(log["central"]) /\ pull.on
      BY <1>0, <2>1, FirstIsIn DEF Carried, TransportTypes
    <3>2. pull' = [pull EXCEPT !.failed = TRUE]
      BY <2>1, <2>3
    <3>3. pull'.at = pull.at
      BY <3>1, <3>2 DEF PullType
    <3> QED
      BY <2>1, <3>1, <3>3
  <2> QED
    BY <2>2, <2>3
<1>9. CASE RecordPullLetter
  BY <1>7, <1>9 DEF RecordPullLetter
<1>10. CASE GiveUpPull \/ SaveCursor
  BY <1>10, IdleIs DEF GiveUpPull, SaveCursor
<1>11. ASSUME NEW e \in log["central"], RetryPulled(e) \/ DiscardPulled(e)
       PROVE  UNCHANGED <<pull, cursor>>
  BY <1>11 DEF RetryPulled, DiscardPulled
<1>12. ASSUME NEW s \in Sides, Crash(s) PROVE Goal
  BY <1>12, IdleIs DEF Crash
<1>13. CASE UNCHANGED vars
  BY <1>13 DEF vars, transport
<1>14. CASE Next
  BY <1>1, <1>2, <1>3, <1>4, <1>5, <1>6, <1>8, <1>9, <1>10, <1>11, <1>12, <1>14,
     PeerIs DEF Next
<1> QED
  BY <1>13, <1>14

\* A checkout leaves one payment of the side it was made at.
LEMMA PaidHere ==
  ASSUME Base, NEW s \in Sides, NEW o \in Orders, Commit(s, o)
  PROVE  /\ copy[s][o].paid = <<>>
         /\ copy'[s][o].paid = <<>> \/ \E i \in Nat : copy'[s][o].paid = << <<s, i>> >>
<1> DEFINE t == tx[s][o]
           c == copy[s][o]
           i == t.id + 1
<1>1. t.id # 0 /\ copy'[s][o] = Changed(s, o)
  BY CommitIs
<1>2. t \in TxType /\ t # NoTx /\ CopyShape(c) /\ Holds(s, o)
  BY <1>1, ChangedIs DEF Base, Rowed
<1>3. c.paid = <<>> /\ i \in Nat
  BY <1>2 DEF Holds, CopyShape, TxType
<1>4. Changed(s, o).paid = IF t.kind = "pay" THEN Append(c.paid, <<s, i>>) ELSE c.paid
  BY DEF Changed
<1>5. Append(<<>>, <<s, i>>) = << <<s, i>> >>
  BY <1>3
<1> HIDE DEF i, t, c
<1>6. Changed(s, o).paid = <<>> \/ Changed(s, o).paid = << <<s, i>> >>
  BY <1>3, <1>4, <1>5
<1> QED
  BY <1>1, <1>3, <1>6 DEF c

\* An answer posts the payment if it applies it, and changes no other books.
LEMMA PaidThere ==
  ASSUME Base, NEW r \in Sides, NEW e \in log[Peer(r)], Answers(r, e)
  PROVE  \/ /\ \A s \in Sides, o \in Orders : copy'[s][o].paid = copy[s][o].paid
            /\ \/ UNCHANGED <<copy, inbox>>
               \/ ~(e.kind = "pay" /\ inbox'[r][e.id] = "applied")
         \/ /\ e.kind = "pay" /\ inbox'[r][e.id] = "applied"
            /\ copy[r][e.o].paid = <<>> /\ copy'[r][e.o].paid = << <<Peer(r), e.id>> >>
            /\ \A s \in Sides, o \in Orders : s # r \/ o # e.o => copy'[s][o] = copy[s][o]
<1> DEFINE row == inbox'[r][e.id]
<1>1. PICK dead \in {"dead", "stuck"}, ok \in BOOLEAN : Receive(r, e, dead, ok)
  BY DEF Answers
<1>2. /\ \A s \in Sides, o \in Orders : s # r \/ o # e.o => copy'[s][o] = copy[s][o]
      /\ UNCHANGED <<copy, inbox, now, floor>> \/ Receives(r, e, dead)
  BY <1>1, ReceiveIs
<1>3. e.o \in Orders /\ CopyShape(copy[r][e.o])
  BY EventIs
<1>4. CASE UNCHANGED <<copy, inbox, now, floor>>
  BY <1>4
<1>5. CASE Receives(r, e, dead)
  <2>1. Keeps(r, e, row) \/ Restates(r, e, row) \/ Pays(r, e, row) \/ Creates(r, e, row)
    BY <1>5 DEF Receives
  <2>2. CASE Pays(r, e, row)
    BY <1>2, <1>3, <2>2 DEF Pays, CopyShape
  <2>3. CASE Keeps(r, e, row) \/ Restates(r, e, row) \/ Creates(r, e, row)
    <3>1. copy'[r][e.o].paid = copy[r][e.o].paid
      BY <1>3, <2>3 DEF Keeps, Restates, Creates, CopyShape
    <3>2. ~(e.kind = "pay" /\ row = "applied")
      BY <2>3 DEF Keeps, Restates, Creates
    <3> QED
      BY <1>2, <3>1, <3>2
  <2> QED
    BY <2>1, <2>2, <2>3
<1> QED
  BY <1>2, <1>4, <1>5

LEMMA InitLinked == Init => Linked
<1> SUFFICES ASSUME Init PROVE Linked
  OBVIOUS
<1>1. \A s \in Sides, o \in Orders : copy[s][o].paid = <<>>
  BY NoOrderIs DEF Init
<1>2. \A i \in Ids("central") : letters[i] = "none"
  BY DEF Init
<1>3. ~pull.on
  BY IdleIs DEF Init
<1> QED
  BY <1>1, <1>2, <1>3 DEF Linked, PaidFromLog, LettersFromLog

LEMMA PairIs ==
  ASSUME NEW a, NEW b, NEW i, NEW j
  PROVE  << <<a, i>> >>[1][1] = a /\ << <<a, i>> >> # <<>>
         /\ (<< <<a, i>> >> = << <<b, j>> >> <=> a = b /\ i = j)
<1>1. << <<a, i>> >>[1] = <<a, i>> /\ << <<b, j>> >>[1] = <<b, j>>
  OBVIOUS
<1>2. <<a, i>>[1] = a /\ <<a, i>>[2] = i /\ <<b, j>>[1] = b /\ <<b, j>>[2] = j
  OBVIOUS
<1>3. Len(<< <<a, i>> >>) = 1 /\ Len(<<>>) = 0
  OBVIOUS
<1> QED
  BY <1>1, <1>2, <1>3

LEMMA PaidLinked ==
  ASSUME PaidFromLog, \A s \in Sides : log[s] \subseteq log'[s],
         \A s \in Sides, o \in Orders :
            \/ copy'[s][o].paid = copy[s][o].paid
            \/ copy'[s][o].paid = <<>>
            \/ \E i \in Nat : copy'[s][o].paid = << <<s, i>> >>
            \/ \E e \in log[Peer(s)] : copy'[s][o].paid = << <<Peer(s), e.id>> >>
  PROVE  PaidFromLog'
<1> SUFFICES ASSUME NEW s \in Sides, NEW o \in Orders
             PROVE  LET p == copy'[s][o].paid IN
                    \/ p = <<>> \/ p[1][1] = s
                    \/ \E e \in log'[Peer(s)] : p = << <<Peer(s), e.id>> >>
  BY DEF PaidFromLog
<1>1. log[Peer(s)] \subseteq log'[Peer(s)]
  BY PeerIs
<1>2. CASE copy'[s][o].paid = copy[s][o].paid
  BY <1>1, <1>2 DEF PaidFromLog
<1>3. CASE copy'[s][o].paid # copy[s][o].paid
  BY <1>1, <1>3, PairIs
<1> QED
  BY <1>2, <1>3

LEMMA NextLinked == IInv /\ Linked /\ [Next]_vars => Linked'
<1> SUFFICES ASSUME IInv, Linked, [Next]_vars PROVE Linked'
  OBVIOUS
<1>0. Base /\ Carried /\ Base' /\ Carried'
  BY NextInv DEF IInv
<1>1. pull'.on => ~Before(pull'.at, cursor')
  <2>1. cursor \in Nat \X Nat /\ pull.at \in Nat \X Nat
    BY <1>0, CarriedIs
  <2>2. ~Before(cursor, cursor)
    BY <2>1, BeforeIs
  <2>3. ASSUME pull.on, Before(pull.at, pull'.at), pull'.at \in Nat \X Nat
        PROVE  ~Before(pull'.at, cursor)
    BY <2>1, <2>3, BeforeIs DEF Linked
  <2> QED
    BY <2>2, <2>3, PullIs DEF Linked
<1>2. CASE UNCHANGED <<log, copy, inbox, pushed, cursor>> /\ LettersSame
  BY <1>1, <1>2 DEF Linked, PaidFromLog, LettersFromLog, LettersSame
<1>3. ASSUME NEW s \in Sides, NEW o \in Orders, Commit(s, o) PROVE Linked'
  <2>1. /\ \A r \in Sides : log[r] \subseteq log'[r]
        /\ \A r \in Sides, p \in Orders : r # s \/ p # o => copy'[r][p] = copy[r][p]
        /\ UNCHANGED letters
    BY <1>0, <1>3, CommitIs DEF transport
  <2>1a. copy'[s][o].paid = <<>> \/ \E i \in Nat : copy'[s][o].paid = << <<s, i>> >>
    BY ONLY <1>0, <1>3, s \in Sides, o \in Orders, PaidHere
  <2>1b. ASSUME NEW r \in Sides, NEW p \in Orders
         PROVE  \/ copy'[r][p].paid = copy[r][p].paid
                \/ copy'[r][p].paid = <<>>
                \/ \E i \in Nat : copy'[r][p].paid = << <<r, i>> >>
                \/ \E e \in log[Peer(r)] : copy'[r][p].paid = << <<Peer(r), e.id>> >>
    <3>1. CASE r = s /\ p = o
      BY ONLY <2>1a, <3>1
    <3>2. CASE r # s \/ p # o
      BY ONLY <2>1, <3>2, r \in Sides, p \in Orders
    <3> QED
      BY ONLY <3>1, <3>2
  <2>1c. PaidFromLog
    BY DEF Linked
  <2>2. PaidFromLog'
    BY ONLY <2>1, <2>1b, <2>1c, PaidLinked
  <2>3. LettersFromLog'
    BY <2>1, PeerIs DEF Linked, LettersFromLog
  <2> QED
    BY <1>1, <2>2, <2>3 DEF Linked
<1>4. ASSUME NEW r \in Sides, NEW e \in log[Peer(r)], Answers(r, e),
             UNCHANGED <<tx, log, pushed, cursor>>, LettersSame
      PROVE  Linked'
  <2>1a. ASSUME NEW s \in Sides, NEW o \in Orders
         PROVE  \/ copy'[s][o].paid = copy[s][o].paid
                \/ copy'[s][o].paid = <<>>
                \/ \E i \in Nat : copy'[s][o].paid = << <<s, i>> >>
                \/ \E f \in log[Peer(s)] : copy'[s][o].paid = << <<Peer(s), f.id>> >>
    BY <1>0, <1>4, PaidThere
  <2>1b. PaidFromLog /\ \A s \in Sides : log[s] \subseteq log'[s]
    BY <1>4 DEF Linked
  <2>1. PaidFromLog'
    BY ONLY <2>1a, <2>1b, PaidLinked
  <2>2. LettersFromLog'
    BY <1>4 DEF Linked, LettersFromLog, LettersSame
  <2> QED
    BY <1>1, <2>1, <2>2 DEF Linked
<1>5. ASSUME NEW s \in Sides, NEW e \in log[Peer(s)], RetryLetter(s, e) \/ DiscardLetter(s, e)
      PROVE  Linked'
  BY <1>1, <1>5 DEF RetryLetter, DiscardLetter, transport, Linked, PaidFromLog, LettersFromLog
<1>6. CASE RecordPullLetter
  <2>1. PICK e \in pull.left : letters' = [letters EXCEPT ![e.id] = "open"]
                               /\ UNCHANGED <<clock, copy, inbox, Local>>
    BY <1>6, FirstIsIn DEF RecordPullLetter
  <2>2. e \in log["central"]
    BY <1>0, CarriedIs
  <2>3. \A i \in Ids("central") : i # e.id => letters'[i] = letters[i]
    BY <1>0, <2>1 DEF Carried, TransportTypes
  <2>4. UNCHANGED <<log, copy>>
    BY <2>1 DEF Local
  <2>5. LettersFromLog'
    BY <2>2, <2>3, <2>4 DEF Linked, LettersFromLog
  <2> QED
    BY <1>1, <2>4, <2>5 DEF Linked, PaidFromLog
<1>7. CASE FinishPush \/ SaveCursor
  <2>1. UNCHANGED <<log, copy, letters>>
    BY <1>7 DEF FinishPush, SaveCursor, Local
  <2> QED
    BY <1>1, <2>1 DEF Linked, PaidFromLog, LettersFromLog
<1> QED
  BY <1>2, <1>3, <1>4, <1>5, <1>6, <1>7, StepIs

LEMMA AllLinked == Spec => [](IInv /\ Linked)
<1>1. Init => IInv /\ Linked
  BY InitInv, InitLinked
<1>2. IInv /\ Linked /\ [Next]_vars => (IInv /\ Linked)'
  BY NextInv, NextLinked
<1> QED
  BY <1>1, <1>2, PTL DEF Spec

BySide(V) == V = [s \in Sides |-> V[s]]

\* One side's set of events grows by E.
Grown(V, s, E) == [V EXCEPT ![s] = @ \cup E]

LEMMA GrownIs ==
  ASSUME NEW V, NEW W, NEW s \in Sides, NEW E,
         BySide(V), BySide(W),
         W[s] = V[s] \cup E, \A r \in Sides : r # s => W[r] = V[r]
  PROVE  W = Grown(V, s, E)
<1> DEFINE X == [V EXCEPT ![s] = @ \cup E]
<1>1. X = [r \in Sides |-> X[r]] /\ \A r \in Sides : X[r] = W[r]
  BY DEF BySide
<1> HIDE DEF X
<1>2. W = X
  BY <1>1 DEF BySide
<1> QED
  BY <1>2 DEF X, Grown

LEMMA ViewsAre ==
  /\ BySide(Kept) /\ BySide(Kept') /\ BySide(Applied) /\ BySide(Applied')
  /\ BySide(Posted) /\ BySide(Posted') /\ BySide(Closed) /\ BySide(Closed')
  /\ BySide(Dropped) /\ BySide(Dropped')
<1>1. BySide(Kept) /\ BySide(Kept')
  BY DEF BySide, Kept
<1>2. BySide(Applied) /\ BySide(Applied')
  BY DEF BySide, Applied
<1>3. BySide(Posted) /\ BySide(Posted')
  BY DEF BySide, Posted
<1>4. BySide(Closed) /\ BySide(Closed')
  BY DEF BySide, Closed
<1>5. BySide(Dropped) /\ BySide(Dropped')
  BY DEF BySide, Dropped
<1> QED
  BY <1>1, <1>2, <1>3, <1>4, <1>5

\* Two such are equal side by side.
LEMMA SameIs ==
  ASSUME NEW V, NEW W, BySide(V), BySide(W), \A s \in Sides : V[s] = W[s]
  PROVE  V = W
  BY DEF BySide

IsApplied(s, e) == inbox[Peer(s)][e.id] = "applied"
IsClosed(s, e) == inbox[Peer(s)][e.id] \in {"discarded", "stuck", "pending", "failed"}

LEMMA MembersAre ==
  \A s \in Sides : \A e :
     /\ e \in Kept[s] <=> e \in log[s] /\ IsKept(s, e)
     /\ e \in Kept'[s] <=> e \in log'[s] /\ IsKept(s, e)'
     /\ e \in Applied[s] <=> e \in log[s] /\ IsApplied(s, e)
     /\ e \in Applied'[s] <=> e \in log'[s] /\ IsApplied(s, e)'
     /\ e \in Posted[s] <=> e \in log[s] /\ IsPosted(s, e)
     /\ e \in Posted'[s] <=> e \in log'[s] /\ IsPosted(s, e)'
     /\ e \in Closed[s] <=> e \in log[s] /\ IsClosed(s, e)
     /\ e \in Closed'[s] <=> e \in log'[s] /\ IsClosed(s, e)'
     /\ e \in Dropped[s] <=> e \in log[s] /\ IsDropped(s, e)
     /\ e \in Dropped'[s] <=> e \in log'[s] /\ IsDropped(s, e)'
<1>1. \A s \in Sides : \A e :
         /\ e \in Kept[s] <=> e \in log[s] /\ IsKept(s, e)
         /\ e \in Kept'[s] <=> e \in log'[s] /\ IsKept(s, e)'
  BY DEF Kept
<1>2. \A s \in Sides : \A e :
         /\ e \in Applied[s] <=> e \in log[s] /\ IsApplied(s, e)
         /\ e \in Applied'[s] <=> e \in log'[s] /\ IsApplied(s, e)'
  BY DEF Applied, IsApplied, RowSays
<1>3. \A s \in Sides : \A e :
         /\ e \in Posted[s] <=> e \in log[s] /\ IsPosted(s, e)
         /\ e \in Posted'[s] <=> e \in log'[s] /\ IsPosted(s, e)'
  BY DEF Posted
<1>4. \A s \in Sides : \A e :
         /\ e \in Closed[s] <=> e \in log[s] /\ IsClosed(s, e)
         /\ e \in Closed'[s] <=> e \in log'[s] /\ IsClosed(s, e)'
  BY DEF Closed, IsClosed, RowSays
<1>5. \A s \in Sides : \A e :
         /\ e \in Dropped[s] <=> e \in log[s] /\ IsDropped(s, e)
         /\ e \in Dropped'[s] <=> e \in log'[s] /\ IsDropped(s, e)'
  BY DEF Dropped
<1> QED
  BY <1>1, <1>2, <1>3, <1>4, <1>5

\* What stays so of the old events, and is not so of new ones, is the same view.
LEMMA ViewsSame ==
  ASSUME \A s \in Sides : log[s] \subseteq log'[s]
  PROVE  /\ (\A s \in Sides : \A e \in log'[s] : IsKept(s, e)' <=> e \in log[s] /\ IsKept(s, e))
               => Kept' = Kept
         /\ (\A s \in Sides : \A e \in log'[s] :
                IsApplied(s, e)' <=> e \in log[s] /\ IsApplied(s, e)) => Applied' = Applied
         /\ (\A s \in Sides : \A e \in log'[s] :
                IsPosted(s, e)' <=> e \in log[s] /\ IsPosted(s, e)) => Posted' = Posted
         /\ (\A s \in Sides : \A e \in log'[s] :
                IsClosed(s, e)' <=> e \in log[s] /\ IsClosed(s, e)) => Closed' = Closed
         /\ (\A s \in Sides : \A e \in log'[s] :
                IsDropped(s, e)' <=> e \in log[s] /\ IsDropped(s, e)) => Dropped' = Dropped
<1>1. ASSUME \A s \in Sides : \A e \in log'[s] : IsKept(s, e)' <=> e \in log[s] /\ IsKept(s, e)
      PROVE  Kept' = Kept
  <2>1. \A s \in Sides : Kept'[s] = Kept[s]
    BY <1>1, MembersAre
  <2> QED
    BY <2>1, ViewsAre, SameIs
<1>2. ASSUME \A s \in Sides : \A e \in log'[s] :
                IsApplied(s, e)' <=> e \in log[s] /\ IsApplied(s, e)
      PROVE  Applied' = Applied
  <2>1. \A s \in Sides : Applied'[s] = Applied[s]
    BY <1>2, MembersAre
  <2> QED
    BY <2>1, ViewsAre, SameIs
<1>3. ASSUME \A s \in Sides : \A e \in log'[s] :
                IsPosted(s, e)' <=> e \in log[s] /\ IsPosted(s, e)
      PROVE  Posted' = Posted
  <2>1. \A s \in Sides : Posted'[s] = Posted[s]
    BY <1>3, MembersAre
  <2> QED
    BY <2>1, ViewsAre, SameIs
<1>4. ASSUME \A s \in Sides : \A e \in log'[s] :
                IsClosed(s, e)' <=> e \in log[s] /\ IsClosed(s, e)
      PROVE  Closed' = Closed
  <2>1. \A s \in Sides : Closed'[s] = Closed[s]
    BY <1>4, MembersAre
  <2> QED
    BY <2>1, ViewsAre, SameIs
<1>5. ASSUME \A s \in Sides : \A e \in log'[s] :
                IsDropped(s, e)' <=> e \in log[s] /\ IsDropped(s, e)
      PROVE  Dropped' = Dropped
  <2>1. \A s \in Sides : Dropped'[s] = Dropped[s]
    BY <1>5, MembersAre
  <2> QED
    BY <2>1, ViewsAre, SameIs
<1> QED
  BY <1>1, <1>2, <1>3, <1>4, <1>5

\* A step that changes what is so of one event.
Elsewhere(s, e) ==
    \A q \in Sides : \A f \in log[q] : q # s \/ f # e =>
        /\ inbox'[Peer(q)][f.id] = inbox[Peer(q)][f.id]
        /\ IsKept(q, f)' <=> IsKept(q, f)

LEMMA OneRow ==
  ASSUME UNCHANGED log, NEW s \in Sides, NEW e \in log[s], Elsewhere(s, e)
  PROVE  /\ IsApplied(s, e)' => Applied' = Grown(Applied, s, {e})
         /\ (IsApplied(s, e)' <=> IsApplied(s, e)) => Applied' = Applied
         /\ IsClosed(s, e)' => Closed' = Grown(Closed, s, {e})
         /\ (IsClosed(s, e)' <=> IsClosed(s, e)) => Closed' = Closed
         /\ IsKept(s, e)' => Kept' = Grown(Kept, s, {e})
         /\ (IsKept(s, e)' <=> IsKept(s, e)) => Kept' = Kept
<1>1. \A q \in Sides : \A f \in log[q] : q # s \/ f # e =>
         /\ IsApplied(q, f)' <=> IsApplied(q, f)
         /\ IsClosed(q, f)' <=> IsClosed(q, f)
         /\ IsKept(q, f)' <=> IsKept(q, f)
  BY DEF Elsewhere, IsApplied, IsClosed
<1>2. ASSUME IsApplied(s, e)' PROVE Applied' = Grown(Applied, s, {e})
  <2>1. \A f : f \in Applied'[s] <=> f \in Applied[s] \cup {e}
    BY <1>1, <1>2, MembersAre
  <2>2. \A q \in Sides : q # s => \A f : f \in Applied'[q] <=> f \in Applied[q]
    BY <1>1, MembersAre
  <2>3. Applied'[s] = Applied[s] \cup {e} /\ \A q \in Sides : q # s => Applied'[q] = Applied[q]
    BY <2>1, <2>2
  <2>4. BySide(Applied) /\ BySide(Applied')
    BY ViewsAre
  <2> QED
    BY ONLY <2>3, <2>4, s \in Sides, GrownIs
<1>3. ASSUME IsClosed(s, e)' PROVE Closed' = Grown(Closed, s, {e})
  <2>1. \A f : f \in Closed'[s] <=> f \in Closed[s] \cup {e}
    BY <1>1, <1>3, MembersAre
  <2>2. \A q \in Sides : q # s => \A f : f \in Closed'[q] <=> f \in Closed[q]
    BY <1>1, MembersAre
  <2>3. Closed'[s] = Closed[s] \cup {e} /\ \A q \in Sides : q # s => Closed'[q] = Closed[q]
    BY <2>1, <2>2
  <2>4. BySide(Closed) /\ BySide(Closed')
    BY ViewsAre
  <2> QED
    BY ONLY <2>3, <2>4, s \in Sides, GrownIs
<1>4. ASSUME IsKept(s, e)' PROVE Kept' = Grown(Kept, s, {e})
  <2>1. \A f : f \in Kept'[s] <=> f \in Kept[s] \cup {e}
    BY <1>1, <1>4, MembersAre
  <2>2. \A q \in Sides : q # s => \A f : f \in Kept'[q] <=> f \in Kept[q]
    BY <1>1, MembersAre
  <2>3. Kept'[s] = Kept[s] \cup {e} /\ \A q \in Sides : q # s => Kept'[q] = Kept[q]
    BY <2>1, <2>2
  <2>4. BySide(Kept) /\ BySide(Kept')
    BY ViewsAre
  <2> QED
    BY ONLY <2>3, <2>4, s \in Sides, GrownIs
<1>5. (IsApplied(s, e)' <=> IsApplied(s, e)) => Applied' = Applied
  BY <1>1, ViewsSame
<1>6. (IsClosed(s, e)' <=> IsClosed(s, e)) => Closed' = Closed
  BY <1>1, ViewsSame
<1>7. (IsKept(s, e)' <=> IsKept(s, e)) => Kept' = Kept
  BY <1>1, ViewsSame
<1> QED
  BY <1>2, <1>3, <1>4, <1>5, <1>6, <1>7

\* Ids tell a side's events apart.
LEMMA OtherEvent ==
  ASSUME Base, NEW s \in Sides, NEW e \in log[s], NEW q \in Sides, NEW f \in log[q],
         q # s \/ f # e
  PROVE  (Peer(q) # Peer(s) \/ f.id # e.id) /\ f.id \in Nat /\ f.o \in Orders
<1>1. Peer(s) \in Sides /\ Peer(q) \in Sides /\ Peer(Peer(s)) = s /\ Peer(Peer(q)) = q
  BY PeerIs
<1>2. f.id \in Nat /\ f.o \in Orders
  BY <1>1, EventIs
<1> QED
  BY <1>1, <1>2 DEF Base, Distinct

\* An answer is a step of the delivery, or none.
LEMMA AnswerDelivers ==
  ASSUME IInv, NEW r \in Sides, NEW e \in log[Peer(r)], Answers(r, e),
         UNCHANGED <<tx, log, pushed, cursor>>, LettersSame
  PROVE  \/ UNCHANGED D!vars
         \/ D!Hold(Peer(r), e) \/ D!Apply(Peer(r), e) \/ D!Close(Peer(r), e)
<1> DEFINE s == Peer(r)
           was == inbox[r][e.id]
           row == inbox'[r][e.id]
<1>0. /\ Base /\ s \in Sides /\ Peer(s) = r /\ e \in log[s] /\ UNCHANGED log
      /\ e.o \in Orders /\ e.id \in Nat
  BY PeerIs, EventIs DEF IInv
<1>1. PICK dead \in {"dead", "stuck"}, ok \in BOOLEAN : Receive(r, e, dead, ok)
  BY DEF Answers
<1>2. /\ \A q \in Sides, k \in Nat : q # r \/ k # e.id => inbox'[q][k] = inbox[q][k]
      /\ UNCHANGED <<copy, inbox, now, floor>> \/ Receives(r, e, dead)
  BY <1>0, <1>1, ReceiveIs
<1>3. \A q \in Sides : \A f \in log[q] :
         f.id \in Nat /\ (q = "central" => f.id \in Ids("central"))
  <2>1. \A q \in Sides : \A f \in log[q] : f.id \in Ids(q) /\ f.id \in Nat
    BY <1>0, EventIs, PeerIs
  <2> QED
    BY <2>1
<1>4. \A q \in Sides : \A f \in log[q] : q # s \/ f # e =>
         inbox'[Peer(q)][f.id] = inbox[Peer(q)][f.id]
  BY <1>0, <1>2, OtherEvent, PeerIs
<1>5. Elsewhere(s, e)
  BY <1>3, <1>4 DEF Elsewhere, IsKept, RowSays, LettersSame
<1>6. Dropped' = Dropped
  BY DEF Dropped, IsDropped
<1>7. CASE UNCHANGED <<copy, inbox>>
  <2>1. \A q \in Sides : \A f \in log[q] :
           /\ IsKept(q, f)' <=> IsKept(q, f)
           /\ IsApplied(q, f)' <=> IsApplied(q, f)
           /\ IsPosted(q, f)' <=> IsPosted(q, f)
           /\ IsClosed(q, f)' <=> IsClosed(q, f)
    BY <1>3, <1>7 DEF IsKept, RowSays, LettersSame, IsApplied, IsPosted, IsClosed
  <2> QED
    BY <1>0, <1>6, <2>1, ViewsSame DEF D!vars
<1>8. CASE ~UNCHANGED <<copy, inbox>>
  <2>1. Receives(r, e, dead)
    BY <1>2, <1>8
  <2>2. was \in {"none", "deferred"} /\ row \in Rows /\ row # "none"
    BY <2>1 DEF Receives
  <2>3. row \in Outcomes => IsKept(s, e)'
    BY <1>0 DEF IsKept, RowSays
  <2>4. ~IsApplied(s, e) /\ ~IsClosed(s, e) /\ e \notin Applied[s] /\ e \notin Closed[s]
    <3>1. ~IsApplied(s, e) /\ ~IsClosed(s, e)
      BY <1>0, <2>2 DEF IsApplied, IsClosed
    <3> QED
      BY <1>0, <3>1, MembersAre
  <2>5. /\ IsApplied(s, e)' <=> row = "applied"
        /\ IsClosed(s, e)' <=> row \in {"discarded", "stuck", "pending", "failed"}
    BY <1>0 DEF IsApplied, IsClosed
  <2>6. IF e.kind = "pay" /\ row = "applied" THEN Posted' = Grown(Posted, s, {e})
                                            ELSE Posted' = Posted
    <3>1. CASE \A q \in Sides, o \in Orders : copy'[q][o].paid = copy[q][o].paid
      <4>1. ~(e.kind = "pay" /\ row = "applied")
        BY <1>0, <1>8, <3>1, PaidThere, PairIs
      <4>2. \A q \in Sides : \A f \in log[q] : IsPosted(q, f)' <=> IsPosted(q, f)
        BY <1>0, <3>1, EventIs, PeerIs DEF IsPosted
      <4> QED
        BY <1>0, <4>1, <4>2, ViewsSame
    <3>2. CASE ~\A q \in Sides, o \in Orders : copy'[q][o].paid = copy[q][o].paid
      <4>1. /\ e.kind = "pay" /\ row = "applied"
            /\ copy[r][e.o].paid = <<>> /\ copy'[r][e.o].paid = << <<s, e.id>> >>
            /\ \A q \in Sides, o \in Orders : q # r \/ o # e.o => copy'[q][o] = copy[q][o]
        BY <1>0, <3>2, PaidThere
      <4>2. IsPosted(s, e)'
        BY <1>0, <4>1 DEF IsPosted
      <4>3. ASSUME NEW q \in Sides, NEW f \in log[q], q # s \/ f # e
            PROVE  IsPosted(q, f)' <=> IsPosted(q, f)
        <5>1. (Peer(q) # r \/ f.id # e.id) /\ f.o \in Orders /\ Peer(q) \in Sides
          BY <1>0, <4>3, OtherEvent, PeerIs
        <5>2. CASE Peer(q) # r \/ f.o # e.o
          BY <4>1, <5>1, <5>2 DEF IsPosted
        <5>3. CASE Peer(q) = r /\ f.o = e.o
          <6>1. << <<s, e.id>> >> # << <<q, f.id>> >> /\ <<>> # << <<q, f.id>> >>
            BY <5>1, <5>3, PairIs
          <6> QED
            BY <4>1, <5>3, <6>1 DEF IsPosted
        <5> QED
          BY <5>2, <5>3
      <4>4. \A f : f \in Posted'[s] <=> f \in Posted[s] \cup {e}
        BY <1>0, <4>2, <4>3, MembersAre
      <4>5. \A q \in Sides : q # s => \A f : f \in Posted'[q] <=> f \in Posted[q]
        BY <4>3, MembersAre
      <4>6. Posted'[s] = Posted[s] \cup {e} /\ \A q \in Sides : q # s => Posted'[q] = Posted[q]
        BY <4>4, <4>5
      <4>7. BySide(Posted) /\ BySide(Posted') /\ s \in Sides
        BY <1>0, ViewsAre
      <4>8. Posted' = Grown(Posted, s, {e})
        BY ONLY <4>6, <4>7, GrownIs
      <4> QED
        BY <4>1, <4>8
    <3> QED
      BY <3>1, <3>2
  <2>7. CASE row = "applied"
    <3>1. Applied' = Grown(Applied, s, {e}) /\ Kept' = Grown(Kept, s, {e}) /\ Closed' = Closed
      BY <1>0, <1>5, <2>3, <2>4, <2>5, <2>7, OneRow DEF Outcomes
    <3> QED
      BY <1>6, <2>4, <2>6, <2>7, <3>1 DEF D!Apply, Grown
  <2>8. CASE row \in Outcomes \ {"applied", "discarded", "stuck"}
    <3>1. Applied' = Applied /\ Kept' = Grown(Kept, s, {e}) /\ Closed' = Closed
      BY <1>0, <1>5, <2>3, <2>4, <2>5, <2>8, OneRow DEF Outcomes
    <3> QED
      BY <1>6, <2>6, <2>8, <3>1 DEF D!Hold, Grown
  <2>9. CASE row \in {"discarded", "stuck", "pending", "failed"}
    <3>1. Applied' = Applied /\ Closed' = Grown(Closed, s, {e})
      BY <1>0, <1>5, <2>4, <2>5, <2>9, OneRow
    <3>2. Kept' = Kept \/ Kept' = Grown(Kept, s, {e})
      <4>1. IsKept(s, e) => IsKept(s, e)'
        BY <1>0, <1>3, <2>1, <1>1, OutcomesStay DEF IsKept, RowSays, LettersSame
      <4> QED
        BY <1>0, <1>5, <4>1, OneRow
    <3> QED
      BY <1>6, <2>4, <2>6, <2>9, <3>1, <3>2 DEF D!Close, Grown
  <2> QED
    BY <2>2, <2>7, <2>8, <2>9 DEF Rows, Outcomes
<1> QED
  BY <1>7, <1>8

\* What is recorded now was neither held, posted nor dropped before.
LEMMA CommitDelivers ==
  ASSUME IInv, Linked, NEW s \in Sides, NEW o \in Orders, Commit(s, o)
  PROVE  D!Record(s)
<1>0. Base /\ Base' /\ Carried /\ Linked
  BY CommitInv DEF IInv
<1>1. /\ tx[s][o].id # 0
      /\ log' \in [Sides -> SUBSET EventType]
      /\ log'[s] = log[s] \cup Recorded(s, o)
      /\ \A r \in Sides : r # s => log'[r] = log[r]
      /\ \A r \in Sides, p \in Orders : r # s \/ p # o => copy'[r][p] = copy[r][p]
      /\ UNCHANGED <<inbox, pushed, cursor, letters>>
  BY <1>0, CommitIs DEF transport
<1>2. log' = [log EXCEPT ![s] = @ \cup log'[s]]
  <2> DEFINE X == [log EXCEPT ![s] = @ \cup log'[s]]
  <2>1. BySide(log') /\ BySide(X) /\ \A r \in Sides : log'[r] = X[r]
    BY <1>0, <1>1 DEF BySide, Base, Types
  <2> HIDE DEF X
  <2>2. log' = X
    BY <2>1, SameIs
  <2> QED
    BY <2>2 DEF X
<1>3. \A r \in Sides : log[r] \subseteq log'[r]
  BY <1>1
<1>4. ASSUME NEW e \in log'[s], e \notin log[s]
      PROVE  /\ \A f \in log[s] : f.id # e.id
             /\ e.id \in Ids(s) /\ e.id \in Nat
             /\ tx[s][o] # NoTx /\ e.xid = tx[s][o].xid
  <2>1. e \in Recorded(s, o)
    BY <1>1, <1>4
  <2>2. e.id \in Taken(tx[s][o]) /\ e.xid = tx[s][o].xid
    BY <1>0, <1>1, <2>1, RecordedIs
  <2>3. tx[s][o] # NoTx
    BY <1>0, <1>1, ChangedIs
  <2>4. e.id \in 1..number[s]
    BY <1>0, <2>2 DEF Base, Distinct
  <2> QED
    BY <1>0, <2>2, <2>3, <2>4, IdIn DEF Base, Distinct
<1>5. ASSUME NEW e \in log'[s], e \notin log[s]
      PROVE  inbox[Peer(s)][e.id] = "none" /\ (s = "central" => letters[e.id] = "none")
  <2>1. Peer(s) \in Sides /\ Peer(Peer(s)) = s
    BY PeerIs
  <2> QED
    BY <1>0, <1>4, <1>5, <2>1 DEF Base, Received, Linked, LettersFromLog
<1>6. \A q \in Sides : \A e \in log'[q] : e \in log[q] \/ (q = s /\ e \notin log[s])
  BY <1>1
<1>7. \A q \in Sides : \A e \in log'[q] : IsKept(q, e)' <=> e \in log[q] /\ IsKept(q, e)
  BY <1>1, <1>5, <1>6 DEF IsKept, RowSays, Outcomes
<1>8. \A q \in Sides : \A e \in log'[q] :
         IsApplied(q, e)' <=> e \in log[q] /\ IsApplied(q, e)
  BY <1>1, <1>5, <1>6 DEF IsApplied
<1>9. \A q \in Sides : \A e \in log'[q] : IsClosed(q, e)' <=> e \in log[q] /\ IsClosed(q, e)
  BY <1>1, <1>5, <1>6 DEF IsClosed
<1>10. \A q \in Sides : \A e \in log'[q] :
          IsDropped(q, e)' <=> e \in log[q] /\ IsDropped(q, e)
  <2>1. ASSUME NEW e \in log'[s], e \notin log[s] PROVE ~IsDropped(s, e)'
    <3>1. CASE s = "site"
      BY <1>0, <1>1, <1>5, <2>1, <3>1, PeerIs DEF IsDropped, Carried, Decided, Outcomes
    <3>2. CASE s = "central"
      <4>1. cursor[1] < e.xid
        BY <1>0, <1>4, <2>1, <3>2 DEF Carried, Passes
      <4> QED
        BY <1>1, <3>2, <4>1 DEF IsDropped, Before, Position
    <3> QED
      BY <3>1, <3>2 DEF Sides
  <2>2. \A q \in Sides : \A e \in log[q] : IsDropped(q, e)' <=> IsDropped(q, e)
    BY <1>1 DEF IsDropped
  <2> QED
    BY <1>3, <1>6, <2>1, <2>2
<1>11. \A q \in Sides : \A e \in log'[q] : IsPosted(q, e)' <=> e \in log[q] /\ IsPosted(q, e)
  <2>1. ASSUME NEW e \in log'[s], e \notin log[s] PROVE ~IsPosted(s, e)'
    <3>1. Peer(s) \in Sides /\ Peer(Peer(s)) = s /\ Peer(s) # s
      BY PeerIs
    <3>2. e.o \in Orders
      BY <1>1, <2>1 DEF EventType
    <3>3. copy'[Peer(s)][e.o] = copy[Peer(s)][e.o]
      BY <1>1, <3>1, <3>2
    <3>4. copy[Peer(s)][e.o].paid # << <<s, e.id>> >>
      <4>1. \A f \in log[s] : << <<s, f.id>> >> # << <<s, e.id>> >>
        BY <1>4, <2>1, PairIs
      <4>2. << <<s, e.id>> >> # <<>> /\ << <<s, e.id>> >>[1][1] = s
        BY PairIs
      <4> QED
        BY <1>0, <3>1, <3>2, <4>1, <4>2 DEF Linked, PaidFromLog
    <3> QED
      BY <3>3, <3>4 DEF IsPosted
  <2>2. ASSUME NEW q \in Sides, NEW e \in log[q] PROVE IsPosted(q, e)' <=> IsPosted(q, e)
    <3>1. Peer(q) \in Sides /\ Peer(q) # q /\ e \in log[Peer(Peer(q))]
      BY PeerIs
    <3>2. e.o \in Orders
      BY <1>0, <3>1, EventIs
    <3>3. CASE Peer(q) # s \/ e.o # o
      BY <1>1, <3>1, <3>2, <3>3 DEF IsPosted
    <3>4. CASE Peer(q) = s /\ e.o = o
      <4>1. \A i : << <<s, i>> >> # << <<q, e.id>> >> /\ <<>> # << <<q, e.id>> >>
        BY <3>1, <3>4, PairIs
      <4> QED
        BY <1>0, <3>4, <4>1, PaidHere DEF IsPosted
    <3> QED
      BY <3>3, <3>4
  <2> QED
    BY <1>3, <1>6, <2>1, <2>2
<1>12. Kept' = Kept /\ Applied' = Applied /\ Posted' = Posted /\ Closed' = Closed
       /\ Dropped' = Dropped
  BY <1>3, <1>7, <1>8, <1>9, <1>10, <1>11, ViewsSame
<1> QED
  BY <1>2, <1>12 DEF D!Record

LEMMA PostedSame ==
  ASSUME UNCHANGED <<log, copy>>
  PROVE  Posted' = Posted
  BY DEF Posted, IsPosted

LEMMA LetterDelivers ==
  ASSUME IInv, NEW r \in Sides, NEW e \in log[Peer(r)],
         RetryLetter(r, e) \/ DiscardLetter(r, e)
  PROVE  UNCHANGED D!vars \/ D!Close(Peer(r), e)
<1> DEFINE s == Peer(r)
<1>0. /\ Base /\ s \in Sides /\ Peer(s) = r /\ e \in log[s] /\ e.id \in Nat
  BY PeerIs, EventIs DEF IInv
<1>1. /\ UNCHANGED <<log, copy, pushed, cursor, letters>>
      /\ inbox[r][e.id] = "dead"
      /\ inbox'[r][e.id] \in {"deferred", "discarded"}
      /\ \A q \in Sides, k \in Nat : q # r \/ k # e.id => inbox'[q][k] = inbox[q][k]
  BY <1>0, LetterIs DEF transport
<1>2. \A q \in Sides : \A f \in log[q] : q # s \/ f # e =>
         inbox'[Peer(q)][f.id] = inbox[Peer(q)][f.id]
  BY <1>0, <1>1, OtherEvent, PeerIs
<1>3. Elsewhere(s, e)
  BY <1>1, <1>2 DEF Elsewhere, IsKept, RowSays
<1>4. Dropped' = Dropped /\ Posted' = Posted
  BY <1>1, PostedSame DEF Dropped, IsDropped
<1>5. /\ IsKept(s, e)' /\ IsKept(s, e) /\ ~IsApplied(s, e)' /\ ~IsApplied(s, e)
      /\ ~IsClosed(s, e) /\ (IsClosed(s, e)' <=> inbox'[r][e.id] = "discarded")
  BY <1>0, <1>1 DEF IsKept, RowSays, IsApplied, IsClosed, Outcomes
<1>6. Kept' = Kept /\ Applied' = Applied
  BY <1>0, <1>1, <1>3, <1>5, OneRow
<1>7. CASE inbox'[r][e.id] = "discarded"
  <2>1. Closed' = Grown(Closed, s, {e})
    BY <1>0, <1>1, <1>3, <1>5, <1>7, OneRow
  <2>2. e \notin Applied[s]
    BY <1>0, <1>5, MembersAre
  <2> QED
    BY <1>1, <1>4, <1>6, <2>1, <2>2 DEF D!Close, Grown
<1>8. CASE inbox'[r][e.id] # "discarded"
  <2>1. Closed' = Closed
    BY <1>0, <1>1, <1>3, <1>5, <1>8, OneRow
  <2> QED
    BY <1>1, <1>4, <1>6, <2>1 DEF D!vars
<1> QED
  BY <1>7, <1>8

LEMMA PullLetterDelivers ==
  ASSUME IInv, RecordPullLetter
  PROVE  \E e \in log["central"] : D!Hold("central", e)
<1>1. PICK e \in pull.left :
         /\ letters' = [letters EXCEPT ![e.id] = "open"]
         /\ UNCHANGED <<clock, copy, inbox, Local, faults, pushed, refused, push, orphan, cursor>>
  BY FirstIsIn DEF RecordPullLetter
<1>2. Base /\ Carried /\ e \in log["central"] /\ "central" \in Sides
  BY CarriedIs, PeerIs DEF IInv
<1>3. UNCHANGED <<log, copy, inbox, pushed, cursor>>
  BY <1>1 DEF Local
<1>4. /\ e.id \in Ids("central") /\ letters'[e.id] = "open"
      /\ \A i : i # e.id => letters'[i] = letters[i]
  <2>1. e.id \in Ids("central") /\ letters \in [Ids("central") -> {"none", "open", "closed"}]
    BY <1>2, PositionIs DEF Carried, TransportTypes
  <2> QED
    BY <1>1, <2>1
<1>5. \A f \in log["central"] : f # e => f.id # e.id
  BY <1>2 DEF Base, Distinct
<1>6. Elsewhere("central", e)
  BY <1>3, <1>4, <1>5 DEF Elsewhere, IsKept, RowSays
<1>7. /\ IsKept("central", e)'
      /\ IsApplied("central", e)' <=> IsApplied("central", e)
      /\ IsClosed("central", e)' <=> IsClosed("central", e)
  BY <1>3, <1>4 DEF IsKept, RowSays, IsApplied, IsClosed
<1>8. Kept' = Grown(Kept, "central", {e}) /\ Applied' = Applied /\ Closed' = Closed
  BY <1>2, <1>3, <1>6, <1>7, OneRow
<1>9. Dropped' = Dropped /\ Posted' = Posted
  BY <1>3, PostedSame DEF Dropped, IsDropped
<1> QED
  BY <1>2, <1>3, <1>8, <1>9 DEF D!Hold, Grown

\* A sender forgets what is answered for.
LEMMA DropIs ==
  ASSUME UNCHANGED <<log, copy, inbox>>, LettersSame, Base, NEW s \in Sides,
         \A e \in log[s] : IsDropped(s, e) => IsDropped(s, e)',
         \A e \in log[s] : IsDropped(s, e)' => IsKept(s, e),
         \A q \in Sides : q # s => \A e \in log[q] : IsDropped(q, e)' <=> IsDropped(q, e)
  PROVE  D!Drop(s)
<1>1. \A q \in Sides : \A e \in log[q] :
         /\ IsKept(q, e)' <=> IsKept(q, e)
         /\ IsApplied(q, e)' <=> IsApplied(q, e)
         /\ IsClosed(q, e)' <=> IsClosed(q, e)
  <2>1. \A e \in log["central"] : e.id \in Ids("central")
    BY PositionIs
  <2> QED
    BY <2>1 DEF IsKept, RowSays, LettersSame, IsApplied, IsClosed
<1>2. Kept' = Kept /\ Applied' = Applied /\ Closed' = Closed /\ Posted' = Posted
  BY <1>1, ViewsSame, PostedSame
<1>3. Dropped' = Grown(Dropped, s, Dropped'[s])
  <2>1. Dropped[s] \subseteq Dropped'[s]
    BY MembersAre
  <2>2. Dropped'[s] = Dropped[s] \cup Dropped'[s]
    BY <2>1
  <2>3. \A q \in Sides : q # s => \A e : e \in Dropped'[q] <=> e \in Dropped[q]
    BY MembersAre
  <2>4. \A q \in Sides : q # s => Dropped'[q] = Dropped[q]
    BY <2>3
  <2>5. BySide(Dropped) /\ BySide(Dropped')
    BY ViewsAre
  <2> QED
    BY ONLY <2>2, <2>4, <2>5, s \in Sides, GrownIs
<1>4. Dropped'[s] \subseteq Kept[s]
  BY MembersAre
<1> QED
  BY <1>2, <1>3, <1>4 DEF D!Drop, Grown

LEMMA FinishPushDelivers ==
  ASSUME IInv, FinishPush
  PROVE  D!Drop("site")
<1>1. /\ Base /\ Decided /\ "site" \in Sides /\ Peer("site") = "central"
      /\ \A s \in Sides : s # "site" => s = "central"
  BY PeerIs DEF IInv, Carried
<1>2. /\ UNCHANGED <<log, copy, inbox, cursor, letters>>
      /\ pushed' = pushed \cup push.delivered
  BY DEF FinishPush, Local
<1>3. LettersSame
  BY <1>2 DEF LettersSame
<1>4. \A e \in log["site"] : IsDropped("site", e) => IsDropped("site", e)'
  BY <1>2 DEF IsDropped
<1>5. \A e \in log["site"] : IsDropped("site", e)' => IsKept("site", e)
  BY <1>1, <1>2 DEF IsDropped, Decided, IsKept, RowSays
<1>6. \A e \in log["central"] : IsDropped("central", e)' <=> IsDropped("central", e)
  BY <1>2 DEF IsDropped
<1> QED
  BY <1>1, <1>2, <1>3, <1>4, <1>5, <1>6, DropIs

LEMMA SaveCursorDelivers ==
  ASSUME IInv, Linked, SaveCursor
  PROVE  D!Drop("central")
<1>1. /\ Base /\ Carried /\ "central" \in Sides /\ Peer("central") = "site"
      /\ \A s \in Sides : s # "central" => s = "site"
  BY PeerIs DEF IInv, Sides
<1>2. /\ UNCHANGED <<log, copy, inbox, pushed, letters>>
      /\ pull.on /\ cursor' = pull.at
  BY DEF SaveCursor, Local
<1>3. LettersSame
  BY <1>2 DEF LettersSame
<1>4. ASSUME NEW e \in log["central"], ~Before(cursor, Position(e))
      PROVE  ~Before(pull.at, Position(e))
  <2>1. cursor \in Nat \X Nat /\ pull.at \in Nat \X Nat /\ Position(e) \in Nat \X Nat
    BY <1>1, CarriedIs, PositionIs
  <2>2. ~Before(pull.at, cursor)
    BY <1>2 DEF Linked
  <2> QED
    BY <1>4, <2>1, <2>2, BeforeIs
<1>5. \A e \in log["central"] : IsDropped("central", e) => IsDropped("central", e)'
  BY <1>2, <1>4 DEF IsDropped
<1>6. \A e \in log["central"] : IsDropped("central", e)' => IsKept("central", e)
  BY <1>1, <1>2 DEF IsDropped, Carried, Passes, Held, IsKept, RowSays
<1>7. \A e \in log["site"] : IsDropped("site", e)' <=> IsDropped("site", e)
  BY <1>2 DEF IsDropped
<1> QED
  BY <1>1, <1>2, <1>3, <1>5, <1>6, <1>7, DropIs

LEMMA StayDelivers ==
  ASSUME Base, UNCHANGED <<log, copy, inbox, pushed, cursor>>, LettersSame
  PROVE  UNCHANGED D!vars
<1>1. \A e \in log["central"] : e.id \in Ids("central")
  BY PositionIs
<1>2. \A q \in Sides : \A e \in log[q] :
         /\ IsKept(q, e)' <=> IsKept(q, e)
         /\ IsApplied(q, e)' <=> IsApplied(q, e)
         /\ IsClosed(q, e)' <=> IsClosed(q, e)
         /\ IsDropped(q, e)' <=> IsDropped(q, e)
  BY <1>1 DEF IsKept, RowSays, LettersSame, IsApplied, IsClosed, IsDropped
<1> QED
  BY <1>2, ViewsSame, PostedSame DEF D!vars

LEMMA InitDelivers == Init => D!Init
<1> SUFFICES ASSUME Init PROVE D!Init
  OBVIOUS
<1>1. log = [s \in Sides |-> {}]
  BY DEF Init
<1>2. \A s \in Sides : log[s] = {}
  BY <1>1
<1>3. \A s \in Sides : Kept[s] = {} /\ Applied[s] = {} /\ Posted[s] = {} /\ Closed[s] = {}
                       /\ Dropped[s] = {}
  BY <1>2, MembersAre
<1>4. BySide(log)
  BY <1>1, <1>2 DEF BySide
<1>4a. \A s \in Sides : Kept[s] = log[s] /\ Applied[s] = log[s] /\ Posted[s] = log[s]
                        /\ Closed[s] = log[s] /\ Dropped[s] = log[s]
  BY <1>2, <1>3
<1>4b. BySide(Kept) /\ BySide(Applied) /\ BySide(Posted) /\ BySide(Closed) /\ BySide(Dropped)
  BY ViewsAre
<1>4c. Kept = log
  BY ONLY <1>4, <1>4a, <1>4b, SameIs
<1>4d. Applied = log
  BY ONLY <1>4, <1>4a, <1>4b, SameIs
<1>4e. Posted = log
  BY ONLY <1>4, <1>4a, <1>4b, SameIs
<1>4f. Closed = log
  BY ONLY <1>4, <1>4a, <1>4b, SameIs
<1>4g. Dropped = log
  BY ONLY <1>4, <1>4a, <1>4b, SameIs
<1>5. Kept = log /\ Applied = log /\ Posted = log /\ Closed = log /\ Dropped = log
  BY <1>4c, <1>4d, <1>4e, <1>4f, <1>4g
<1> QED
  BY <1>1, <1>5 DEF D!Init

LEMMA NextDelivers == IInv /\ Linked /\ [Next]_vars => [D!Next]_(D!vars)
<1> SUFFICES ASSUME IInv, Linked, [Next]_vars PROVE D!Next \/ UNCHANGED D!vars
  OBVIOUS
<1>0. Base /\ "site" \in Sides /\ "central" \in Sides
  BY PeerIs DEF IInv
<1>1. CASE UNCHANGED <<log, copy, inbox, pushed, cursor>> /\ LettersSame
  BY <1>0, <1>1, StayDelivers
<1>2. ASSUME NEW s \in Sides, NEW o \in Orders, Commit(s, o) PROVE D!Next
  BY <1>2, CommitDelivers DEF D!Next
<1>3. ASSUME NEW r \in Sides, NEW e \in log[Peer(r)], Answers(r, e),
             UNCHANGED <<tx, log, pushed, cursor>>, LettersSame
      PROVE  D!Next \/ UNCHANGED D!vars
  BY <1>3, AnswerDelivers, PeerIs DEF D!Next
<1>4. ASSUME NEW r \in Sides, NEW e \in log[Peer(r)], RetryLetter(r, e) \/ DiscardLetter(r, e)
      PROVE  D!Next \/ UNCHANGED D!vars
  BY <1>4, LetterDelivers, PeerIs DEF D!Next
<1>5. CASE RecordPullLetter
  BY <1>0, <1>5, PullLetterDelivers DEF D!Next
<1>6. CASE FinishPush
  BY <1>0, <1>6, FinishPushDelivers DEF D!Next
<1>7. CASE SaveCursor
  BY <1>0, <1>7, SaveCursorDelivers DEF D!Next
<1> QED
  BY <1>1, <1>2, <1>3, <1>4, <1>5, <1>6, <1>7, StepIs

\* Whatever is asked for, commits late, fails, is lost or crashes, each side's
\* events meet their fate as Delivery says: applied at most once and never once
\* closed, a payment posted by that alone, and no event marked pushed or passed
\* by the cursor that nobody holds.
THEOREM Refinement == Spec => ImplementsDelivery
<1>1. Init => D!Init
  BY InitDelivers
<1>2. IInv /\ Linked /\ [Next]_vars => [D!Next]_(D!vars)
  BY NextDelivers
<1> QED
  BY <1>1, <1>2, AllLinked, PTL DEF Spec, ImplementsDelivery, D!Spec

\* What a grown view holds.
LEMMA GrownHas ==
  ASSUME NEW V, NEW W, NEW s \in Sides, NEW E, BySide(V), W = Grown(V, s, E)
  PROVE  W[s] = V[s] \cup E /\ \A q \in Sides : q # s => W[q] = V[q]
<1>1. DOMAIN V = Sides
  BY DEF BySide
<1> QED
  BY <1>1 DEF Grown

LEMMA FatesStay == D!Fates /\ [D!Next]_(D!vars) => D!Fates'
<1> SUFFICES ASSUME D!Fates, [D!Next]_(D!vars) PROVE D!Fates'
  OBVIOUS
<1>0. /\ BySide(Kept) /\ BySide(Applied) /\ BySide(Posted) /\ BySide(Closed) /\ BySide(Dropped)
  BY ViewsAre
<1>1. CASE UNCHANGED D!vars
  BY <1>1 DEF D!vars, D!Fates
<1>2. ASSUME NEW s \in Sides, D!Record(s) PROVE D!Fates'
  BY <1>2 DEF D!Record, D!Fates
<1>3. ASSUME NEW s \in Sides, D!Drop(s) PROVE D!Fates'
  <2>1. Dropped' = Grown(Dropped, s, Dropped'[s]) /\ Dropped'[s] \subseteq Kept[s]
        /\ UNCHANGED <<Kept, Applied, Posted, Closed>>
    BY <1>3 DEF D!Drop, Grown
  <2>2. \A q \in Sides : q # s => Dropped'[q] = Dropped[q]
    BY <1>0, <2>1, GrownHas
  <2> QED
    BY <2>1, <2>2 DEF D!Fates
<1>4. ASSUME NEW s \in Sides, NEW e \in log[s], D!Hold(s, e) PROVE D!Fates'
  <2>1. Kept' = Grown(Kept, s, {e}) /\ UNCHANGED <<Applied, Posted, Closed, Dropped>>
    BY <1>4 DEF D!Hold, Grown
  <2>2. Kept'[s] = Kept[s] \cup {e} /\ \A q \in Sides : q # s => Kept'[q] = Kept[q]
    BY ONLY <1>0, <2>1, s \in Sides, GrownHas
  <2> QED
    BY <2>1, <2>2 DEF D!Fates
<1>5. ASSUME NEW s \in Sides, NEW e \in log[s], D!Apply(s, e) PROVE D!Fates'
  <2>1. e \notin Closed[s] /\ UNCHANGED <<Closed, Dropped>>
    BY <1>5 DEF D!Apply
  <2>2. Applied'[s] = Applied[s] \cup {e} /\ \A q \in Sides : q # s => Applied'[q] = Applied[q]
    <3>1. Applied' = Grown(Applied, s, {e})
      BY <1>5 DEF D!Apply, Grown
    <3> QED
      BY ONLY <1>0, <3>1, s \in Sides, GrownHas
  <2>3. Kept'[s] = Kept[s] \cup {e} /\ \A q \in Sides : q # s => Kept'[q] = Kept[q]
    <3>1. Kept' = Grown(Kept, s, {e})
      BY <1>5 DEF D!Apply, Grown
    <3> QED
      BY ONLY <1>0, <3>1, s \in Sides, GrownHas
  <2>4. ASSUME e.kind = "pay"
        PROVE  Posted'[s] = Posted[s] \cup {e} /\ \A q \in Sides : q # s => Posted'[q] = Posted[q]
    <3>1. Posted' = Grown(Posted, s, {e})
      BY <1>5, <2>4 DEF D!Apply, Grown
    <3>2. BySide(Posted)
      BY <1>0
    <3> QED
      BY ONLY <3>1, <3>2, s \in Sides, GrownHas
  <2>5. e.kind # "pay" => Posted' = Posted
    BY <1>5 DEF D!Apply
  <2>6. ASSUME NEW q \in Sides
        PROVE  /\ Posted'[q] = {f \in Applied'[q] : f.kind = "pay"}
               /\ Applied'[q] \cap Closed'[q] = {}
               /\ Applied'[q] \cup Dropped'[q] \subseteq Kept'[q]
    <3>1. CASE q = s
      <4>1. Posted[s] = {f \in Applied[s] : f.kind = "pay"} /\ Applied[s] \cap Closed[s] = {}
            /\ Applied[s] \cup Dropped[s] \subseteq Kept[s]
        BY DEF D!Fates
      <4>2. Posted'[s] = {f \in Applied'[s] : f.kind = "pay"}
        <5>1. \A f : f \in Posted'[s] <=> f \in Applied'[s] /\ f.kind = "pay"
          BY <2>2, <2>4, <2>5, <4>1
        <5> QED
          BY <5>1
      <4> QED
        BY <2>1, <2>2, <2>3, <3>1, <4>1, <4>2
    <3>2. CASE q # s
      BY <2>1, <2>2, <2>3, <2>4, <2>5, <3>2 DEF D!Fates
    <3> QED
      BY <3>1, <3>2
  <2> QED
    BY <2>6 DEF D!Fates
<1>6. ASSUME NEW s \in Sides, NEW e \in log[s], D!Close(s, e) PROVE D!Fates'
  <2>1. /\ e \notin Applied[s]
        /\ Closed' = Grown(Closed, s, {e}) /\ Kept' \in {Kept, Grown(Kept, s, {e})}
        /\ UNCHANGED <<Applied, Posted, Dropped>>
    BY <1>6 DEF D!Close, Grown
  <2>2. Closed'[s] = Closed[s] \cup {e} /\ \A q \in Sides : q # s => Closed'[q] = Closed[q]
    BY ONLY <1>0, <2>1, s \in Sides, GrownHas
  <2>3. Kept' # Kept =>
           Kept'[s] = Kept[s] \cup {e} /\ \A q \in Sides : q # s => Kept'[q] = Kept[q]
    BY ONLY <1>0, <2>1, s \in Sides, GrownHas
  <2> QED
    BY <2>1, <2>2, <2>3 DEF D!Fates
<1>7. CASE D!Next
  BY <1>2, <1>3, <1>4, <1>5, <1>6, <1>7 DEF D!Next
<1> QED
  BY <1>1, <1>7

\* In either side's books are exactly the payments of the other side whose events
\* it answered as applied; no event is both applied and given up; and an event that
\* was applied, or that its sender forgot, has an outcome or a dead letter. Delivery
\* keeps this, and the refinement carries it over to the two databases.
THEOREM EventsMeetTheirFate == Spec => []D!Fates
<1>1. D!Init => D!Fates
  <2> SUFFICES ASSUME D!Init PROVE D!Fates
    OBVIOUS
  <2>1. Kept = log /\ Applied = log /\ Posted = log /\ Closed = log /\ Dropped = log
        /\ log = [s \in Sides |-> {}]
    BY DEF D!Init
  <2>2. \A s \in Sides : Kept[s] = {} /\ Applied[s] = {} /\ Posted[s] = {} /\ Closed[s] = {}
                         /\ Dropped[s] = {}
    BY <2>1
  <2> QED
    BY <2>2 DEF D!Fates
<1>2. D!Fates /\ [D!Next]_(D!vars) => D!Fates'
  BY FatesStay
<1> QED
  BY <1>1, <1>2, Refinement, PTL DEF ImplementsDelivery, D!Spec
=============================================================================
