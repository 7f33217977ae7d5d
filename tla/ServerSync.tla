----------------------------- MODULE ServerSync -----------------------------
(***************************************************************************)
(* A paired desktop (the site) and the central server, each with its own   *)
(* database: sync_events written by the transaction that changes an order  *)
(* (sync-outbox.ts, order-state-sync.ts), pushed and pulled in batches     *)
(* (server-sync.ts), received once by identity (sync-events.ts) and        *)
(* applied to the receiver's copy of the order (order-state-sync.ts,       *)
(* payment-service.ts).                                                    *)
(*                                                                         *)
(* Grain.  A local change is a transaction of three steps, because its     *)
(* transaction id, its event ids and its commit come at different moments  *)
(* and in different orders than its neighbours'.  Receiving one event is   *)
(* one step: it is one transaction under the locks of its row and its      *)
(* order (a legacy event may also stop half-way, as "pending").            *)
(***************************************************************************)
EXTENDS Integers, Sequences, FiniteSets

CONSTANTS
    Orders,     \* orders.id
    Home,       \* [Orders -> Sides]: where the order is taken
    Changes,    \* the <<side, order, kind>> that people may ask for
    Foreign,    \* orders with a customer (the bill's or the payer) or an item the
                \* other side may not have yet
    Lag,        \* [Sides -> Nat]: how far the side's wall clock lags, in ms
    Pauses,     \* the ms that may pass between two records
    MaxNumber,  \* [Sides -> Nat]: bound: a change begins only below this number
    BatchSize,  \* config.batchSize
    MaxFaults   \* bound: crashes, lost requests, failing statements, refused actors

Sides == {"site", "central"}

ASSUME SyncAssumption ==
    /\ IsFiniteSet(Orders)
    /\ Home \in [Orders -> Sides]
    /\ Foreign \subseteq Orders
    /\ Changes \subseteq Sides \X Orders \X {"create", "edit", "void", "pay"}
    /\ Lag \in [Sides -> Nat]
    /\ Pauses \subseteq Nat
    /\ MaxNumber \in [Sides -> Nat]
    /\ BatchSize \in Nat \ {0}
    /\ MaxFaults \in Nat

VARIABLES
    now,        \* the time, in ms
    floor,      \* sync_hlc_state.floor_ms of each side
    number,     \* the last number each side handed out: transaction ids, event ids
                \* and stamp sequences, each of which only has to grow
    copy,       \* [Sides -> [Orders -> the side's copy of the order]]
    tx,         \* [Sides -> [Orders -> the transaction holding the order's row]]
    log,        \* committed sync_events of origin 'local'
    inbox,      \* [Sides -> [Nat -> what the side's row of the peer's event says]]
    known,      \* [Sides -> the orders whose customer and menu items are here]
    pushed,     \* the site's ids with pushed_at set
    refused,    \* the site's ids with push_attempts > 0
    push,       \* the site's push request in flight
    orphan,     \* what the central server still serves of a request given up on
    pull,       \* the site's pull in flight: the rest of its page
    cursor,     \* lastPulledTxid and lastPulledEventId
    letters,    \* the site's server_pull dead letters, by central event id
    faults      \* how many faults there were

clock == <<now, floor>>
transport == <<pushed, refused, push, orphan, pull, cursor, letters>>
vars == <<clock, number, copy, tx, log, inbox, known, transport, faults>>

Peer(s) == IF s = "site" THEN "central" ELSE "site"
Greatest(a, b) == IF a > b THEN a ELSE b

NoStamp == <<0, 0, 0>>
Node(s) == IF s = "site" THEN 1 ELSE 2

\* The stamps are compared as fixed-width text: ms, then sequence, then node.
Newer(a, b) ==
    \/ a[1] > b[1]
    \/ a[1] = b[1] /\ a[2] > b[2]
    \/ a[1] = b[1] /\ a[2] = b[2] /\ a[3] > b[3]

Settled == {"completed", "voided"}
NoOrder == [status |-> "absent", bill |-> <<>>, hlc |-> NoStamp, paid |-> <<>>]
NoTx == [kind |-> "none", xid |-> 0, id |-> 0, hlc |-> NoStamp]
Kinds == {"create", "edit", "void", "pay"}

\* Row outcomes the sender need not offer again.
Outcomes == {"applied", "deferred", "dead", "discarded", "stuck"}
Rows == Outcomes \cup {"none", "pending", "failed"}

Idle == [on |-> FALSE, left |-> {}, delivered |-> {}, refused |-> {}]
NoPull == [on |-> FALSE, left |-> {}, at |-> <<0, 0>>, failed |-> FALSE]

\* The transactions under way when the bound is met still get their numbers.
Ids(s) == 1..(MaxNumber[s] + 2 * Cardinality(Orders))

Position(e) == <<e.xid, e.id>>
Before(p, q) == p[1] < q[1] \/ (p[1] = q[1] /\ p[2] < q[2])

Init ==
    /\ now = Lag["site"] + Lag["central"]
    /\ floor = [s \in Sides |-> 0]
    /\ number = [s \in Sides |-> 0]
    /\ copy = [s \in Sides |-> [o \in Orders |-> NoOrder]]
    /\ tx = [s \in Sides |-> [o \in Orders |-> NoTx]]
    /\ log = [s \in Sides |-> {}]
    /\ inbox = [s \in Sides |-> [i \in Ids(Peer(s)) |-> "none"]]
    /\ known \in [Sides -> SUBSET Orders]
    /\ \A s \in Sides, o \in Orders : o \notin Foreign \/ Home[o] = s => o \in known[s]
    /\ pushed = {} /\ refused = {} /\ push = Idle /\ orphan = {}
    /\ pull = NoPull /\ cursor = <<0, 0>>
    /\ letters = [i \in Ids("central") |-> "none"]
    /\ faults = 0

-----------------------------------------------------------------------------
(* Local changes.                                                           *)

\* createOrder, or a change of an open order under lockOpenOrder.
MayChange(s, o, kind) ==
    /\ <<s, o, kind>> \in Changes
    /\ tx[s][o] = NoTx
    /\ IF kind = "create" THEN copy[s][o].status = "absent" /\ Home[o] = s
                          ELSE copy[s][o].status = "open"
    /\ number[s] < MaxNumber[s]

\* The first write of a central transaction takes its transaction id.
Begin(o, kind) ==
    /\ MayChange("central", o, kind)
    /\ number' = [number EXCEPT !["central"] = @ + 1]
    /\ tx' = [tx EXCEPT !["central"][o] =
                 [NoTx EXCEPT !.kind = kind, !.xid = number["central"] + 1]]
    /\ UNCHANGED <<clock, copy, log, inbox, known, transport, faults>>

\* Mutant: the floor is forgotten.
NextStamp_WallClock(s, id) == <<now - Lag[s], id, Node(s)>>

\* app_sync_next_hlc: the wall clock, but not below the floor.
NextStamp(s, id) == <<Greatest(now - Lag[s], floor[s]), id, Node(s)>>

\* recordOrderState and appendSyncOutboxEvent: the stamp and the event ids.
Record(s, o, t) ==
    LET id == number[s] + 1 IN
    /\ number' = [number EXCEPT ![s] = IF t.kind = "pay" THEN @ + 2 ELSE @ + 1]
    /\ tx' = [tx EXCEPT ![s][o] =
                 [t EXCEPT !.id = id,
                           !.hlc = IF t.kind = "create" THEN NoStamp ELSE NextStamp(s, id)]]
    /\ \E d \in Pauses : now' = now + d
    /\ UNCHANGED <<floor, copy, log, inbox, known, transport, faults>>

RecordCentral(o) ==
    /\ tx["central"][o] # NoTx /\ tx["central"][o].id = 0
    /\ Record("central", o, tx["central"][o])

\* Nothing reads the transaction ids of the site.
RecordSite(o, kind) ==
    /\ MayChange("site", o, kind)
    /\ Record("site", o, [NoTx EXCEPT !.kind = kind])

\* What the transaction leaves in the order's row.
Changed(s, o) ==
    LET t == tx[s][o]
        c == copy[s][o] IN
    [status |-> CASE t.kind = "void" -> "voided"
                  [] t.kind = "pay"  -> "completed"
                  [] OTHER           -> "open",
     bill   |-> IF t.kind \in {"create", "edit"} THEN <<s, t.id>> ELSE c.bill,
     hlc    |-> t.hlc,
     paid   |-> IF t.kind = "pay" THEN Append(c.paid, <<s, t.id + 1>>) ELSE c.paid]

\* The events it leaves: a checkout records the bill while it is still open,
\* then the payment.
Recorded(s, o) ==
    LET t == tx[s][o]
        n == Changed(s, o)
        e == [id |-> t.id, xid |-> t.xid, o |-> o, bill |-> n.bill, hlc |-> t.hlc,
              kind |-> IF t.kind = "create" THEN "create" ELSE "state",
              status |-> IF t.kind = "pay" THEN "open" ELSE n.status] IN
    {e} \cup IF t.kind # "pay" THEN {}
             ELSE {[e EXCEPT !.id = t.id + 1, !.kind = "pay", !.status = "completed"]}

Commit(s, o) ==
    /\ tx[s][o].id # 0
    /\ copy' = [copy EXCEPT ![s][o] = Changed(s, o)]
    /\ log' = [log EXCEPT ![s] = @ \cup Recorded(s, o)]
    /\ tx' = [tx EXCEPT ![s][o] = NoTx]
    /\ UNCHANGED <<clock, number, inbox, known, transport, faults>>

\* runMasterSync brings a customer or a menu item.
MasterArrives(s, o) ==
    /\ o \notin known[s]
    /\ known' = [known EXCEPT ![s] = @ \cup {o}]
    /\ UNCHANGED <<clock, number, copy, tx, log, inbox, transport, faults>>

-----------------------------------------------------------------------------
(* Receiving one event.  "row" is what the receiver's inbox says after it.   *)

Stale(c, e) == ~Newer(e.hlc, c.hlc)

\* Mutant: a settled order is rewritten by a later state.
SettledHere_Reopens(c, e) == FALSE

SettledHere(c, e) == c.status \in Settled

\* applyOrderState.
ApplyState(s, e, row) ==
    LET c == copy[s][e.o] IN
    \/ /\ Stale(c, e) \/ (SettledHere(c, e) /\ e.status \in {"open", c.status})
       /\ row = "applied"
       /\ UNCHANGED <<copy, clock>>
    \/ /\ ~Stale(c, e) /\ SettledHere(c, e) /\ e.status \notin {"open", c.status}
       /\ row = "dead"
       /\ UNCHANGED <<copy, clock>>
    \/ /\ ~Stale(c, e) /\ ~SettledHere(c, e) /\ e.o \notin known[s]
       /\ row = "deferred"
       /\ UNCHANGED <<copy, clock>>
    \/ /\ ~Stale(c, e) /\ ~SettledHere(c, e) /\ e.o \in known[s]
       /\ row = "applied"
       /\ copy' = [copy EXCEPT ![s][e.o] =
                      [c EXCEPT !.status = e.status, !.bill = e.bill, !.hlc = e.hlc]]
       /\ floor' = [floor EXCEPT ![s] = Greatest(@, e.hlc[1])]
       /\ UNCHANGED now

\* Mutant: the payment does not ask whether the order is still open.
ApplyPayment_Twice(s, e, row) ==
    LET c == copy[s][e.o] IN
    /\ IF c.status = "absent"
       THEN row = "deferred" /\ UNCHANGED copy
       ELSE /\ row = "applied"
            /\ copy' = [copy EXCEPT ![s][e.o].status = "completed",
                                    ![s][e.o].paid = Append(@, <<Peer(s), e.id>>)]

\* completeSplitOrderPayment.  Paid at another bill than the one held here, the
\* order is settled only if the totals agree or a customer takes the difference;
\* and never while the customer who pays is not here.
ApplyPayment(s, e, row) ==
    LET c == copy[s][e.o] IN
    \/ /\ c.status # "open" \/ c.bill # e.bill \/ e.o \in Foreign
       /\ row = "deferred"
       /\ UNCHANGED copy
    \/ /\ c.status = "open"
       /\ row = "applied"
       /\ copy' = [copy EXCEPT ![s][e.o] =
                      [c EXCEPT !.status = "completed", !.paid = Append(c.paid, <<Peer(s), e.id>>)]]

\* applyLegacySyncEvent of order.create: row, order and outcome are written
\* apart, so it may stop before or after the order is there.
ApplyCreate(s, e, row) ==
    LET c == copy[s][e.o]
        new == [NoOrder EXCEPT !.status = "open", !.bill = e.bill] IN
    \/ /\ c.status = "absent" /\ e.o \in known[s]
       /\ row \in {"applied", "pending"}
       /\ copy' = [copy EXCEPT ![s][e.o] = new]
    \/ /\ c.status # "absent" \/ e.o \notin known[s]
       /\ row = "failed"
       /\ UNCHANGED copy
    \/ /\ row = "pending"
       /\ UNCHANGED copy

Handle(s, e, row) ==
    \/ e.kind = "state" /\ ApplyState(s, e, row)
    \/ e.kind = "pay" /\ ApplyPayment(s, e, row) /\ UNCHANGED clock
    \/ e.kind = "create" /\ ApplyCreate(s, e, row) /\ UNCHANGED clock

Fault == faults < MaxFaults /\ faults' = faults + 1

\* applySyncEvent: "ok" tells the caller whether it need not come back.  A
\* terminal error becomes a dead letter of the kind "dead".
Receive(s, e, dead, ok) ==
    \/ \* A duplicate of a decided event.
       /\ inbox[s][e.id] \notin {"none", "deferred"}
       /\ ok = (inbox[s][e.id] \in Outcomes)
       /\ UNCHANGED <<inbox, copy, clock, faults>>
    \/ \* An infrastructure failure rolls everything back.
       /\ inbox[s][e.id] \in {"none", "deferred"}
       /\ ~ok
       /\ Fault
       /\ UNCHANGED <<inbox, copy, clock>>
    \/ \* The device is revoked, or its actor unknown here or not permitted this; the
       \* legacy path does not ask.
       /\ inbox[s][e.id] \in {"none", "deferred"}
       /\ e.kind # "create"
       /\ inbox' = [inbox EXCEPT ![s][e.id] = dead]
       /\ ok
       /\ Fault
       /\ UNCHANGED <<copy, clock>>
    \/ /\ inbox[s][e.id] \in {"none", "deferred"}
       /\ tx[s][e.o] = NoTx
       /\ \E row \in Rows :
             /\ Handle(s, e, row)
             /\ inbox' = [inbox EXCEPT ![s][e.id] = IF row = "dead" THEN dead ELSE row]
             /\ ok = (row \in Outcomes)
             /\ IF row = "pending" THEN Fault ELSE UNCHANGED faults

\* reconcileDeferredSyncEvents, on either side.
Reconcile(s, e) ==
    /\ inbox[s][e.id] = "deferred"
    /\ Receive(s, e, "dead", TRUE)
    /\ UNCHANGED <<number, tx, log, known, transport>>

\* updateSyncDeadLetter for a letter of the receiver itself.
RetryLetter(s, e) ==
    /\ inbox[s][e.id] = "dead"
    /\ inbox' = [inbox EXCEPT ![s][e.id] = "deferred"]
    /\ UNCHANGED <<clock, number, copy, tx, log, known, transport, faults>>

DiscardLetter(s, e) ==
    /\ inbox[s][e.id] = "dead"
    /\ inbox' = [inbox EXCEPT ![s][e.id] = "discarded"]
    /\ UNCHANGED <<clock, number, copy, tx, log, known, transport, faults>>

-----------------------------------------------------------------------------
(* Push: site to central.                                                   *)

\* The first n events of a set in an order given by "lt".
FirstOf(S, n, lt(_, _)) == {e \in S : Cardinality({f \in S : lt(f, e)}) < n}
ById(e, f) == e.id < f.id
ByPosition(e, f) == Before(Position(e), Position(f))

Local == <<number, tx, log, known>>

\* Mutant: a refused row is never offered again.
StartPush_Once(late) ==
    LET due == {e \in log["site"] : e.id \notin pushed \cup refused} IN
    /\ ~push.on /\ ~pull.on
    /\ due # {}
    /\ push' = [Idle EXCEPT !.on = TRUE, !.left = FirstOf(due, BatchSize, ById)]
    /\ UNCHANGED <<clock, copy, inbox, Local, faults, pushed, refused, orphan, pull, cursor, letters>>

\* runServerPush reads a batch and sends it.  A row refused before may or may
\* not be due again (next_push_at).
StartPush(late) ==
    LET due == {e \in log["site"] : e.id \notin pushed \cup late} IN
    /\ ~push.on /\ ~pull.on
    /\ due # {}
    /\ push' = [Idle EXCEPT !.on = TRUE, !.left = FirstOf(due, BatchSize, ById)]
    /\ UNCHANGED <<clock, copy, inbox, Local, faults, pushed, refused, orphan, pull, cursor, letters>>

\* The push route applies the events one by one.
ServePush ==
    \E e \in FirstOf(push.left, 1, ById), ok \in BOOLEAN :
       /\ Receive("central", e, "dead", ok)
       /\ push' = [push EXCEPT !.left = @ \ {e},
                               !.delivered = IF ok THEN @ \cup {e.id} ELSE @,
                               !.refused = IF ok THEN @ ELSE @ \cup {e.id}]
       /\ UNCHANGED <<Local, pushed, refused, orphan, pull, cursor, letters>>

ServeOrphan ==
    \E e \in FirstOf(orphan, 1, ById), ok \in BOOLEAN :
       /\ Receive("central", e, "dead", ok)
       /\ orphan' = orphan \ {e}
       /\ UNCHANGED <<Local, pushed, refused, push, pull, cursor, letters>>

\* Mutant: the whole batch is marked, whatever the answer says of its rows.
FinishPush_MarksAll ==
    /\ push.on /\ push.left = {}
    /\ pushed' = pushed \cup push.delivered \cup push.refused
    /\ push' = Idle
    /\ UNCHANGED <<clock, copy, inbox, Local, faults, refused, orphan, pull, cursor, letters>>

\* The answer arrived: delivered rows are marked, refused ones wait.
FinishPush ==
    /\ push.on /\ push.left = {}
    /\ pushed' = pushed \cup push.delivered
    /\ refused' = (refused \cup push.refused) \ push.delivered
    /\ push' = Idle
    /\ UNCHANGED <<clock, copy, inbox, Local, faults, orphan, pull, cursor, letters>>

\* Request or answer lost, or 30 s gone: nothing is marked, and the central
\* server may still be working on the request (on one such request, here).
GiveUpPush ==
    /\ push.on
    /\ push' = Idle
    /\ \/ UNCHANGED orphan
       \/ orphan = {} /\ orphan' = push.left
    /\ Fault
    /\ UNCHANGED <<clock, copy, inbox, Local, pushed, refused, pull, cursor, letters>>

-----------------------------------------------------------------------------
(* Pull: central to site.                                                   *)

\* Mutant: the page takes whatever is committed.
BelowXmin_Always(xid) == TRUE

\* pg_snapshot_xmin: every smaller transaction id has ended.
BelowXmin(xid) == \A o \in Orders : tx["central"][o] # NoTx => xid < tx["central"][o].xid

\* The pull route's page after the cursor.
StartPull ==
    LET page == {e \in log["central"] : Before(cursor, Position(e)) /\ BelowXmin(e.xid)} IN
    /\ ~push.on /\ ~pull.on
    /\ page # {}
    /\ pull' = [NoPull EXCEPT !.on = TRUE, !.left = FirstOf(page, BatchSize, ByPosition),
                              !.at = cursor]
    /\ UNCHANGED <<clock, copy, inbox, Local, faults, pushed, refused, push, orphan, cursor, letters>>

Passed(e) == [pull EXCEPT !.left = @ \ {e}, !.at = Position(e), !.failed = FALSE]

\* One event of the page.
PullEvent ==
    \E e \in FirstOf(pull.left, 1, ByPosition), ok \in BOOLEAN :
       /\ ~pull.failed
       /\ Receive("site", e, "dead", ok)
       /\ pull' = IF ok THEN Passed(e) ELSE [pull EXCEPT !.failed = TRUE]
       /\ UNCHANGED <<Local, pushed, refused, push, orphan, cursor, letters>>

\* recordServerPullDeadLetter: the position passes an event that failed only
\* once its envelope is durable.
RecordPullLetter ==
    \E e \in FirstOf(pull.left, 1, ByPosition) :
       /\ pull.failed
       /\ letters' = [letters EXCEPT ![e.id] = "open"]
       /\ pull' = Passed(e)
       /\ UNCHANGED <<clock, copy, inbox, Local, faults, pushed, refused, push, orphan, cursor>>

\* dead_letter_persist_failed: the pull stops where it is.  The outage that failed
\* the event may fail its letter as well; for a refused event it takes a new fault.
GiveUpPull ==
    \E e \in FirstOf(pull.left, 1, ByPosition) :
       /\ pull.failed
       /\ pull' = NoPull
       /\ IF inbox["site"][e.id] \in {"none", "deferred"} THEN UNCHANGED faults ELSE Fault
       /\ UNCHANGED <<clock, copy, inbox, Local, pushed, refused, push, orphan, cursor, letters>>

SaveCursor ==
    /\ pull.on /\ pull.left = {}
    /\ cursor' = pull.at
    /\ pull' = NoPull
    /\ UNCHANGED <<clock, copy, inbox, Local, faults, pushed, refused, push, orphan, letters>>

\* updateSyncDeadLetter for a server_pull letter.
RetryPulled(e) ==
    /\ letters[e.id] = "open"
    /\ \E ok \in BOOLEAN :
          /\ Receive("site", e, "stuck", ok)
          /\ letters' = [letters EXCEPT ![e.id] =
                            IF inbox'["site"][e.id] \in {"applied", "deferred"} /\ ok
                            THEN "closed" ELSE @]
    /\ UNCHANGED <<Local, pushed, refused, push, orphan, pull, cursor>>

DiscardPulled(e) ==
    /\ letters[e.id] = "open"
    /\ letters' = [letters EXCEPT ![e.id] = "closed"]
    /\ UNCHANGED <<clock, copy, inbox, Local, faults, pushed, refused, push, orphan, pull, cursor>>

-----------------------------------------------------------------------------
\* A side's process or database dies: its transactions are rolled back, the
\* request it was sending or serving is gone.
Crash(s) ==
    /\ Fault
    /\ tx' = [tx EXCEPT ![s] = [o \in Orders |-> NoTx]]
    /\ push' = Idle
    /\ IF s = "central" THEN orphan' = {} /\ UNCHANGED pull
       ELSE /\ pull' = NoPull
            /\ \/ UNCHANGED orphan
               \/ orphan = {} /\ orphan' = push.left
    /\ UNCHANGED <<clock, number, copy, log, inbox, known, pushed, refused, cursor, letters>>

Next ==
    \/ \E o \in Orders :
          \/ \E kind \in Kinds : RecordSite(o, kind) \/ Begin(o, kind)
          \/ RecordCentral(o)
          \/ \E s \in Sides : Commit(s, o) \/ MasterArrives(s, o)
    \/ \E s \in Sides : \E e \in log[Peer(s)] :
          Reconcile(s, e) \/ RetryLetter(s, e) \/ DiscardLetter(s, e)
    \/ \E late \in SUBSET refused : StartPush(late)
    \/ ServePush \/ ServeOrphan \/ FinishPush \/ GiveUpPush
    \/ StartPull \/ PullEvent \/ RecordPullLetter \/ GiveUpPull \/ SaveCursor
    \/ \E e \in log["central"] : RetryPulled(e) \/ DiscardPulled(e)
    \/ \E s \in Sides : Crash(s)

Spec == Init /\ [][Next]_vars

\* A transaction ends, and the site's tick pushes, pulls and is served again
\* and again; a refused row comes due.
Fairness ==
    /\ \A o \in Orders : WF_vars(RecordCentral(o))
    /\ \A s \in Sides, o \in Orders : WF_vars(Commit(s, o))
    /\ SF_vars(StartPush({})) /\ WF_vars(ServePush) /\ WF_vars(FinishPush)
    /\ SF_vars(StartPull) /\ WF_vars(PullEvent)
    /\ WF_vars(RecordPullLetter) /\ WF_vars(SaveCursor)

FairSpec == Spec /\ Fairness

-----------------------------------------------------------------------------
(* Properties.                                                              *)

TypeOK ==
    /\ now \in Nat /\ floor \in [Sides -> Nat] /\ number \in [Sides -> Nat]
    /\ \A s \in Sides, o \in Orders :
          /\ copy[s][o].status \in {"absent", "open"} \cup Settled
          /\ Len(copy[s][o].paid) <= (IF copy[s][o].status = "completed" THEN 1 ELSE 0)
    /\ \A s \in Sides : inbox[s] \in [Ids(Peer(s)) -> Rows]
    /\ known \in [Sides -> SUBSET Orders]
    /\ pushed \subseteq Ids("site") /\ refused \subseteq Ids("site") 
    /\ push.left \subseteq log["site"] /\ orphan \subseteq log["site"]
    /\ pull.left \subseteq log["central"]
    /\ letters \in [Ids("central") -> {"none", "open", "closed"}]

\* The cursor passes an event of the central server only when the site holds
\* its outcome or its dead letter, whatever the order of commits.
NothingBehindCursor ==
    \A e \in log["central"] :
       ~Before(cursor, Position(e)) =>
          inbox["site"][e.id] \in Outcomes \/ letters[e.id] # "none"

\* A row is marked pushed only when the central server holds its outcome.
PushedIsHeld == \A e \in log["site"] : e.id \in pushed => inbox["central"][e.id] \in Outcomes

\* What becomes of a side's events, for the module Delivery.
RowSays(s, e, rows) == inbox[Peer(s)][e.id] \in rows
IsKept(s, e) == RowSays(s, e, Outcomes) \/ (s = "central" /\ letters[e.id] # "none")
IsPosted(s, e) == copy[Peer(s)][e.o].paid = << <<s, e.id>> >>
IsDropped(s, e) == IF s = "site" THEN e.id \in pushed ELSE ~Before(cursor, Position(e))

Kept == [s \in Sides |-> {e \in log[s] : IsKept(s, e)}]
Applied == [s \in Sides |-> {e \in log[s] : RowSays(s, e, {"applied"})}]
Posted == [s \in Sides |-> {e \in log[s] : IsPosted(s, e)}]
Closed == [s \in Sides |->
              {e \in log[s] : RowSays(s, e, {"discarded", "stuck", "pending", "failed"})}]
Dropped == [s \in Sides |-> {e \in log[s] : IsDropped(s, e)}]

D == INSTANCE Delivery WITH Senders <- Sides, recorded <- log, held <- Kept,
        applied <- Applied, posted <- Posted, closed <- Closed, dropped <- Dropped

\* Push, pull, retries, letters and crashes together deliver: an event is applied
\* at most once, a payment is posted by that alone, and no sender forgets an event
\* nobody holds.
ImplementsDelivery == D!Spec

\* A settled order is never touched again, and so settled once per side.
SettledIsFinal ==
    [][\A s \in Sides, o \in Orders :
          copy[s][o].status \in Settled => copy'[s][o] = copy[s][o]]_vars

\* Every state of an order was applied on the other side.
StatesDelivered(o) ==
    \A s \in Sides :
       /\ tx[s][o] = NoTx
       /\ \A e \in log[s] : e.o = o /\ e.kind = "state" => inbox[Peer(s)][e.id] = "applied"

\* Once every state of an order was applied, its open copies are one bill.
OpenCopiesAgree ==
    \A o \in Orders :
       /\ StatesDelivered(o)
       /\ \A s \in Sides : copy[s][o].status = "open"
       => copy["site"][o] = copy["central"][o]

\* Two states of the order, one of each side, were stamped in one millisecond.
OneMs(o) ==
    \E e \in log["site"], f \in log["central"] :
       /\ e.o = o /\ e.kind = "state"
       /\ f.o = o /\ f.kind = "state"
       /\ e.hlc[1] = f.hlc[1]

\* However far the clocks are apart, one millisecond stamped on both sides is all
\* that can keep the open copies of an order apart once its states were applied:
\* the floor carries a side past every other stamp it has seen.
ApartInOneMsOnly ==
    \A o \in Orders :
       /\ StatesDelivered(o) /\ ~OneMs(o)
       /\ \A s \in Sides : copy[s][o].status = "open"
       => copy["site"][o] = copy["central"][o]

\* What one side recorded, the other holds sooner or later.
AllHeld ==
    \A s \in Sides : \A e \in log[s] :
       \/ e.kind = "create"
       \/ inbox[Peer(s)][e.id] \in Outcomes
       \/ s = "central" /\ letters[e.id] # "none"

Delivered == <>[]AllHeld

\* A node never stamps an edit older than one it has already seen.
StampsAreNewest ==
    [][\A s \in Sides, o \in Orders :
          tx'[s][o].hlc # tx[s][o].hlc /\ tx'[s][o] # NoTx =>
             \A p \in Orders : Newer(tx'[s][o].hlc, copy[s][p].hlc)]_vars
=============================================================================
