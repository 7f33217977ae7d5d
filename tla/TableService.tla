---------------------------- MODULE TableService ----------------------------
(***************************************************************************)
(* Dine-in service at one location: orders, the table sessions that group  *)
(* them, and the tables the sessions hold (lib/table-session-service.ts    *)
(* and the routes that call it).                                           *)
(*                                                                         *)
(* Grain.  PostgreSQL runs every transaction at READ COMMITTED.  A request *)
(* handler is one step per statement at which it may wait for a row lock   *)
(* or read a row it has not locked; its writes take effect in the step     *)
(* that commits.  A row lock is not a variable of its own: the place `pc'  *)
(* a handler has reached determines the rows it holds (HoldsOrder,         *)
(* HoldsSession, HoldsTable, HoldsCounter).  A handler whose reads are all *)
(* under locks it takes and whose wait holds nothing is a single step.     *)
(* A request that is refused (4xx) leaves the database alone.              *)
(***************************************************************************)
EXTENDS Naturals

CONSTANTS
    Tables,     \* dining_tables rows
    Sessions,   \* ids for table_sessions rows, enough of them for the run
    Orders,     \* submissions of the till: client_request_id, one orders row each
    Clients,    \* request handlers (connections) running at once
    Ops,        \* the operations the run's users ask for
    None        \* SQL NULL

Operations == {"create", "pay", "void", "move", "seat", "merge", "release",
               "patch", "delete", "activate"}

ASSUME NoneAssumption == None \notin Tables \cup Sessions \cup Orders
ASSUME OpsAssumption == Ops \subseteq Operations

VARIABLES
    orders,     \* [Orders -> [status, table, session]]
    payments,   \* [Orders -> number of settlements posted to the ledger]
    sessions,   \* [Sessions -> "none" | "open" | "closed"]
    members,    \* [Sessions -> tables with a membership row not yet released]
    tables,     \* [Tables -> table_status]
    active,     \* [Tables -> is_active]
    req         \* [Clients -> the request the handler is serving]

vars == <<orders, payments, sessions, members, tables, active, req>>

OrderStatus == {"none", "open", "completed", "voided"}
SessionStatus == {"none", "open", "closed"}
TableStatus == {"free", "seated", "cleaning", "out_of_service"}

Order == [status  : OrderStatus,
          table   : Tables \cup {None},
          session : Sessions \cup {None}]

Places == {"idle", "create_session", "create_insert", "create_open",
           "pay_session", "pay_settle", "pay_free", "move_table", "move_attach",
           "merge_table", "release_free", "patch_write", "delete_write"}

Request == [pc      : Places,
            order   : Orders \cup {None},
            table   : Tables \cup {None},
            session : Sessions \cup {None},
            to      : TableStatus \cup {None},
            other   : Orders \cup {None}]    \* the open order a checkout found beside its own

Call(pc, o, t, s, to) ==
    [pc |-> pc, order |-> o, table |-> t, session |-> s, to |-> to, other |-> None]

Idle == Call("idle", None, None, None, None)

Init ==
    /\ orders = [o \in Orders |-> [status |-> "none", table |-> None, session |-> None]]
    /\ payments = [o \in Orders |-> 0]
    /\ sessions = [s \in Sessions |-> "none"]
    /\ members = [s \in Sessions |-> {}]
    /\ tables = [t \in Tables |-> "free"]
    /\ active = [t \in Tables |-> TRUE]
    /\ req = [c \in Clients |-> Idle]

-----------------------------------------------------------------------------
(* What the statements read, and the rows they lock. *)

OpenOrdersOf(s) == {o \in Orders : orders[o].session = s /\ orders[o].status = "open"}

OpenSessionsOf(t) == {s \in Sessions : sessions[s] = "open" /\ t \in members[s]}

Fresh == {s \in Sessions : sessions[s] = "none"}

Seatable(t) == active[t] /\ tables[t] \notin {"cleaning", "out_of_service"}

\* Mutant: checkout reads the order without FOR UPDATE.
HoldsOrder_NoPay(c, o) ==
    /\ req[c].pc \in {"move_table", "move_attach"}
    /\ req[c].order = o

HoldsOrder(c, o) ==
    /\ req[c].pc \in {"pay_session", "pay_settle", "pay_free", "move_table", "move_attach"}
    /\ req[c].order = o

\* Mutants: the merge, or the checkout, reads the session without FOR UPDATE.
HoldsSession_NoMerge(c, s) ==
    /\ req[c].pc \in {"pay_settle", "pay_free", "release_free"}
    /\ req[c].session = s

HoldsSession_NoPay(c, s) ==
    /\ req[c].pc \in {"merge_table", "release_free"}
    /\ req[c].session = s

HoldsSession(c, s) ==
    /\ req[c].pc \in {"pay_settle", "pay_free", "merge_table", "release_free"}
    /\ req[c].session = s

\* Mutant: the move reads the table without FOR UPDATE.
HoldsTable_NoMove(c, t) == FALSE

HoldsTable(c, t) == req[c].pc = "move_attach" /\ req[c].table = t

HoldsCounter(c) == req[c].pc \in {"create_insert", "create_open"}

OrderFree(o) == \A d \in Clients : ~HoldsOrder(d, o)
SessionFree(s) == \A d \in Clients : ~HoldsSession(d, s)
SessionFreeFor(c, s) == \A d \in Clients \ {c} : ~HoldsSession(d, s)
TableFree(t) == \A d \in Clients : ~HoldsTable(d, t)

\* releaseSessionTables updates every table of the session that is not out of service.
TablesFreeOf(s) == \A t \in members[s] : tables[t] = "out_of_service" \/ TableFree(t)

Goto(c, pc, s) == req' = [req EXCEPT ![c] = Call(pc, @.order, @.table, s, None)]
Done(c) == req' = [req EXCEPT ![c] = Idle]
Refuse(c) == Done(c) /\ UNCHANGED <<orders, payments, sessions, members, tables, active>>

\* Mutant: the display overlay stored as a status.
OpenTables_Reserved(s, T) ==
    /\ sessions' = [sessions EXCEPT ![s] = "open"]
    /\ members' = [members EXCEPT ![s] = T]
    /\ tables' = [t \in Tables |-> IF t \in T THEN "reserved" ELSE tables[t]]

\* openSession's writes: the session, its memberships, and the tables seated.
OpenTables(s, T) ==
    /\ sessions' = [sessions EXCEPT ![s] = "open"]
    /\ members' = [members EXCEPT ![s] = T]
    /\ tables' = [t \in Tables |-> IF t \in T THEN "seated" ELSE tables[t]]

\* releaseSessionTables: close the session and hand its tables back.
ReleaseTables(s) ==
    /\ sessions' = [sessions EXCEPT ![s] = "closed"]
    /\ members' = [members EXCEPT ![s] = {}]
    /\ tables' = [t \in Tables |->
                    IF t \in members[s] /\ tables[t] # "out_of_service"
                    THEN "free" ELSE tables[t]]

InsertOrder(o, t, s) ==
    orders' = [orders EXCEPT ![o] = [status |-> "open", table |-> t, session |-> s]]

Attach(o, t, s) ==
    orders' = [orders EXCEPT ![o] = [status |-> @.status, table |-> t, session |-> s]]

Settle(o) ==
    /\ orders' = [orders EXCEPT ![o].status = "completed"]
    /\ payments' = [payments EXCEPT ![o] = @ + 1]

-----------------------------------------------------------------------------
(* createOrder: table checked before the transaction, session read inside    *)
(* it without a lock, and the INSERT whose foreign keys share-lock the rows. *)

CreateCheck(c, o, t) ==
    /\ "create" \in Ops
    /\ req[c] = Idle
    /\ t # None => Seatable(t)
    /\ orders[o].status = "none"
    /\ req' = [req EXCEPT ![c] = Call("create_session", o, t, None, None)]
    /\ UNCHANGED <<orders, payments, sessions, members, tables, active>>

\* The order-number row is locked from here to the commit, so two creates of
\* one location never overlap from this step on.
CreateSession(c) ==
    LET t == req[c].table IN
    /\ req[c].pc = "create_session"
    /\ \A d \in Clients : ~HoldsCounter(d)
    /\ \/ t = None /\ Goto(c, "create_insert", None)
       \/ \E s \in OpenSessionsOf(t) : Goto(c, "create_insert", s)
       \/ t # None /\ OpenSessionsOf(t) = {} /\ Goto(c, "create_open", None)
    /\ UNCHANGED <<orders, payments, sessions, members, tables, active>>

CreateInsert(c) ==
    LET o == req[c].order
        t == req[c].table
        s == req[c].session IN
    /\ req[c].pc = "create_insert"
    /\ \/ orders[o].status # "none" /\ Refuse(c)      \* unique client_request_id
       \/ /\ orders[o].status = "none"
          /\ s # None => SessionFree(s)
          /\ t # None => TableFree(t)
          /\ InsertOrder(o, t, s)
          /\ Done(c)
          /\ UNCHANGED <<payments, sessions, members, tables, active>>

CreateOpen(c) ==
    LET o == req[c].order
        t == req[c].table
        may == Seatable(t) /\ OpenSessionsOf(t) = {} /\ orders[o].status = "none" IN
    /\ req[c].pc = "create_open"
    /\ TableFree(t)
    /\ \/ (~may \/ Fresh = {}) /\ Refuse(c)
       \/ \E s \in Fresh :
            /\ may
            /\ OpenTables(s, {t})
            /\ InsertOrder(o, t, s)
            /\ Done(c)
            /\ UNCHANGED <<payments, active>>

-----------------------------------------------------------------------------
(* POST /api/orders/[id]/pay, and the release of the table it ends with. *)

PayLock(c, o) ==
    /\ "pay" \in Ops
    /\ req[c] = Idle
    /\ orders[o].status = "open"
    /\ OrderFree(o)
    /\ req' = [req EXCEPT ![c] = Call("pay_session", o, None, None, None)]
    /\ UNCHANGED <<orders, payments, sessions, members, tables, active>>

\* The order's session is locked, and whether another order of it is open is
\* asked; both locks stay to the commit.
PaySession(c) ==
    LET o == req[c].order
        s == orders[o].session
        held == s # None /\ sessions[s] = "open" IN
    /\ req[c].pc = "pay_session"
    /\ \/ /\ ~held
          /\ Settle(o)
          /\ Done(c)
          /\ UNCHANGED <<sessions, members, tables, active>>
       \/ /\ held /\ SessionFree(s)
          /\ OpenOrdersOf(s) \subseteq {o}
          /\ Goto(c, "pay_free", s)
          /\ UNCHANGED <<orders, payments, sessions, members, tables, active>>
       \/ /\ held /\ SessionFree(s)
          /\ \E w \in OpenOrdersOf(s) \ {o} :
               req' = [req EXCEPT ![c] = [Call("pay_settle", o, None, s, None)
                                            EXCEPT !.other = w]]
          /\ UNCHANGED <<orders, payments, sessions, members, tables, active>>

\* Another order was found open: the rest of the transaction, and its commit.
PaySettle(c) ==
    /\ req[c].pc = "pay_settle"
    /\ Settle(req[c].order)
    /\ Done(c)
    /\ UNCHANGED <<sessions, members, tables, active>>

\* Mutant: the release runs on a connection of its own, and waits for the
\* session its request's transaction has locked.
PayFree_OwnConnection(c) ==
    LET s == req[c].session IN
    /\ req[c].pc = "pay_free"
    /\ SessionFree(s)
    /\ TablesFreeOf(s)
    /\ Settle(req[c].order)
    /\ ReleaseTables(s)
    /\ Done(c)
    /\ UNCHANGED active

\* No other was found: the session is closed and its tables are freed.
PayFree(c) ==
    LET s == req[c].session IN
    /\ req[c].pc = "pay_free"
    /\ TablesFreeOf(s)
    /\ Settle(req[c].order)
    /\ ReleaseTables(s)
    /\ Done(c)
    /\ UNCHANGED active

-----------------------------------------------------------------------------
(* PATCH /api/orders/[id]: void, or move the order to another table. *)

\* Mutant: the void does not wait for the order's row.
VoidOrder_NoLock(o) ==
    /\ "void" \in Ops
    /\ orders[o].status = "open"
    /\ orders' = [orders EXCEPT ![o].status = "voided"]
    /\ UNCHANGED <<payments, sessions, members, tables, active, req>>

VoidOrder(o) ==
    /\ "void" \in Ops
    /\ orders[o].status = "open"
    /\ OrderFree(o)
    /\ orders' = [orders EXCEPT ![o].status = "voided"]
    /\ UNCHANGED <<payments, sessions, members, tables, active, req>>

Detach(o) ==
    /\ "move" \in Ops
    /\ orders[o].status = "open"
    /\ OrderFree(o)
    /\ Attach(o, None, None)
    /\ UNCHANGED <<payments, sessions, members, tables, active, req>>

MoveLock(c, o, t) ==
    /\ "move" \in Ops
    /\ req[c] = Idle
    /\ orders[o].status = "open"
    /\ OrderFree(o)
    /\ req' = [req EXCEPT ![c] = Call("move_table", o, t, None, None)]
    /\ UNCHANGED <<orders, payments, sessions, members, tables, active>>

MoveTable(c) ==
    LET t == req[c].table IN
    /\ req[c].pc = "move_table"
    /\ TableFree(t)
    /\ \/ /\ ~Seatable(t) \/ (OpenSessionsOf(t) = {} /\ Fresh = {})
          /\ Refuse(c)
       \/ \E s \in OpenSessionsOf(t) :
            /\ Seatable(t)
            /\ Goto(c, "move_attach", s)
            /\ UNCHANGED <<orders, payments, sessions, members, tables, active>>
       \/ \E s \in Fresh :
            /\ Seatable(t)
            /\ OpenSessionsOf(t) = {}
            /\ OpenTables(s, {t})
            /\ Attach(req[c].order, t, s)
            /\ Done(c)
            /\ UNCHANGED <<payments, active>>

MoveAttach(c) ==
    LET s == req[c].session IN
    /\ req[c].pc = "move_attach"
    /\ SessionFree(s)
    /\ Attach(req[c].order, req[c].table, s)
    /\ Done(c)
    /\ UNCHANGED <<payments, sessions, members, tables, active>>

-----------------------------------------------------------------------------
(* Seating: POST /api/table-sessions, and PATCH /api/table-sessions/[id]. *)

\* Mutant: seating does not ask whether a table is occupied.
Seat_Occupied(T) ==
    /\ "seat" \in Ops
    /\ \A t \in T : TableFree(t) /\ Seatable(t)
    /\ \E s \in Fresh : OpenTables(s, T)
    /\ UNCHANGED <<orders, payments, active, req>>

Seat(T) ==
    /\ "seat" \in Ops
    /\ \A t \in T : TableFree(t) /\ Seatable(t) /\ OpenSessionsOf(t) = {}
    /\ \E s \in Fresh : OpenTables(s, T)
    /\ UNCHANGED <<orders, payments, active, req>>

MergeLock(c, s, t) ==
    /\ "merge" \in Ops
    /\ req[c] = Idle
    /\ sessions[s] = "open"
    /\ SessionFree(s)
    /\ req' = [req EXCEPT ![c] = Call("merge_table", None, t, s, None)]
    /\ UNCHANGED <<orders, payments, sessions, members, tables, active>>

\* Mutant: the merge does not ask whether the table is occupied.
MergeTable_Occupied(c) ==
    LET s == req[c].session
        t == req[c].table IN
    /\ req[c].pc = "merge_table"
    /\ TableFree(t)
    /\ IF Seatable(t)
       THEN /\ members' = [members EXCEPT ![s] = @ \cup {t}]
            /\ tables' = [tables EXCEPT ![t] = "seated"]
            /\ Done(c)
            /\ UNCHANGED <<orders, payments, sessions, active>>
       ELSE Refuse(c)

MergeTable(c) ==
    LET s == req[c].session
        t == req[c].table IN
    /\ req[c].pc = "merge_table"
    /\ TableFree(t)
    /\ IF Seatable(t) /\ OpenSessionsOf(t) = {}
       THEN /\ members' = [members EXCEPT ![s] = @ \cup {t}]
            /\ tables' = [tables EXCEPT ![t] = "seated"]
            /\ Done(c)
            /\ UNCHANGED <<orders, payments, sessions, active>>
       ELSE Refuse(c)

ReleaseLock(c, s) ==
    /\ "release" \in Ops
    /\ req[c] = Idle
    /\ sessions[s] = "open"
    /\ SessionFree(s)
    /\ OpenOrdersOf(s) = {}
    /\ req' = [req EXCEPT ![c] = Call("release_free", None, None, s, None)]
    /\ UNCHANGED <<orders, payments, sessions, members, tables, active>>

ReleaseFree(c) ==
    LET s == req[c].session IN
    /\ req[c].pc = "release_free"
    /\ TablesFreeOf(s)
    /\ ReleaseTables(s)
    /\ Done(c)
    /\ UNCHANGED <<orders, payments, active>>

-----------------------------------------------------------------------------
(* /api/tables/[id]: both handlers read the row, then write it, unlocked. *)

Transitions == [free           |-> {"seated", "out_of_service"},
                seated         |-> {"bill_requested", "cleaning", "free"},
                cleaning       |-> {"free", "out_of_service"},
                out_of_service |-> {"free"}]

\* Mutant: a table may be marked seated by hand.
PatchRead_Seat(c, t, to) ==
    /\ "patch" \in Ops
    /\ req[c] = Idle
    /\ to = tables[t] \/ to \in Transitions[tables[t]]
    /\ req' = [req EXCEPT ![c] = Call("patch_write", None, t, None, to)]
    /\ UNCHANGED <<orders, payments, sessions, members, tables, active>>

PatchRead(c, t, to) ==
    /\ "patch" \in Ops
    /\ req[c] = Idle
    /\ to # "seated"
    /\ to = tables[t] \/ to \in Transitions[tables[t]]
    /\ req' = [req EXCEPT ![c] = Call("patch_write", None, t, None, to)]
    /\ UNCHANGED <<orders, payments, sessions, members, tables, active>>

PatchWrite(c) ==
    LET t == req[c].table IN
    /\ req[c].pc = "patch_write"
    /\ TableFree(t)
    /\ tables' = [tables EXCEPT ![t] = req[c].to]
    /\ Done(c)
    /\ UNCHANGED <<orders, payments, sessions, members, active>>

\* The structural edit that switches a table off or on again.
PatchActive(t) ==
    /\ "activate" \in Ops
    /\ TableFree(t)
    /\ active' = [active EXCEPT ![t] = ~@]
    /\ UNCHANGED <<orders, payments, sessions, members, tables, req>>

DeleteRead(c, t) ==
    /\ "delete" \in Ops
    /\ req[c] = Idle
    /\ \A s \in Sessions : t \notin members[s]
    /\ req' = [req EXCEPT ![c] = Call("delete_write", None, t, None, None)]
    /\ UNCHANGED <<orders, payments, sessions, members, tables, active>>

DeleteWrite(c) ==
    LET t == req[c].table IN
    /\ req[c].pc = "delete_write"
    /\ TableFree(t)
    /\ active' = [active EXCEPT ![t] = FALSE]
    /\ tables' = [tables EXCEPT ![t] = "free"]
    /\ Done(c)
    /\ UNCHANGED <<orders, payments, sessions, members>>

-----------------------------------------------------------------------------
(* PostgreSQL rolls back one transaction of a cycle of waits. *)

WaitsFor(c, d) ==
    \/ req[c].pc = "move_attach" /\ HoldsSession(d, req[c].session)
    \/ req[c].pc = "merge_table" /\ HoldsTable(d, req[c].table)
    \/ /\ req[c].pc \in {"pay_free", "release_free"}
       /\ \E t \in members[req[c].session] :
            tables[t] # "out_of_service" /\ HoldsTable(d, t)

DeadlockVictim(c) ==
    /\ \E D \in SUBSET Clients :
         /\ c \in D
         /\ \A d \in D : \E e \in D : WaitsFor(d, e)
         /\ \A d \in D : \E e \in D : WaitsFor(e, d)
    /\ Refuse(c)

-----------------------------------------------------------------------------
\* The statements of a request already being served.
Step(c) ==
    \/ CreateSession(c) \/ CreateInsert(c) \/ CreateOpen(c)
    \/ PaySession(c) \/ PaySettle(c) \/ PayFree(c)
    \/ MoveTable(c) \/ MoveAttach(c)
    \/ MergeTable(c) \/ ReleaseFree(c)
    \/ PatchWrite(c) \/ DeleteWrite(c)
    \/ DeadlockVictim(c)

\* A request arrives.
Begin(c) ==
    \/ \E o \in Orders, t \in Tables \cup {None} : CreateCheck(c, o, t)
    \/ \E o \in Orders : PayLock(c, o)
    \/ \E o \in Orders, t \in Tables : MoveLock(c, o, t)
    \/ \E s \in Sessions, t \in Tables : MergeLock(c, s, t)
    \/ \E s \in Sessions : ReleaseLock(c, s)
    \/ \E t \in Tables, to \in TableStatus : PatchRead(c, t, to)
    \/ \E t \in Tables : DeleteRead(c, t)

\* Requests that are a single step.
Request1 ==
    \/ \E o \in Orders : VoidOrder(o) \/ Detach(o)
    \/ \E T \in (SUBSET Tables) \ {{}} : Seat(T)
    \/ \E t \in Tables : PatchActive(t)

Next == Request1 \/ \E c \in Clients : Begin(c) \/ Step(c)

Spec == Init /\ [][Next]_vars

\* A server process keeps running its request, and PostgreSQL grants a row
\* lock to its waiters in turn: a statement enabled again and again is run.
FairSpec == Spec /\ \A c \in Clients : SF_vars(Step(c))

-----------------------------------------------------------------------------
(* Properties. *)

\* Every variable holds a value of its column's type.
TypeOK ==
    /\ orders \in [Orders -> Order]
    /\ payments \in [Orders -> Nat]
    /\ sessions \in [Sessions -> SessionStatus]
    /\ members \in [Sessions -> SUBSET Tables]
    /\ tables \in [Tables -> TableStatus]
    /\ active \in [Tables -> BOOLEAN]
    /\ req \in [Clients -> Request]

\* A session that is not open holds no table: a merge racing the checkout
\* that closes the session cannot leave a table held by a finished visit.
ClosedHoldsNothing == \A s \in Sessions : sessions[s] # "open" => members[s] = {}

\* A physical table is in at most one visit, whatever seats, merges, moves
\* and orders race for it.
OneVisitPerTable ==
    \A s1, s2 \in Sessions : s1 # s2 => members[s1] \cap members[s2] = {}

\* The ledger carries one settlement for an order that was completed and none
\* for any other, whatever checkouts, voids and moves race for the order.
SettledExactlyOnce ==
    \A o \in Orders : payments[o] = IF orders[o].status = "completed" THEN 1 ELSE 0

\* A table shown seated is held by an open session, so its party's checkout or
\* release will free it: no order of events strands a table nobody sits at.
ShownSeatedIsHeld ==
    \A t \in Tables : tables[t] = "seated" => OpenSessionsOf(t) # {}

\* Cashiers settling the last orders of a visit at the same moment do not each
\* leave the closing to the other: a checkout that leaves an open visit without
\* an open order closes it, unless the order it had found open beside its own
\* was voided or left the visit while it ran; that other was never paid meanwhile.
LastCheckoutReleases ==
    [][\A o \in Orders :
         LET s == orders[o].session IN
         /\ orders[o].status = "open" /\ orders'[o].status = "completed"
         /\ s # None
         /\ sessions[s] = "open"
         /\ OpenOrdersOf(s)' = {}
         => \/ sessions'[s] = "closed"
            \/ \E c \in Clients :
                 LET w == req[c].other IN
                 /\ req[c].order = o /\ w \in Orders
                 /\ orders[w].status = "voided" \/ orders[w].session # s]_vars

\* A session closes only in a step that leaves it no order still to be paid:
\* "one paid bill must not evict a table that is still eating".
NobodyIsEvicted ==
    [][\A s \in Sessions :
         sessions[s] = "open" /\ sessions'[s] = "closed" => OpenOrdersOf(s)' = {}]_vars

\* A completed or voided order is never written again: no late statement of
\* a losing request moves, reopens, voids or re-settles it.
FinalOrdersStayFinal ==
    [][\A o \in Orders :
         orders[o].status \in {"completed", "voided"} =>
            orders'[o] = orders[o] /\ payments'[o] = payments[o]]_vars

\* An order that is moved joins a visit that is still open.  Unlike createOrder,
\* the move holds the table's row while it reads the session.
MoveJoinsOpenVisit ==
    [][\A o \in Orders :
         LET s == orders'[o].session IN
         /\ orders[o].status = "open"
         /\ s # orders[o].session
         /\ s # None
         => sessions'[s] = "open"]_vars

\* Every request is answered, although moves and checkouts lock the same rows
\* in opposite orders.
EveryRequestIsAnswered == \A c \in Clients : req[c] # Idle ~> req[c] = Idle

\* The sessions and their memberships behave as visits do: a refinement that
\* every interleaving of the handlers must keep.
V == INSTANCE Visits WITH Parties <- Sessions, phase <- sessions, holds <- members

ImplementsVisits == V!Spec

\* The claim of releaseTableAfterOrderSettled's comment ("concurrency-safe",
\* "only when the last one is finalized does the table go back"): an order
\* somebody can still pay belongs to a visit that is still open.
OpenOrderHasOpenVisit ==
    \A o \in Orders :
        orders[o].status = "open" /\ orders[o].session # None
            => sessions[orders[o].session] = "open"

\* The claim of the checkout's comment ("settling the session's last active order
\* frees its tables automatically"): a checkout that leaves an open visit
\* without an open order closes it.
LastBillFreesTable ==
    [][\A o \in Orders :
         LET s == orders[o].session IN
         /\ orders[o].status = "open" /\ orders'[o].status = "completed"
         /\ s # None
         /\ sessions[s] = "open"
         /\ OpenOrdersOf(s)' = {}
         => sessions'[s] = "closed"]_vars

\* The claim of the delete handler's comment ("Blocked while it holds an active
\* session"): a retired table is not part of an open visit.
RetiredHoldsNobody == \A t \in Tables : ~active[t] => OpenSessionsOf(t) = {}

\* The claim of the status change's comment ("Direct status changes here are for
\* tables without an active session"): a table shown free has no open visit.
ShownFreeIsFree == \A t \in Tables : tables[t] = "free" => OpenSessionsOf(t) = {}

=============================================================================
