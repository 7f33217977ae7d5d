------------------------ MODULE TableService_proofs ------------------------
(***************************************************************************)
(* The safety of TableService for any number of tables, visits, orders and *)
(* handlers.  The invariant IInv says what each handler may rely on at the *)
(* place it has reached: the rows it holds are in the state it read.       *)
(***************************************************************************)
EXTENDS TableService, TLAPS

\* A handler that holds an order holds one that is open, whatever else runs.
OrderHeld(c) ==
    req[c].pc \in {"pay_session", "pay_settle", "pay_free", "move_table", "move_attach"} =>
        req[c].order \in Orders /\ orders[req[c].order].status = "open"

\* A handler that holds a session holds one that is open.
SessionHeld(c) ==
    req[c].pc \in {"pay_settle", "pay_free", "merge_table", "release_free"} =>
        req[c].session \in Sessions /\ sessions[req[c].session] = "open"

\* What the count of surviving orders found stays true until the commit: a
\* checkout's session is its order's, with no other open order.
CountStands(c) ==
    /\ req[c].pc = "pay_free" =>
        /\ req[c].session = orders[req[c].order].session
        /\ OpenOrdersOf(req[c].session) \subseteq {req[c].order}
    /\ req[c].pc = "release_free" => OpenOrdersOf(req[c].session) = {}

\* A checkout that found another order open under the session's lock: the
\* session is its own order's, and as long as that other is of the session it is
\* open or was voided, for nobody else can have settled it.
OtherStands(c) ==
    req[c].pc = "pay_settle" =>
        /\ req[c].session = orders[req[c].order].session
        /\ req[c].other \in Orders /\ req[c].other # req[c].order
        /\ \/ orders[req[c].other].session # req[c].session
           \/ orders[req[c].other].status \in {"open", "voided"}

\* A move that has locked its table has read a session that still holds it.
MoveHeld(c) ==
    req[c].pc = "move_attach" =>
        /\ req[c].session \in Sessions /\ sessions[req[c].session] = "open"
        /\ req[c].table \in members[req[c].session]
        /\ tables[req[c].table] # "out_of_service"

\* The arguments a handler carries to its later statements.
Arguments(c) ==
    /\ req[c].pc \in {"create_session", "create_insert", "create_open"} => req[c].order \in Orders
    /\ req[c].pc \in {"create_open", "move_table", "move_attach", "merge_table",
                      "patch_write", "delete_write"} => req[c].table \in Tables
    /\ req[c].pc = "patch_write" => req[c].to \in TableStatus \ {"seated"}

\* No row is locked FOR UPDATE twice.
LocksExclude ==
    /\ \A c, d \in Clients, o \in Orders : HoldsOrder(c, o) /\ HoldsOrder(d, o) => c = d
    /\ \A c, d \in Clients, s \in Sessions : HoldsSession(c, s) /\ HoldsSession(d, s) => c = d

IInv ==
    /\ TypeOK
    /\ ClosedHoldsNothing
    /\ OneVisitPerTable
    /\ SettledExactlyOnce
    /\ ShownSeatedIsHeld
    /\ LocksExclude
    /\ \A c \in Clients :
         /\ OrderHeld(c) /\ SessionHeld(c) /\ CountStands(c) /\ OtherStands(c)
         /\ MoveHeld(c) /\ Arguments(c)

-----------------------------------------------------------------------------
\* Every initial state satisfies the invariant.
LEMMA InitInv == Init => IInv
  BY NoneAssumption DEF Init, IInv, TypeOK, ClosedHoldsNothing, OneVisitPerTable,
    SettledExactlyOnce, ShownSeatedIsHeld, LocksExclude, OrderHeld, SessionHeld,
    CountStands, OtherStands, MoveHeld, Arguments, HoldsOrder, HoldsSession, Order, OrderStatus,
    SessionStatus, TableStatus, Request, Places, Idle, Call

\* A refused or rolled-back request frees its locks and changes nothing else.
LEMMA RefuseStep == ASSUME NEW c \in Clients, IInv, Refuse(c) PROVE IInv'
  <1>1. TypeOK'
    BY NoneAssumption DEF Refuse, Done, Call, Idle, IInv, TypeOK, Request, Places
  <1>2. LocksExclude'
    BY NoneAssumption DEF Refuse, Done, Call, Idle, IInv, LocksExclude, HoldsOrder,
      HoldsSession
  <1>3. ASSUME NEW d \in Clients
       PROVE  (/\ OrderHeld(d) /\ SessionHeld(d) /\ CountStands(d) /\ OtherStands(d)
               /\ MoveHeld(d) /\ Arguments(d))'
    BY NoneAssumption DEF Refuse, Done, Call, Idle, IInv, TypeOK, Request, Order,
      OrderHeld, SessionHeld, CountStands, OtherStands, MoveHeld, Arguments, OrderFree, HoldsOrder,
      SessionFree, OpenOrdersOf
  <1>4. (ClosedHoldsNothing /\ OneVisitPerTable /\ SettledExactlyOnce /\ ShownSeatedIsHeld)'
    BY NoneAssumption DEF Refuse, Done, Call, Idle, IInv, TypeOK, ClosedHoldsNothing,
      OneVisitPerTable, SettledExactlyOnce, ShownSeatedIsHeld, OpenSessionsOf
  <1> QED BY <1>1, <1>2, <1>3, <1>4 DEF IInv

\* createOrder's checks keep the invariant.
LEMMA CreateCheckStep ==
    ASSUME NEW c \in Clients, NEW o \in Orders, NEW t \in Tables \cup {None}, IInv, CreateCheck(c, o, t)
    PROVE  IInv'
  <1>1. TypeOK'
    BY NoneAssumption DEF CreateCheck, Call, Idle, IInv, TypeOK, Request, Places
  <1>2. LocksExclude'
    BY NoneAssumption DEF CreateCheck, Call, IInv, LocksExclude, HoldsOrder, HoldsSession
  <1>3. ASSUME NEW d \in Clients
       PROVE  (/\ OrderHeld(d) /\ SessionHeld(d) /\ CountStands(d) /\ OtherStands(d)
               /\ MoveHeld(d) /\ Arguments(d))'
    BY NoneAssumption DEF CreateCheck, Call, Idle, IInv, TypeOK, Request, Order, OrderHeld,
      SessionHeld, CountStands, OtherStands, MoveHeld, Arguments, OrderFree, HoldsOrder, SessionFree,
      OpenOrdersOf
  <1>4. (ClosedHoldsNothing /\ OneVisitPerTable /\ SettledExactlyOnce /\ ShownSeatedIsHeld)'
    BY NoneAssumption DEF CreateCheck, Call, Idle, IInv, TypeOK, ClosedHoldsNothing,
      OneVisitPerTable, SettledExactlyOnce, ShownSeatedIsHeld, OpenSessionsOf
  <1> QED BY <1>1, <1>2, <1>3, <1>4 DEF IInv

\* Payment under the order's lock keeps it.
LEMMA PayLockStep ==
    ASSUME NEW c \in Clients, NEW o \in Orders, IInv, PayLock(c, o)
    PROVE  IInv'
  <1>1. TypeOK'
    BY NoneAssumption DEF PayLock, Call, Idle, IInv, TypeOK, Request, Places
  <1>2. LocksExclude'
    BY NoneAssumption DEF PayLock, Call, IInv, LocksExclude, HoldsOrder, HoldsSession,
      OrderFree
  <1>3. ASSUME NEW d \in Clients
       PROVE  (/\ OrderHeld(d) /\ SessionHeld(d) /\ CountStands(d) /\ OtherStands(d)
               /\ MoveHeld(d) /\ Arguments(d))'
    BY NoneAssumption DEF PayLock, Call, Idle, IInv, TypeOK, Request, Order, OrderHeld,
      SessionHeld, CountStands, OtherStands, MoveHeld, Arguments, OrderFree, HoldsOrder, SessionFree,
      OpenOrdersOf
  <1>4. (ClosedHoldsNothing /\ OneVisitPerTable /\ SettledExactlyOnce /\ ShownSeatedIsHeld)'
    BY NoneAssumption DEF PayLock, Call, Idle, IInv, TypeOK, ClosedHoldsNothing,
      OneVisitPerTable, SettledExactlyOnce, ShownSeatedIsHeld, OpenSessionsOf
  <1> QED BY <1>1, <1>2, <1>3, <1>4 DEF IInv

\* Freeing the tables after a payment keeps it.
LEMMA PayFreeStep == ASSUME NEW c \in Clients, IInv, PayFree(c) PROVE IInv'
  <1>1. TypeOK'
    BY NoneAssumption DEF PayFree, Done, ReleaseTables, Settle, Call, Idle, IInv, TypeOK,
      Request, Places, Order, OrderStatus, SessionStatus, TableStatus, OrderHeld,
      SessionHeld
  <1>2. LocksExclude'
    BY NoneAssumption DEF PayFree, Done, ReleaseTables, Settle, Call, Idle, IInv,
      LocksExclude, HoldsOrder, HoldsSession
  <1>3. ASSUME NEW d \in Clients
       PROVE  (/\ OrderHeld(d) /\ SessionHeld(d) /\ CountStands(d) /\ OtherStands(d)
               /\ MoveHeld(d) /\ Arguments(d))'
    BY NoneAssumption DEF PayFree, Done, ReleaseTables, Settle, Call, Idle, IInv, TypeOK,
      Request, Order, OrderHeld, SessionHeld, CountStands, OtherStands, MoveHeld, Arguments, OrderFree,
      HoldsOrder, SessionFree, HoldsSession, TableFree, HoldsTable, OpenOrdersOf,
      TablesFreeOf, LocksExclude
  <1>4. (ClosedHoldsNothing /\ OneVisitPerTable /\ SettledExactlyOnce /\ ShownSeatedIsHeld)'
    BY NoneAssumption DEF PayFree, Done, ReleaseTables, Settle, Call, Idle, IInv, TypeOK,
      ClosedHoldsNothing, OneVisitPerTable, SettledExactlyOnce, ShownSeatedIsHeld,
      OpenSessionsOf, OrderHeld
  <1> QED BY <1>1, <1>2, <1>3, <1>4 DEF IInv

\* Voiding an order keeps it.
LEMMA VoidOrderStep == ASSUME NEW o \in Orders, IInv, VoidOrder(o) PROVE IInv'
  <1>1. TypeOK'
    <2>1. ASSUME NEW x \in Orders PROVE orders'[x] \in Order /\ payments'[x] \in Nat
      BY NoneAssumption DEF VoidOrder, IInv, TypeOK, Order, OrderStatus
    <2>2. (orders \in [Orders -> Order] /\ payments \in [Orders -> Nat])'
      BY NoneAssumption, <2>1 DEF VoidOrder, IInv, TypeOK
    <2>3. (/\ sessions \in [Sessions -> SessionStatus] /\ members \in [Sessions -> SUBSET Tables]
            /\ tables \in [Tables -> TableStatus] /\ active \in [Tables -> BOOLEAN])'
      BY NoneAssumption DEF VoidOrder, IInv, TypeOK
    <2>4. (req \in [Clients -> Request])'
      BY NoneAssumption DEF VoidOrder, IInv, TypeOK
    <2> QED BY <2>2, <2>3, <2>4 DEF TypeOK
  <1>2. LocksExclude'
    BY NoneAssumption DEF VoidOrder, IInv, LocksExclude, HoldsOrder, HoldsSession
  <1>3. ASSUME NEW d \in Clients
       PROVE  (/\ OrderHeld(d) /\ SessionHeld(d) /\ CountStands(d) /\ OtherStands(d)
               /\ MoveHeld(d) /\ Arguments(d))'
    BY NoneAssumption DEF VoidOrder, IInv, TypeOK, Request, Order, OrderHeld, SessionHeld,
      CountStands, OtherStands, MoveHeld, Arguments, OrderFree, HoldsOrder, SessionFree, OpenOrdersOf
  <1>4. (ClosedHoldsNothing /\ OneVisitPerTable /\ SettledExactlyOnce /\ ShownSeatedIsHeld)'
    BY NoneAssumption DEF VoidOrder, IInv, TypeOK, ClosedHoldsNothing, OneVisitPerTable,
      SettledExactlyOnce, ShownSeatedIsHeld, OpenSessionsOf
  <1> QED BY <1>1, <1>2, <1>3, <1>4 DEF IInv

\* Detaching an order from its table keeps it.
LEMMA DetachStep == ASSUME NEW o \in Orders, IInv, Detach(o) PROVE IInv'
  <1>1. TypeOK'
    BY NoneAssumption DEF Detach, Attach, IInv, TypeOK, Request, Order
  <1>2. LocksExclude'
    BY NoneAssumption DEF Detach, IInv, LocksExclude, HoldsOrder, HoldsSession
  <1>3. ASSUME NEW d \in Clients
       PROVE  (/\ OrderHeld(d) /\ SessionHeld(d) /\ CountStands(d) /\ OtherStands(d)
               /\ MoveHeld(d) /\ Arguments(d))'
    BY NoneAssumption DEF Detach, Attach, IInv, TypeOK, Request, Order, OrderHeld,
      SessionHeld, CountStands, OtherStands, MoveHeld, Arguments, OrderFree, HoldsOrder, SessionFree,
      OpenOrdersOf
  <1>4. (ClosedHoldsNothing /\ OneVisitPerTable /\ SettledExactlyOnce /\ ShownSeatedIsHeld)'
    BY NoneAssumption DEF Detach, Attach, IInv, TypeOK, ClosedHoldsNothing,
      OneVisitPerTable, SettledExactlyOnce, ShownSeatedIsHeld, OpenSessionsOf
  <1> QED BY <1>1, <1>2, <1>3, <1>4 DEF IInv

\* A move's locked read keeps it.
LEMMA MoveLockStep ==
    ASSUME NEW c \in Clients, NEW o \in Orders, NEW t \in Tables, IInv, MoveLock(c, o, t)
    PROVE  IInv'
  <1>1. TypeOK'
    BY NoneAssumption DEF MoveLock, Call, Idle, IInv, TypeOK, Request, Places
  <1>2. LocksExclude'
    BY NoneAssumption DEF MoveLock, Call, IInv, LocksExclude, HoldsOrder, HoldsSession,
      OrderFree
  <1>3. ASSUME NEW d \in Clients
       PROVE  (/\ OrderHeld(d) /\ SessionHeld(d) /\ CountStands(d) /\ OtherStands(d)
               /\ MoveHeld(d) /\ Arguments(d))'
    BY NoneAssumption DEF MoveLock, Call, Idle, IInv, TypeOK, Request, Order, OrderHeld,
      SessionHeld, CountStands, OtherStands, MoveHeld, Arguments, OrderFree, HoldsOrder, SessionFree,
      OpenOrdersOf
  <1>4. (ClosedHoldsNothing /\ OneVisitPerTable /\ SettledExactlyOnce /\ ShownSeatedIsHeld)'
    BY NoneAssumption DEF MoveLock, Call, Idle, IInv, TypeOK, ClosedHoldsNothing,
      OneVisitPerTable, SettledExactlyOnce, ShownSeatedIsHeld, OpenSessionsOf
  <1> QED BY <1>1, <1>2, <1>3, <1>4 DEF IInv

\* Attaching the moved order keeps it.
LEMMA MoveAttachStep == ASSUME NEW c \in Clients, IInv, MoveAttach(c) PROVE IInv'
  <1>1. TypeOK'
    BY NoneAssumption DEF MoveAttach, Done, Attach, Call, Idle, IInv, TypeOK, Request,
      Places, Order
  <1>2. LocksExclude'
    BY NoneAssumption DEF MoveAttach, Done, Attach, Call, Idle, IInv, LocksExclude,
      HoldsOrder, HoldsSession
  <1>3. ASSUME NEW d \in Clients
       PROVE  (/\ OrderHeld(d) /\ SessionHeld(d) /\ CountStands(d) /\ OtherStands(d)
               /\ MoveHeld(d) /\ Arguments(d))'
    BY NoneAssumption DEF MoveAttach, Done, Attach, Call, Idle, IInv, TypeOK, Request,
      Order, OrderHeld, SessionHeld, CountStands, OtherStands, MoveHeld, Arguments, OrderFree,
      HoldsOrder, SessionFree, HoldsSession, OpenOrdersOf, LocksExclude
  <1>4. (ClosedHoldsNothing /\ OneVisitPerTable /\ SettledExactlyOnce /\ ShownSeatedIsHeld)'
    BY NoneAssumption DEF MoveAttach, Done, Attach, Call, Idle, IInv, TypeOK,
      ClosedHoldsNothing, OneVisitPerTable, SettledExactlyOnce, ShownSeatedIsHeld,
      OpenSessionsOf
  <1> QED BY <1>1, <1>2, <1>3, <1>4 DEF IInv

\* Seating guests at a group keeps it.
LEMMA SeatStep == ASSUME NEW T \in SUBSET Tables, IInv, Seat(T) PROVE IInv'
  <1>1. TypeOK'
    <2>1. PICK s \in Sessions : OpenTables(s, T)
      BY DEF Seat, Fresh
    <2>2. TypeOK /\ UNCHANGED <<orders, payments, active, req>>
      BY DEF Seat, IInv
    <2>3. sessions' \in [Sessions -> SessionStatus]
      BY <2>1, <2>2 DEF OpenTables, TypeOK, SessionStatus
    <2>4. members' \in [Sessions -> SUBSET Tables]
      BY <2>1, <2>2 DEF OpenTables, TypeOK
    <2>5. tables' \in [Tables -> TableStatus]
      BY <2>1, <2>2 DEF OpenTables, TypeOK, TableStatus
    <2> QED BY <2>2, <2>3, <2>4, <2>5 DEF TypeOK
  <1>2. LocksExclude'
    BY NoneAssumption DEF Seat, IInv, LocksExclude, HoldsOrder, HoldsSession
  <1>3. ASSUME NEW d \in Clients
       PROVE  (/\ OrderHeld(d) /\ SessionHeld(d) /\ CountStands(d) /\ OtherStands(d)
               /\ MoveHeld(d) /\ Arguments(d))'
    BY NoneAssumption DEF Seat, OpenTables, IInv, TypeOK, Request, Order, OrderHeld,
      SessionHeld, CountStands, OtherStands, MoveHeld, Arguments, OrderFree, HoldsOrder, SessionFree,
      OpenOrdersOf, Fresh
  <1>4. (ClosedHoldsNothing /\ OneVisitPerTable /\ SettledExactlyOnce /\ ShownSeatedIsHeld)'
    BY NoneAssumption DEF Seat, OpenTables, IInv, TypeOK, ClosedHoldsNothing,
      OneVisitPerTable, SettledExactlyOnce, ShownSeatedIsHeld, OpenSessionsOf, Fresh
  <1> QED BY <1>1, <1>2, <1>3, <1>4 DEF IInv

\* A merge's locked read keeps it.
LEMMA MergeLockStep ==
    ASSUME NEW c \in Clients, NEW s \in Sessions, NEW t \in Tables, IInv, MergeLock(c, s, t)
    PROVE  IInv'
  <1>1. TypeOK'
    BY NoneAssumption DEF MergeLock, Call, Idle, IInv, TypeOK, Request, Places
  <1>2. LocksExclude'
    BY NoneAssumption DEF MergeLock, Call, IInv, LocksExclude, HoldsOrder, HoldsSession,
      SessionFree
  <1>3. ASSUME NEW d \in Clients
       PROVE  (/\ OrderHeld(d) /\ SessionHeld(d) /\ CountStands(d) /\ OtherStands(d)
               /\ MoveHeld(d) /\ Arguments(d))'
    BY NoneAssumption DEF MergeLock, Call, Idle, IInv, TypeOK, Request, Order, OrderHeld,
      SessionHeld, CountStands, OtherStands, MoveHeld, Arguments, OrderFree, HoldsOrder, SessionFree,
      OpenOrdersOf
  <1>4. (ClosedHoldsNothing /\ OneVisitPerTable /\ SettledExactlyOnce /\ ShownSeatedIsHeld)'
    BY NoneAssumption DEF MergeLock, Call, Idle, IInv, TypeOK, ClosedHoldsNothing,
      OneVisitPerTable, SettledExactlyOnce, ShownSeatedIsHeld, OpenSessionsOf
  <1> QED BY <1>1, <1>2, <1>3, <1>4 DEF IInv

\* A release's locked read keeps it.
LEMMA ReleaseLockStep ==
    ASSUME NEW c \in Clients, NEW s \in Sessions, IInv, ReleaseLock(c, s)
    PROVE  IInv'
  <1>1. TypeOK'
    BY NoneAssumption DEF ReleaseLock, Call, Idle, IInv, TypeOK, Request, Places
  <1>2. LocksExclude'
    BY NoneAssumption DEF ReleaseLock, Call, IInv, LocksExclude, HoldsOrder, HoldsSession,
      SessionFree
  <1>3. ASSUME NEW d \in Clients
       PROVE  (/\ OrderHeld(d) /\ SessionHeld(d) /\ CountStands(d) /\ OtherStands(d)
               /\ MoveHeld(d) /\ Arguments(d))'
    BY NoneAssumption DEF ReleaseLock, Call, Idle, IInv, TypeOK, Request, Order, OrderHeld,
      SessionHeld, CountStands, OtherStands, MoveHeld, Arguments, OrderFree, HoldsOrder, SessionFree,
      OpenOrdersOf
  <1>4. (ClosedHoldsNothing /\ OneVisitPerTable /\ SettledExactlyOnce /\ ShownSeatedIsHeld)'
    BY NoneAssumption DEF ReleaseLock, Call, Idle, IInv, TypeOK, ClosedHoldsNothing,
      OneVisitPerTable, SettledExactlyOnce, ShownSeatedIsHeld, OpenSessionsOf
  <1> QED BY <1>1, <1>2, <1>3, <1>4 DEF IInv

\* A release that frees the tables keeps it.
LEMMA ReleaseFreeStep == ASSUME NEW c \in Clients, IInv, ReleaseFree(c) PROVE IInv'
  <1>1. TypeOK'
    BY NoneAssumption DEF ReleaseFree, Done, ReleaseTables, Call, Idle, IInv, TypeOK,
      Request, Places, SessionStatus, TableStatus
  <1>2. LocksExclude'
    BY NoneAssumption DEF ReleaseFree, Done, ReleaseTables, Call, Idle, IInv, LocksExclude,
      HoldsOrder, HoldsSession
  <1>3. ASSUME NEW d \in Clients
       PROVE  (/\ OrderHeld(d) /\ SessionHeld(d) /\ CountStands(d) /\ OtherStands(d)
               /\ MoveHeld(d) /\ Arguments(d))'
    BY NoneAssumption DEF ReleaseFree, Done, ReleaseTables, Call, Idle, IInv, TypeOK,
      Request, Order, OrderHeld, SessionHeld, CountStands, OtherStands, MoveHeld, Arguments, OrderFree,
      HoldsOrder, SessionFree, HoldsSession, TableFree, HoldsTable, OpenOrdersOf,
      TablesFreeOf, LocksExclude
  <1>4. (ClosedHoldsNothing /\ OneVisitPerTable /\ SettledExactlyOnce /\ ShownSeatedIsHeld)'
    BY NoneAssumption DEF ReleaseFree, Done, ReleaseTables, Call, Idle, IInv, TypeOK,
      ClosedHoldsNothing, OneVisitPerTable, SettledExactlyOnce, ShownSeatedIsHeld,
      OpenSessionsOf
  <1> QED BY <1>1, <1>2, <1>3, <1>4 DEF IInv

\* An edit's read of the table keeps it.
LEMMA PatchReadStep ==
    ASSUME NEW c \in Clients, NEW t \in Tables, NEW to \in TableStatus, IInv, PatchRead(c, t, to)
    PROVE  IInv'
  <1>1. TypeOK'
    BY NoneAssumption DEF PatchRead, Call, Idle, IInv, TypeOK, Request, Places
  <1>2. LocksExclude'
    BY NoneAssumption DEF PatchRead, Call, IInv, LocksExclude, HoldsOrder, HoldsSession
  <1>3. ASSUME NEW d \in Clients
       PROVE  (/\ OrderHeld(d) /\ SessionHeld(d) /\ CountStands(d) /\ OtherStands(d)
               /\ MoveHeld(d) /\ Arguments(d))'
    BY NoneAssumption DEF PatchRead, Call, Idle, IInv, TypeOK, Request, Order, OrderHeld,
      SessionHeld, CountStands, OtherStands, MoveHeld, Arguments, OrderFree, HoldsOrder, SessionFree,
      OpenOrdersOf
  <1>4. (ClosedHoldsNothing /\ OneVisitPerTable /\ SettledExactlyOnce /\ ShownSeatedIsHeld)'
    BY NoneAssumption DEF PatchRead, Call, Idle, IInv, TypeOK, ClosedHoldsNothing,
      OneVisitPerTable, SettledExactlyOnce, ShownSeatedIsHeld, OpenSessionsOf
  <1> QED BY <1>1, <1>2, <1>3, <1>4 DEF IInv

\* An edit's write keeps it: a status is no attachment.
LEMMA PatchWriteStep == ASSUME NEW c \in Clients, IInv, PatchWrite(c) PROVE IInv'
  <1>1. TypeOK'
    BY NoneAssumption DEF PatchWrite, Done, Call, Idle, IInv, TypeOK, Request, Places,
      Arguments
  <1>2. LocksExclude'
    BY NoneAssumption DEF PatchWrite, Done, Call, Idle, IInv, LocksExclude, HoldsOrder,
      HoldsSession
  <1>3. ASSUME NEW d \in Clients
       PROVE  (/\ OrderHeld(d) /\ SessionHeld(d) /\ CountStands(d) /\ OtherStands(d)
               /\ MoveHeld(d) /\ Arguments(d))'
    BY NoneAssumption DEF PatchWrite, Done, Call, Idle, IInv, TypeOK, Request, Order,
      OrderHeld, SessionHeld, CountStands, OtherStands, MoveHeld, Arguments, OrderFree, HoldsOrder,
      SessionFree, TableFree, HoldsTable, OpenOrdersOf
  <1>4. (ClosedHoldsNothing /\ OneVisitPerTable /\ SettledExactlyOnce /\ ShownSeatedIsHeld)'
    BY NoneAssumption DEF PatchWrite, Done, Call, Idle, IInv, TypeOK, ClosedHoldsNothing,
      OneVisitPerTable, SettledExactlyOnce, ShownSeatedIsHeld, OpenSessionsOf, Arguments
  <1> QED BY <1>1, <1>2, <1>3, <1>4 DEF IInv

\* Hiding or showing a table keeps it.
LEMMA PatchActiveStep == ASSUME NEW t \in Tables, IInv, PatchActive(t) PROVE IInv'
  <1>1. TypeOK'
    BY NoneAssumption DEF PatchActive, IInv, TypeOK, Request
  <1>2. LocksExclude'
    BY NoneAssumption DEF PatchActive, IInv, LocksExclude, HoldsOrder, HoldsSession
  <1>3. ASSUME NEW d \in Clients
       PROVE  (/\ OrderHeld(d) /\ SessionHeld(d) /\ CountStands(d) /\ OtherStands(d)
               /\ MoveHeld(d) /\ Arguments(d))'
    BY NoneAssumption DEF PatchActive, IInv, TypeOK, Request, Order, OrderHeld,
      SessionHeld, CountStands, OtherStands, MoveHeld, Arguments, OrderFree, HoldsOrder, SessionFree,
      OpenOrdersOf
  <1>4. (ClosedHoldsNothing /\ OneVisitPerTable /\ SettledExactlyOnce /\ ShownSeatedIsHeld)'
    BY NoneAssumption DEF PatchActive, IInv, TypeOK, ClosedHoldsNothing, OneVisitPerTable,
      SettledExactlyOnce, ShownSeatedIsHeld, OpenSessionsOf
  <1> QED BY <1>1, <1>2, <1>3, <1>4 DEF IInv

\* A deletion's check keeps it.
LEMMA DeleteReadStep ==
    ASSUME NEW c \in Clients, NEW t \in Tables, IInv, DeleteRead(c, t)
    PROVE  IInv'
  <1>1. TypeOK'
    BY NoneAssumption DEF DeleteRead, Call, Idle, IInv, TypeOK, Request, Places
  <1>2. LocksExclude'
    BY NoneAssumption DEF DeleteRead, Call, IInv, LocksExclude, HoldsOrder, HoldsSession
  <1>3. ASSUME NEW d \in Clients
       PROVE  (/\ OrderHeld(d) /\ SessionHeld(d) /\ CountStands(d) /\ OtherStands(d)
               /\ MoveHeld(d) /\ Arguments(d))'
    BY NoneAssumption DEF DeleteRead, Call, Idle, IInv, TypeOK, Request, Order, OrderHeld,
      SessionHeld, CountStands, OtherStands, MoveHeld, Arguments, OrderFree, HoldsOrder, SessionFree,
      OpenOrdersOf
  <1>4. (ClosedHoldsNothing /\ OneVisitPerTable /\ SettledExactlyOnce /\ ShownSeatedIsHeld)'
    BY NoneAssumption DEF DeleteRead, Call, Idle, IInv, TypeOK, ClosedHoldsNothing,
      OneVisitPerTable, SettledExactlyOnce, ShownSeatedIsHeld, OpenSessionsOf
  <1> QED BY <1>1, <1>2, <1>3, <1>4 DEF IInv

\* A deletion keeps it: the table it leaves is shown free.
LEMMA DeleteWriteStep == ASSUME NEW c \in Clients, IInv, DeleteWrite(c) PROVE IInv'
  <1>1. TypeOK'
    BY NoneAssumption DEF DeleteWrite, Done, Call, Idle, IInv, TypeOK, Request, Places,
      TableStatus
  <1>2. LocksExclude'
    BY NoneAssumption DEF DeleteWrite, Done, Call, Idle, IInv, LocksExclude, HoldsOrder,
      HoldsSession
  <1>3. ASSUME NEW d \in Clients
       PROVE  (/\ OrderHeld(d) /\ SessionHeld(d) /\ CountStands(d) /\ OtherStands(d)
               /\ MoveHeld(d) /\ Arguments(d))'
    BY NoneAssumption DEF DeleteWrite, Done, Call, Idle, IInv, TypeOK, Request, Order,
      OrderHeld, SessionHeld, CountStands, OtherStands, MoveHeld, Arguments, OrderFree, HoldsOrder,
      SessionFree, OpenOrdersOf
  <1>4. (ClosedHoldsNothing /\ OneVisitPerTable /\ SettledExactlyOnce /\ ShownSeatedIsHeld)'
    BY NoneAssumption DEF DeleteWrite, Done, Call, Idle, IInv, TypeOK, ClosedHoldsNothing,
      OneVisitPerTable, SettledExactlyOnce, ShownSeatedIsHeld, OpenSessionsOf
  <1> QED BY <1>1, <1>2, <1>3, <1>4 DEF IInv

\* The order's row keeps it.
LEMMA CreateInsertStep == ASSUME NEW c \in Clients, IInv, CreateInsert(c) PROVE IInv'
  <1>1. CASE Refuse(c)
    BY <1>1, RefuseStep
  <1>2. ASSUME req[c].pc = "create_insert",
              orders[req[c].order].status = "none",
              req[c].session # None => SessionFree(req[c].session),
              InsertOrder(req[c].order, req[c].table, req[c].session),
              Done(c),
              UNCHANGED <<payments, sessions, members, tables, active>>
       PROVE  IInv'
    <2>1. TypeOK'
      BY NoneAssumption, <1>2 DEF InsertOrder, Done, Call, Idle, IInv, TypeOK, Request,
        Places, Order, OrderStatus
    <2>2. LocksExclude'
      BY NoneAssumption, <1>2 DEF SessionFree, InsertOrder, Done, Call, Idle, IInv,
        LocksExclude, HoldsOrder, HoldsSession
    <2>3. ASSUME NEW d \in Clients
         PROVE  (/\ OrderHeld(d) /\ SessionHeld(d) /\ CountStands(d) /\ OtherStands(d)
                 /\ MoveHeld(d) /\ Arguments(d))'
      BY NoneAssumption, <1>2 DEF SessionFree, InsertOrder, Done, Call, Idle, IInv, TypeOK,
        Request, Order, OrderHeld, SessionHeld, CountStands, OtherStands, MoveHeld, Arguments,
        OrderFree, HoldsOrder, HoldsSession, OpenOrdersOf
    <2>4. (ClosedHoldsNothing /\ OneVisitPerTable /\ SettledExactlyOnce /\ ShownSeatedIsHeld)'
      BY NoneAssumption, <1>2 DEF InsertOrder, Done, Call, Idle, IInv, TypeOK,
        ClosedHoldsNothing, OneVisitPerTable, SettledExactlyOnce, ShownSeatedIsHeld,
        OpenSessionsOf
    <2> QED BY <2>1, <2>2, <2>3, <2>4 DEF IInv
  <1> QED BY <1>1, <1>2 DEF CreateInsert

\* Opening the order's visit keeps it.
LEMMA CreateOpenStep == ASSUME NEW c \in Clients, IInv, CreateOpen(c) PROVE IInv'
  <1>1. CASE Refuse(c)
    BY <1>1, RefuseStep
  <1>2. ASSUME NEW s \in Fresh,
              req[c].pc = "create_open",
              TableFree(req[c].table),
              OpenSessionsOf(req[c].table) = {},
              orders[req[c].order].status = "none",
              OpenTables(s, {req[c].table}),
              InsertOrder(req[c].order, req[c].table, s),
              Done(c),
              UNCHANGED <<payments, active>>
       PROVE  IInv'
    <2>1. TypeOK'
      BY NoneAssumption, <1>2 DEF OpenSessionsOf, OpenTables, InsertOrder, Done, Call,
        Idle, IInv, TypeOK, Request, Places, Order, OrderStatus, SessionStatus,
        TableStatus, Arguments, Fresh
    <2>2. LocksExclude'
      BY NoneAssumption, <1>2 DEF OpenTables, InsertOrder, Done, Call, Idle, IInv,
        LocksExclude, HoldsOrder, HoldsSession
    <2>3. ASSUME NEW d \in Clients
         PROVE  (/\ OrderHeld(d) /\ SessionHeld(d) /\ CountStands(d) /\ OtherStands(d)
                 /\ MoveHeld(d) /\ Arguments(d))'
      BY NoneAssumption, <1>2 DEF TableFree, OpenSessionsOf, OpenTables, InsertOrder, Done,
        Call, Idle, IInv, TypeOK, Request, Order, OrderHeld, SessionHeld, CountStands, OtherStands,
        MoveHeld, Arguments, OrderFree, OpenOrdersOf, Fresh
    <2>4. (ClosedHoldsNothing /\ OneVisitPerTable /\ SettledExactlyOnce /\ ShownSeatedIsHeld)'
      BY NoneAssumption, <1>2 DEF OpenSessionsOf, OpenTables, InsertOrder, Done, Call,
        Idle, IInv, TypeOK, ClosedHoldsNothing, OneVisitPerTable, SettledExactlyOnce,
        ShownSeatedIsHeld, Fresh
    <2> QED BY <2>1, <2>2, <2>3, <2>4 DEF IInv
  <1> QED BY <1>1, <1>2 DEF CreateOpen

\* Settling the order keeps it.
LEMMA SettleStep ==
    ASSUME NEW c \in Clients, IInv,
           req[c].pc \in {"pay_session", "pay_settle"},
           req[c].pc = "pay_session" =>
             \A s \in Sessions : orders[req[c].order].session = s => sessions[s] # "open",
           Settle(req[c].order), Done(c), UNCHANGED <<sessions, members, tables, active>>
    PROVE  IInv'
  <1>1. TypeOK'
    BY NoneAssumption DEF Settle, Done, Call, Idle, IInv, TypeOK, Request, Places, Order,
      OrderStatus, TableStatus, OrderHeld
  <1>2. LocksExclude'
    BY NoneAssumption DEF Settle, Done, Call, Idle, IInv, LocksExclude, HoldsOrder,
      HoldsSession
  <1>3. ASSUME NEW d \in Clients
       PROVE  (/\ OrderHeld(d) /\ SessionHeld(d) /\ CountStands(d) /\ OtherStands(d)
               /\ MoveHeld(d) /\ Arguments(d))'
    <2>1. (OrderHeld(d) /\ SessionHeld(d) /\ CountStands(d))'
      BY NoneAssumption DEF Settle, Done, Call, Idle, IInv, TypeOK, Request, Order,
        OrderHeld, SessionHeld, CountStands, HoldsOrder, OpenOrdersOf, LocksExclude
    <2>2. OtherStands(d)'
      BY NoneAssumption DEF Settle, Done, Call, Idle, IInv, TypeOK, Request, Order,
        OrderHeld, SessionHeld, OtherStands, HoldsOrder, HoldsSession, LocksExclude
    <2>3. (MoveHeld(d) /\ Arguments(d))'
      BY NoneAssumption DEF Settle, Done, Call, Idle, IInv, MoveHeld, Arguments
    <2> QED BY <2>1, <2>2, <2>3
  <1>4. (ClosedHoldsNothing /\ OneVisitPerTable /\ SettledExactlyOnce /\ ShownSeatedIsHeld)'
    BY NoneAssumption DEF Settle, Done, Call, Idle, IInv, TypeOK, ClosedHoldsNothing,
      OneVisitPerTable, SettledExactlyOnce, ShownSeatedIsHeld, OpenSessionsOf, OrderHeld
  <1> QED BY <1>1, <1>2, <1>3, <1>4 DEF IInv

\* Locking the order's session, and asking for another open order, keeps it.
LEMMA PaySessionStep == ASSUME NEW c \in Clients, IInv, PaySession(c) PROVE IInv'
  <1> DEFINE o == req[c].order
             s == orders[o].session
  <1>0. o \in Orders /\ orders[o].status = "open" /\ s \in Sessions \cup {None}
    BY DEF PaySession, IInv, OrderHeld, TypeOK, Order
  <1>1. ASSUME NEW q \in Request, req' = [req EXCEPT ![c] = q],
              req[c].pc = "pay_session", s \in Sessions, sessions[s] = "open",
              SessionFree(s), q.order = o, q.session = s,
              \/ q.pc = "pay_free" /\ OpenOrdersOf(s) \subseteq {o}
              \/ q.pc = "pay_settle" /\ q.other \in OpenOrdersOf(s) \ {o},
              UNCHANGED <<orders, payments, sessions, members, tables, active>>
       PROVE  IInv'
    <2>1. TypeOK'
      BY <1>1 DEF IInv, TypeOK
    <2>2. LocksExclude'
      BY <1>0, <1>1 DEF SessionFree, IInv, TypeOK, LocksExclude, HoldsOrder, HoldsSession
    <2>3. ASSUME NEW d \in Clients
         PROVE  (/\ OrderHeld(d) /\ SessionHeld(d) /\ CountStands(d) /\ OtherStands(d)
                 /\ MoveHeld(d) /\ Arguments(d))'
      <3>1. OrderHeld(d)'
        BY <1>0, <1>1 DEF IInv, TypeOK, OrderHeld
      <3>2. SessionHeld(d)'
        BY <1>0, <1>1 DEF IInv, TypeOK, SessionHeld
      <3>3. CountStands(d)'
        BY <1>0, <1>1 DEF OpenOrdersOf, IInv, TypeOK, CountStands
      <3>4. OtherStands(d)'
        BY <1>0, <1>1 DEF OpenOrdersOf, IInv, TypeOK, OtherStands
      <3>5. (MoveHeld(d) /\ Arguments(d))'
        BY <1>0, <1>1 DEF IInv, TypeOK, MoveHeld, Arguments
      <3> QED BY <3>1, <3>2, <3>3, <3>4, <3>5
    <2>4. (ClosedHoldsNothing /\ OneVisitPerTable /\ SettledExactlyOnce /\ ShownSeatedIsHeld)'
      BY <1>1 DEF IInv, TypeOK, ClosedHoldsNothing, OneVisitPerTable, SettledExactlyOnce,
        ShownSeatedIsHeld, OpenSessionsOf
    <2> QED BY <2>1, <2>2, <2>3, <2>4 DEF IInv
  <1>2. ASSUME s \in Sessions, sessions[s] = "open", SessionFree(s),
              OpenOrdersOf(s) \subseteq {o}, Goto(c, "pay_free", s),
              UNCHANGED <<orders, payments, sessions, members, tables, active>>
        PROVE  IInv'
    <2> DEFINE q == Call("pay_free", req[c].order, req[c].table, s, None)
    <2>1. req[c].pc = "pay_session" /\ req[c] \in Request
      BY DEF PaySession, IInv, TypeOK
    <2>2. q \in Request
      BY <1>2, <2>1 DEF Call, Request, Places
    <2>3. q.pc = "pay_free" /\ q.order = o /\ q.session = s
      BY DEF Call
    <2>4. req' = [req EXCEPT ![c] = q]
      BY <1>2 DEF Goto
    <2> HIDE DEF q
    <2> QED BY <1>1, <1>2, <2>1, <2>2, <2>3, <2>4
  <1>3. ASSUME s \in Sessions, sessions[s] = "open", SessionFree(s),
              NEW w \in OpenOrdersOf(s) \ {o},
              req' = [req EXCEPT ![c] = [Call("pay_settle", o, None, s, None) EXCEPT !.other = w]],
              UNCHANGED <<orders, payments, sessions, members, tables, active>>
        PROVE  IInv'
    <2> DEFINE q == [Call("pay_settle", o, None, s, None) EXCEPT !.other = w]
    <2>1. req[c].pc = "pay_session" /\ w \in Orders
      BY <1>3 DEF PaySession, OpenOrdersOf
    <2>2. q \in Request
      BY <1>0, <1>3, <2>1 DEF Call, Request, Places
    <2>3. q.pc = "pay_settle" /\ q.order = o /\ q.session = s /\ q.other = w
      BY DEF Call
    <2>4. req' = [req EXCEPT ![c] = q]
      BY <1>3
    <2> HIDE DEF q
    <2> QED BY <1>1, <1>3, <2>1, <2>2, <2>3, <2>4
  <1>4. CASE ~(s # None /\ sessions[s] = "open") /\ Settle(o) /\ Done(c)
                 /\ UNCHANGED <<sessions, members, tables, active>>
    <2>1. req[c].pc = "pay_session"
      BY DEF PaySession
    <2>2. \A x \in Sessions : s = x => sessions[x] # "open"
      BY <1>4, NoneAssumption
    <2> QED BY <1>4, <2>1, <2>2, SettleStep
  <1> QED BY <1>0, <1>2, <1>3, <1>4 DEF PaySession

\* Ending a checkout that found another order open keeps it.
LEMMA PaySettleStep == ASSUME NEW c \in Clients, IInv, PaySettle(c) PROVE IInv'
  BY SettleStep DEF PaySettle

\* Writing the tables of a move keeps it.
LEMMA MoveTableStep == ASSUME NEW c \in Clients, IInv, MoveTable(c) PROVE IInv'
  <1>1. CASE Refuse(c)
    BY <1>1, RefuseStep
  <1>2. ASSUME NEW s \in OpenSessionsOf(req[c].table),
              req[c].pc = "move_table",
              TableFree(req[c].table),
              Seatable(req[c].table),
              Goto(c, "move_attach", s),
              UNCHANGED <<orders, payments, sessions, members, tables, active>>
       PROVE  IInv'
    <2>1. TypeOK'
      BY NoneAssumption, <1>2 DEF Goto, Call, IInv, TypeOK, Request, Places, OpenSessionsOf
    <2>2. LocksExclude'
      BY NoneAssumption, <1>2 DEF Goto, Call, IInv, LocksExclude, HoldsOrder, HoldsSession
    <2>3. ASSUME NEW d \in Clients
         PROVE  (/\ OrderHeld(d) /\ SessionHeld(d) /\ CountStands(d) /\ OtherStands(d)
                 /\ MoveHeld(d) /\ Arguments(d))'
      BY NoneAssumption, <1>2 DEF TableFree, Seatable, Goto, Call, IInv, TypeOK, Request,
        Order, OrderHeld, SessionHeld, CountStands, OtherStands, MoveHeld, Arguments, OrderFree,
        OpenOrdersOf, OpenSessionsOf
    <2>4. (ClosedHoldsNothing /\ OneVisitPerTable /\ SettledExactlyOnce /\ ShownSeatedIsHeld)'
      BY NoneAssumption, <1>2 DEF Goto, Call, IInv, TypeOK, ClosedHoldsNothing,
        OneVisitPerTable, SettledExactlyOnce, ShownSeatedIsHeld, OpenSessionsOf
    <2> QED BY <2>1, <2>2, <2>3, <2>4 DEF IInv
  <1>3. ASSUME NEW s \in Fresh,
              req[c].pc = "move_table",
              TableFree(req[c].table),
              OpenSessionsOf(req[c].table) = {},
              OpenTables(s, {req[c].table}),
              Attach(req[c].order, req[c].table, s),
              Done(c),
              UNCHANGED <<payments, active>>
       PROVE  IInv'
    <2>1. TypeOK'
      <3>1. ASSUME NEW x \in Orders PROVE orders'[x] \in Order /\ payments'[x] \in Nat
        BY NoneAssumption, <1>3 DEF OpenTables, Attach, Done, IInv, TypeOK, Request, Order,
          Fresh
      <3>2. (orders \in [Orders -> Order] /\ payments \in [Orders -> Nat])'
        BY NoneAssumption, <1>3, <3>1 DEF Attach, IInv, TypeOK
      <3>3. (/\ sessions \in [Sessions -> SessionStatus] /\ members \in [Sessions -> SUBSET Tables]
              /\ tables \in [Tables -> TableStatus] /\ active \in [Tables -> BOOLEAN])'
        BY NoneAssumption, <1>3 DEF OpenTables, Attach, Done, IInv, TypeOK, SessionStatus,
          TableStatus, Arguments
      <3>4. (req \in [Clients -> Request])'
        BY NoneAssumption, <1>3 DEF OpenSessionsOf, OpenTables, Done, Call, Idle, IInv,
          TypeOK, Request, Places
      <3> QED BY <3>2, <3>3, <3>4 DEF TypeOK
    <2>2. LocksExclude'
      BY NoneAssumption, <1>3 DEF OpenTables, Attach, Done, Call, Idle, IInv, LocksExclude,
        HoldsOrder, HoldsSession
    <2>3. ASSUME NEW d \in Clients
         PROVE  (/\ OrderHeld(d) /\ SessionHeld(d) /\ CountStands(d) /\ OtherStands(d)
                 /\ MoveHeld(d) /\ Arguments(d))'
      <3>1. OrderHeld(d)'
        BY NoneAssumption, <1>3 DEF OpenTables, Attach, Done, Call, Idle, IInv, OrderHeld
      <3>2. SessionHeld(d)'
        BY NoneAssumption, <1>3 DEF OpenTables, Attach, Done, Call, Idle, IInv, SessionHeld
      <3>3. CountStands(d)'
        BY NoneAssumption, <1>3 DEF OpenTables, Attach, Done, Call, Idle, IInv, TypeOK,
          Request, CountStands, SessionHeld, Fresh, OpenOrdersOf, HoldsOrder, LocksExclude
      <3>4. MoveHeld(d)'
        BY NoneAssumption, <1>3 DEF TableFree, OpenSessionsOf, OpenTables, Attach, Done,
          Call, Idle, IInv, TypeOK, MoveHeld, Fresh
      <3>5. Arguments(d)'
        BY NoneAssumption, <1>3 DEF Done, Call, Idle, IInv, Arguments
      <3>6. OtherStands(d)'
        BY NoneAssumption, <1>3 DEF OpenTables, Attach, Done, Call, Idle, IInv, TypeOK,
          Request, OtherStands, SessionHeld, Fresh, HoldsOrder, LocksExclude
      <3> QED BY <3>1, <3>2, <3>3, <3>4, <3>5, <3>6
    <2>4. (ClosedHoldsNothing /\ OneVisitPerTable /\ SettledExactlyOnce /\ ShownSeatedIsHeld)'
      <3>1. ClosedHoldsNothing' /\ OneVisitPerTable'
        BY NoneAssumption, <1>3 DEF OpenSessionsOf, OpenTables, Attach, IInv, TypeOK,
          ClosedHoldsNothing, OneVisitPerTable
      <3>2. SettledExactlyOnce'
        BY NoneAssumption, <1>3 DEF OpenTables, Attach, IInv, SettledExactlyOnce
      <3>3. ShownSeatedIsHeld'
        BY NoneAssumption, <1>3 DEF OpenSessionsOf, OpenTables, Attach, Done, IInv, TypeOK,
          ShownSeatedIsHeld, Fresh
      <3> QED BY <3>1, <3>2, <3>3
    <2> QED BY <2>1, <2>2, <2>3, <2>4 DEF IInv
  <1> QED BY <1>1, <1>2, <1>3 DEF MoveTable

\* Writing the tables of a merge keeps it.
LEMMA MergeTableStep == ASSUME NEW c \in Clients, IInv, MergeTable(c) PROVE IInv'
  <1>1. CASE Refuse(c)
    BY <1>1, RefuseStep
  <1>2. ASSUME req[c].pc = "merge_table",
              TableFree(req[c].table),
              OpenSessionsOf(req[c].table) = {},
              members' = [members EXCEPT ![req[c].session] = @ \cup {req[c].table}],
              tables' = [tables EXCEPT ![req[c].table] = "seated"],
              Done(c),
              UNCHANGED <<orders, payments, sessions, active>>
       PROVE  IInv'
    <2>1. TypeOK'
      BY NoneAssumption, <1>2 DEF OpenSessionsOf, Done, Call, Idle, IInv, TypeOK, Request,
        Places, TableStatus, Arguments
    <2>2. LocksExclude'
      BY NoneAssumption, <1>2 DEF Done, Call, Idle, IInv, LocksExclude, HoldsOrder,
        HoldsSession
    <2>3. ASSUME NEW d \in Clients
         PROVE  (/\ OrderHeld(d) /\ SessionHeld(d) /\ CountStands(d) /\ OtherStands(d)
                 /\ MoveHeld(d) /\ Arguments(d))'
      BY NoneAssumption, <1>2 DEF TableFree, OpenSessionsOf, Done, Call, Idle, IInv,
        TypeOK, Request, Order, OrderHeld, SessionHeld, CountStands, OtherStands, MoveHeld, Arguments,
        OrderFree, OpenOrdersOf
    <2>4. (ClosedHoldsNothing /\ OneVisitPerTable /\ SettledExactlyOnce /\ ShownSeatedIsHeld)'
      BY NoneAssumption, <1>2 DEF OpenSessionsOf, Done, Call, Idle, IInv, TypeOK,
        ClosedHoldsNothing, OneVisitPerTable, SettledExactlyOnce, ShownSeatedIsHeld,
        SessionHeld
    <2> QED BY <2>1, <2>2, <2>3, <2>4 DEF IInv
  <1> QED BY <1>1, <1>2 DEF MergeTable

\* Finding or opening the order's visit keeps it.
LEMMA CreateSessionStep == ASSUME NEW c \in Clients, IInv, CreateSession(c) PROVE IInv'
  <1>1. ASSUME NEW pc \in {"create_insert", "create_open"}, NEW s \in Sessions \cup {None},
              req[c].pc = "create_session",
              pc = "create_open" => req[c].table \in Tables,
              Goto(c, pc, s),
              UNCHANGED <<orders, payments, sessions, members, tables, active>>
       PROVE  IInv'
    <2>1. TypeOK'
      BY NoneAssumption, <1>1 DEF Goto, Call, IInv, TypeOK, Request, Places
    <2>2. LocksExclude'
      BY NoneAssumption, <1>1 DEF Goto, Call, IInv, LocksExclude, HoldsOrder, HoldsSession
    <2>3. ASSUME NEW d \in Clients
         PROVE  (/\ OrderHeld(d) /\ SessionHeld(d) /\ CountStands(d) /\ OtherStands(d)
                 /\ MoveHeld(d) /\ Arguments(d))'
      BY NoneAssumption, <1>1 DEF Goto, Call, IInv, TypeOK, Request, Order, OrderHeld,
        SessionHeld, CountStands, OtherStands, MoveHeld, Arguments, OrderFree, HoldsOrder, SessionFree,
        OpenOrdersOf
    <2>4. (ClosedHoldsNothing /\ OneVisitPerTable /\ SettledExactlyOnce /\ ShownSeatedIsHeld)'
      BY NoneAssumption, <1>1 DEF Goto, Call, IInv, TypeOK, ClosedHoldsNothing,
        OneVisitPerTable, SettledExactlyOnce, ShownSeatedIsHeld, OpenSessionsOf
    <2> QED BY <2>1, <2>2, <2>3, <2>4 DEF IInv
  <1> QED BY <1>1 DEF CreateSession, OpenSessionsOf, IInv, TypeOK, Request

\* A statement that writes nothing keeps the invariant.
LEMMA StutterStep == ASSUME IInv, UNCHANGED vars PROVE IInv'
  <1>1. (TypeOK /\ ClosedHoldsNothing /\ OneVisitPerTable /\ SettledExactlyOnce)'
    BY DEF IInv, vars, TypeOK, ClosedHoldsNothing, OneVisitPerTable, SettledExactlyOnce
  <1>2. (ShownSeatedIsHeld /\ LocksExclude)'
    BY DEF IInv, vars, ShownSeatedIsHeld, OpenSessionsOf, LocksExclude, HoldsOrder,
      HoldsSession
  <1>3. ASSUME NEW d \in Clients
       PROVE  (/\ OrderHeld(d) /\ SessionHeld(d) /\ CountStands(d) /\ OtherStands(d)
               /\ MoveHeld(d) /\ Arguments(d))'
    BY DEF IInv, vars, OrderHeld, SessionHeld, CountStands, OtherStands, OpenOrdersOf, MoveHeld,
      Arguments
  <1> QED BY <1>1, <1>2, <1>3 DEF IInv

\* Every step of every handler preserves the invariant.
LEMMA Inductive == ASSUME IInv, [Next]_vars PROVE IInv'
  <1>1. CASE Request1
    <2>1. ASSUME NEW o \in Orders, VoidOrder(o) PROVE IInv'
      BY <2>1, VoidOrderStep
    <2>2. ASSUME NEW o \in Orders, Detach(o) PROVE IInv'
      BY <2>2, DetachStep
    <2>3. ASSUME NEW T \in (SUBSET Tables) \ {{}}, Seat(T) PROVE IInv'
      BY <2>3, SeatStep
    <2>4. ASSUME NEW t \in Tables, PatchActive(t) PROVE IInv'
      BY <2>4, PatchActiveStep
    <2> QED BY <1>1, <2>1, <2>2, <2>3, <2>4 DEF Request1
  <1>2. ASSUME NEW c \in Clients, Begin(c) PROVE IInv'
    <2>1. ASSUME NEW o \in Orders, NEW t \in Tables \cup {None}, CreateCheck(c, o, t) PROVE IInv'
      BY <2>1, CreateCheckStep
    <2>2. ASSUME NEW o \in Orders, PayLock(c, o) PROVE IInv'
      BY <2>2, PayLockStep
    <2>3. ASSUME NEW o \in Orders, NEW t \in Tables, MoveLock(c, o, t) PROVE IInv'
      BY <2>3, MoveLockStep
    <2>4. ASSUME NEW s \in Sessions, NEW t \in Tables, MergeLock(c, s, t) PROVE IInv'
      BY <2>4, MergeLockStep
    <2>5. ASSUME NEW s \in Sessions, ReleaseLock(c, s) PROVE IInv'
      BY <2>5, ReleaseLockStep
    <2>6. ASSUME NEW t \in Tables, NEW to \in TableStatus, PatchRead(c, t, to) PROVE IInv'
      BY <2>6, PatchReadStep
    <2>7. ASSUME NEW t \in Tables, DeleteRead(c, t) PROVE IInv'
      BY <2>7, DeleteReadStep
    <2> QED BY <1>2, <2>1, <2>2, <2>3, <2>4, <2>5, <2>6, <2>7 DEF Begin
  <1>3. ASSUME NEW c \in Clients, Step(c) PROVE IInv'
    <2>1. CASE CreateSession(c) \/ CreateInsert(c) \/ CreateOpen(c)
      BY <2>1, CreateSessionStep, CreateInsertStep, CreateOpenStep
    <2>2. CASE PaySession(c) \/ PaySettle(c) \/ PayFree(c)
      BY <2>2, PaySessionStep, PaySettleStep, PayFreeStep
    <2>3. CASE MoveTable(c) \/ MoveAttach(c)
      BY <2>3, MoveTableStep, MoveAttachStep
    <2>4. CASE MergeTable(c) \/ ReleaseFree(c)
      BY <2>4, MergeTableStep, ReleaseFreeStep
    <2>5. CASE PatchWrite(c) \/ DeleteWrite(c)
      BY <2>5, PatchWriteStep, DeleteWriteStep
    <2>6. CASE DeadlockVictim(c)
      BY <2>6, RefuseStep DEF DeadlockVictim
    <2> QED BY <1>3, <2>1, <2>2, <2>3, <2>4, <2>5, <2>6 DEF Step
  <1>4. CASE UNCHANGED vars
    BY <1>4, StutterStep
  <1> QED BY <1>1, <1>2, <1>3, <1>4 DEF Next

\* What every handler relies on holds in every reachable state.
THEOREM Invariance == Spec => []IInv
  BY InitInv, Inductive, PTL DEF Spec

\* Every column holds a value of its type.
THEOREM TypeCorrect == Spec => []TypeOK
  <1>1. IInv => TypeOK
    BY DEF IInv
  <1> QED BY <1>1, Invariance, PTL

\* No finished visit holds a table.
THEOREM NothingHeldByTheClosed == Spec => []ClosedHoldsNothing
  <1>1. IInv => ClosedHoldsNothing
    BY DEF IInv
  <1> QED BY <1>1, Invariance, PTL

\* No two visits hold one table.
THEOREM AtMostOneVisit == Spec => []OneVisitPerTable
  <1>1. IInv => OneVisitPerTable
    BY DEF IInv
  <1> QED BY <1>1, Invariance, PTL

\* A completed order was settled once, and no other order was.
THEOREM ExactlyOneSettlement == Spec => []SettledExactlyOnce
  <1>1. IInv => SettledExactlyOnce
    BY DEF IInv
  <1> QED BY <1>1, Invariance, PTL

\* No table is shown seated that no open visit holds.
THEOREM NoStrandedTable == Spec => []ShownSeatedIsHeld
  <1>1. IInv => ShownSeatedIsHeld
    BY DEF IInv
  <1> QED BY <1>1, Invariance, PTL

-----------------------------------------------------------------------------
\* The steps that write a session, as a party's arrival, joining or leaving.
LEMMA SessionWrites ==
    ASSUME IInv, [Next]_vars
    PROVE  \/ UNCHANGED <<sessions, members>>
           \/ \E s \in Fresh, T \in SUBSET Tables :
                /\ OpenTables(s, T)
                /\ T # {} /\ \A t \in T : OpenSessionsOf(t) = {}
           \/ \E c \in Clients :
                /\ req[c].session \in Sessions /\ sessions[req[c].session] = "open"
                /\ req[c].table \in Tables /\ OpenSessionsOf(req[c].table) = {}
                /\ members' = [members EXCEPT ![req[c].session] = @ \cup {req[c].table}]
                /\ UNCHANGED <<orders, sessions>>
           \/ \E c \in Clients : PayFree(c) \/ ReleaseFree(c)
  <1> DEFINE Goal ==
           \/ UNCHANGED <<sessions, members>>
           \/ \E s \in Fresh, T \in SUBSET Tables :
                /\ OpenTables(s, T)
                /\ T # {} /\ \A t \in T : OpenSessionsOf(t) = {}
           \/ \E c \in Clients :
                /\ req[c].session \in Sessions /\ sessions[req[c].session] = "open"
                /\ req[c].table \in Tables /\ OpenSessionsOf(req[c].table) = {}
                /\ members' = [members EXCEPT ![req[c].session] = @ \cup {req[c].table}]
                /\ UNCHANGED <<orders, sessions>>
           \/ \E c \in Clients : PayFree(c) \/ ReleaseFree(c)
  <1>1. CASE Request1
    <2>1. CASE \E o \in Orders : VoidOrder(o) \/ Detach(o)
      BY <2>1 DEF VoidOrder, Detach
    <2>2. ASSUME NEW T \in (SUBSET Tables) \ {{}}, Seat(T) PROVE Goal
      <3>1. PICK s \in Fresh : OpenTables(s, T)
        BY <2>2 DEF Seat
      <3>2. T \in SUBSET Tables /\ T # {} /\ \A t \in T : OpenSessionsOf(t) = {}
        BY <2>2 DEF Seat
      <3> QED BY <3>1, <3>2
    <2>3. CASE \E t \in Tables : PatchActive(t)
      BY <2>3 DEF PatchActive
    <2> QED BY <1>1, <2>1, <2>2, <2>3 DEF Request1
  <1>2. ASSUME NEW c \in Clients, Begin(c) PROVE Goal
    BY <1>2 DEF Begin, CreateCheck, PayLock, MoveLock, MergeLock, ReleaseLock, PatchRead,
      DeleteRead
  <1>3. ASSUME NEW c \in Clients, Step(c) PROVE Goal
    <2>1. CASE CreateOpen(c)
      <3>1. CASE Refuse(c)
        BY <3>1 DEF Refuse
      <3>2. req[c].table \in Tables
        BY <2>1 DEF CreateOpen, IInv, Arguments
      <3> QED BY <2>1, <3>1, <3>2 DEF CreateOpen
    <2>2. CASE MoveTable(c)
      <3>1. CASE Refuse(c)
        BY <3>1 DEF Refuse
      <3>2. req[c].table \in Tables
        BY <2>2 DEF MoveTable, IInv, Arguments
      <3> QED BY <2>2, <3>1, <3>2 DEF MoveTable
    <2>3. CASE MergeTable(c)
      <3>1. CASE Refuse(c)
        BY <3>1 DEF Refuse
      <3>2. /\ req[c].table \in Tables
            /\ req[c].session \in Sessions /\ sessions[req[c].session] = "open"
        BY <2>3 DEF MergeTable, IInv, Arguments, SessionHeld
      <3> QED BY <2>3, <3>1, <3>2 DEF MergeTable
    <2>4. CASE PaySession(c) \/ PaySettle(c)
      BY <2>4 DEF PaySession, PaySettle
    <2>5. CASE CreateSession(c) \/ CreateInsert(c) \/ MoveAttach(c) \/ PatchWrite(c)
                 \/ DeleteWrite(c) \/ DeadlockVictim(c)
      BY <2>5 DEF CreateSession, CreateInsert, MoveAttach, PatchWrite, DeleteWrite,
        DeadlockVictim, Refuse
    <2> QED BY <1>3, <2>1, <2>2, <2>3, <2>4, <2>5 DEF Step
  <1>4. CASE UNCHANGED vars
    BY <1>4 DEF vars
  <1> QED BY <1>1, <1>2, <1>3, <1>4 DEF Next

\* Sessions and memberships implement Visits under every interleaving.
THEOREM Refinement == Spec => ImplementsVisits
  <1>1. Init => V!Init
    BY DEF Init, V!Init
  <1>2. ASSUME IInv, [Next]_vars PROVE [V!Next]_(V!vars)
    <2>1. CASE UNCHANGED <<sessions, members>>
      BY <2>1 DEF V!vars
    <2>2. ASSUME NEW s \in Fresh, NEW T \in SUBSET Tables, OpenTables(s, T),
                 T # {}, \A t \in T : OpenSessionsOf(t) = {}
          PROVE  V!Arrive(s, T)
      BY <1>2, <2>2 DEF V!Arrive, V!Taken, OpenTables, Fresh, OpenSessionsOf, IInv,
        ClosedHoldsNothing
    <2>3. ASSUME NEW c \in Clients,
                 req[c].session \in Sessions, sessions[req[c].session] = "open",
                 req[c].table \in Tables, OpenSessionsOf(req[c].table) = {},
                 members' = [members EXCEPT ![req[c].session] = @ \cup {req[c].table}],
                 UNCHANGED <<orders, sessions>>
          PROVE  V!Join(req[c].session, req[c].table)
      BY <1>2, <2>3 DEF V!Join, V!Taken, OpenSessionsOf, IInv, ClosedHoldsNothing
    <2>4. ASSUME NEW c \in Clients, PayFree(c) \/ ReleaseFree(c)
          PROVE  req[c].session \in Sessions /\ V!Leave(req[c].session)
      BY <1>2, <2>4 DEF V!Leave, PayFree, ReleaseFree, ReleaseTables, IInv, SessionHeld
    <2>5. CASE \E c \in Clients : PayFree(c) \/ ReleaseFree(c)
      BY <2>5, <2>4 DEF V!Next
    <2> QED BY <1>2, SessionWrites, <2>1, <2>2, <2>3, <2>5 DEF V!Next, Fresh
  <1> QED BY <1>1, <1>2, Invariance, PTL DEF Spec, ImplementsVisits, V!Spec

\* A visit closes only when its last order has been paid or voided: no
\* checkout evicts a party that still has something to pay.
THEOREM NoEviction == Spec => NobodyIsEvicted
  <1>1. ASSUME IInv, [Next]_vars, NEW s \in Sessions, sessions[s] = "open", sessions'[s] = "closed"
        PROVE  OpenOrdersOf(s)' = {}
    <2>1. PICK c \in Clients : (PayFree(c) \/ ReleaseFree(c)) /\ req[c].session = s
      <3>1. CASE \E c \in Clients : PayFree(c) \/ ReleaseFree(c)
        BY <1>1, <3>1 DEF PayFree, ReleaseFree, ReleaseTables, IInv, TypeOK
      <3> QED BY <1>1, <3>1, SessionWrites DEF OpenTables, IInv, TypeOK
    <2>2. CASE PayFree(c)
      BY <1>1, <2>1, <2>2 DEF PayFree, Settle, OpenOrdersOf, IInv, TypeOK, CountStands
    <2>3. CASE ReleaseFree(c)
      BY <1>1, <2>1, <2>3 DEF ReleaseFree, OpenOrdersOf, IInv, CountStands
    <2> QED BY <2>1, <2>2, <2>3
  <1>2. IInv /\ [Next]_vars =>
          [\A s \in Sessions :
             sessions[s] = "open" /\ sessions'[s] = "closed" => OpenOrdersOf(s)' = {}]_vars
    BY <1>1
  <1> QED BY <1>2, Invariance, PTL DEF Spec, NobodyIsEvicted

-----------------------------------------------------------------------------
\* The steps that write an order, and what the handler knew when it did.
LEMMA OrderWrites ==
    ASSUME IInv, [Next]_vars
    PROVE  \/ UNCHANGED <<orders, payments>>
           \/ \E o \in Orders, t \in Tables \cup {None}, s \in Sessions \cup {None} :
                orders[o].status = "none" /\ InsertOrder(o, t, s) /\ UNCHANGED payments
           \/ \E o \in Orders : VoidOrder(o) \/ Detach(o)
           \/ \E o \in Orders, t \in Tables, s \in Sessions :
                /\ orders[o].status = "open"
                /\ Attach(o, t, s) /\ sessions'[s] = "open"
                /\ UNCHANGED payments
           \/ \E c \in Clients :
                /\ req[c].order \in Orders /\ orders[req[c].order].status = "open"
                /\ PaySession(c) \/ PaySettle(c) \/ PayFree(c)
  <1> DEFINE Goal ==
           \/ UNCHANGED <<orders, payments>>
           \/ \E o \in Orders, t \in Tables \cup {None}, s \in Sessions \cup {None} :
                orders[o].status = "none" /\ InsertOrder(o, t, s) /\ UNCHANGED payments
           \/ \E o \in Orders : VoidOrder(o) \/ Detach(o)
           \/ \E o \in Orders, t \in Tables, s \in Sessions :
                /\ orders[o].status = "open"
                /\ Attach(o, t, s) /\ sessions'[s] = "open"
                /\ UNCHANGED payments
           \/ \E c \in Clients :
                /\ req[c].order \in Orders /\ orders[req[c].order].status = "open"
                /\ PaySession(c) \/ PaySettle(c) \/ PayFree(c)
  <1>1. CASE Request1
    BY <1>1 DEF Request1, Seat, PatchActive
  <1>2. ASSUME NEW c \in Clients, Begin(c) PROVE Goal
    BY <1>2 DEF Begin, CreateCheck, PayLock, MoveLock, MergeLock, ReleaseLock, PatchRead,
      DeleteRead
  <1>3. ASSUME NEW c \in Clients, Step(c) PROVE Goal
    <2>1. CASE CreateInsert(c)
      <3>1. CASE Refuse(c)
        BY <3>1 DEF Refuse
      <3>2. /\ req[c].order \in Orders /\ req[c].table \in Tables \cup {None}
            /\ req[c].session \in Sessions \cup {None}
        BY <2>1 DEF CreateInsert, IInv, Arguments, TypeOK, Request
      <3> QED BY <2>1, <3>1, <3>2 DEF CreateInsert
    <2>2. CASE CreateOpen(c)
      <3>1. CASE Refuse(c)
        BY <3>1 DEF Refuse
      <3>2. req[c].order \in Orders /\ req[c].table \in Tables
        BY <2>2 DEF CreateOpen, IInv, Arguments
      <3> QED BY <2>2, <3>1, <3>2 DEF CreateOpen, Fresh
    <2>3. CASE PaySession(c) \/ PaySettle(c) \/ PayFree(c)
      BY <2>3 DEF PaySession, PaySettle, PayFree, IInv, OrderHeld
    <2>4. CASE MoveTable(c)
      <3>1. CASE Refuse(c)
        BY <3>1 DEF Refuse
      <3>2. req[c].order \in Orders /\ orders[req[c].order].status = "open" /\ req[c].table \in Tables
        BY <2>4 DEF MoveTable, IInv, Arguments, OrderHeld
      <3>3. ASSUME NEW s \in Fresh, OpenTables(s, {req[c].table}) PROVE s \in Sessions /\ sessions'[s] = "open"
        BY <3>3 DEF OpenTables, Fresh, IInv, TypeOK
      <3> QED BY <2>4, <3>1, <3>2, <3>3 DEF MoveTable
    <2>5. CASE MoveAttach(c)
      <3>1. /\ req[c].order \in Orders /\ orders[req[c].order].status = "open"
            /\ req[c].table \in Tables
            /\ req[c].session \in Sessions /\ sessions[req[c].session] = "open"
        BY <2>5 DEF MoveAttach, IInv, Arguments, OrderHeld, MoveHeld
      <3> QED BY <2>5, <3>1 DEF MoveAttach
    <2>6. CASE CreateSession(c) \/ MergeTable(c) \/ ReleaseFree(c) \/ PatchWrite(c)
                 \/ DeleteWrite(c) \/ DeadlockVictim(c)
      BY <2>6 DEF CreateSession, MergeTable, ReleaseFree, PatchWrite, DeleteWrite,
        DeadlockVictim, Refuse
    <2> QED BY <1>3, <2>1, <2>2, <2>3, <2>4, <2>5, <2>6 DEF Step
  <1>4. CASE UNCHANGED vars
    BY <1>4 DEF vars
  <1> QED BY <1>1, <1>2, <1>3, <1>4 DEF Next

\* A checkout that leaves a visit without an open order closes it, or counted an
\* order that has been voided or moved since: no number of cashiers settling at
\* once leaves the closing to one another.
THEOREM LastOutCloses == Spec => LastCheckoutReleases
  <1> DEFINE Left(o) == \E c \in Clients :
               LET w == req[c].other IN
               /\ req[c].order = o /\ w \in Orders
               /\ orders[w].status = "voided" \/ orders[w].session # orders[o].session
  <1>1. ASSUME IInv, [Next]_vars, NEW o \in Orders,
               orders[o].status = "open", orders'[o].status = "completed",
               orders[o].session # None, sessions[orders[o].session] = "open",
               OpenOrdersOf(orders[o].session)' = {}
        PROVE  sessions'[orders[o].session] = "closed" \/ Left(o)
    <2>1. orders[o].session \in Sessions
      BY <1>1 DEF IInv, TypeOK, Order
    <2>2. PICK c \in Clients : /\ PaySession(c) \/ PaySettle(c) \/ PayFree(c)
                               /\ req[c].order = o
      <3>1. ASSUME NEW x \in Orders, VoidOrder(x) \/ Detach(x) PROVE orders'[o].status # "completed"
        BY <1>1, <3>1 DEF VoidOrder, Detach, Attach, IInv, TypeOK, Order
      <3>2. ASSUME NEW x \in Orders, NEW t, NEW s, InsertOrder(x, t, s) \/ Attach(x, t, s)
            PROVE  orders'[o].status # "completed"
        BY <1>1, <3>2 DEF InsertOrder, Attach, IInv, TypeOK
      <3>3. ASSUME NEW c \in Clients, PaySession(c) \/ PaySettle(c) \/ PayFree(c)
            PROVE  req[c].order = o
        BY <1>1, <3>3 DEF PaySession, PaySettle, PayFree, Settle, IInv, TypeOK
      <3> QED BY <1>1, <3>1, <3>2, <3>3, OrderWrites
    <2>3. CASE PayFree(c)
      BY <1>1, <2>1, <2>2, <2>3 DEF PayFree, ReleaseTables, IInv, TypeOK, CountStands
    <2>4. CASE PaySession(c)
      BY <1>1, <2>1, <2>2, <2>4 DEF PaySession, Settle, IInv, TypeOK, Order
    <2>5. CASE PaySettle(c)
      <3> DEFINE w == req[c].other
      <3>1. /\ req[c].session = orders[o].session
            /\ w \in Orders /\ w # o
            /\ orders[w].session # orders[o].session \/ orders[w].status \in {"open", "voided"}
        BY <1>1, <2>2, <2>5 DEF PaySettle, IInv, OtherStands
      <3>2. orders'[w] = orders[w]
        BY <1>1, <2>2, <2>5, <3>1 DEF PaySettle, Settle, IInv, TypeOK
      <3>3. ~(orders[w].session = orders[o].session /\ orders[w].status = "open")
        BY <1>1, <2>2, <2>5, <3>1, <3>2 DEF OpenOrdersOf, PaySettle, Settle, IInv, TypeOK
      <3> QED BY <2>2, <3>1, <3>3
    <2> QED BY <2>2, <2>3, <2>4, <2>5
  <1>2. IInv /\ [Next]_vars =>
          [\A o \in Orders :
             LET s == orders[o].session IN
             /\ orders[o].status = "open" /\ orders'[o].status = "completed"
             /\ s # None
             /\ sessions[s] = "open"
             /\ OpenOrdersOf(s)' = {}
             => \/ sessions'[s] = "closed"
                \/ \E c \in Clients :
                     LET w == req[c].other IN
                     /\ req[c].order = o /\ w \in Orders
                     /\ orders[w].status = "voided" \/ orders[w].session # s]_vars
    BY <1>1
  <1> QED BY <1>2, Invariance, PTL DEF Spec, LastCheckoutReleases

\* No statement of a losing request writes a completed or voided order.
THEOREM FinalMeansFinal == Spec => FinalOrdersStayFinal
  <1>1. ASSUME IInv, [Next]_vars, NEW o \in Orders, orders[o].status \in {"completed", "voided"}
        PROVE  orders'[o] = orders[o] /\ payments'[o] = payments[o]
    <2>1. ASSUME NEW x \in Orders, VoidOrder(x) \/ Detach(x)
          PROVE  orders'[o] = orders[o] /\ payments'[o] = payments[o]
      BY <1>1, <2>1 DEF VoidOrder, Detach, Attach, IInv, TypeOK
    <2>2. ASSUME NEW c \in Clients, req[c].order \in Orders, orders[req[c].order].status = "open",
                 PaySession(c) \/ PaySettle(c) \/ PayFree(c)
          PROVE  orders'[o] = orders[o] /\ payments'[o] = payments[o]
      BY <1>1, <2>2 DEF PaySession, PaySettle, PayFree, Settle, IInv, TypeOK
    <2>3. ASSUME NEW x \in Orders, NEW t, NEW s, orders[x].status \in {"none", "open"},
                 InsertOrder(x, t, s) \/ Attach(x, t, s)
          PROVE  orders'[o] = orders[o]
      BY <1>1, <2>3 DEF InsertOrder, Attach, IInv, TypeOK
    <2> QED BY <1>1, OrderWrites, <2>1, <2>2, <2>3
  <1>2. IInv /\ [Next]_vars =>
          [\A o \in Orders :
             orders[o].status \in {"completed", "voided"} =>
                orders'[o] = orders[o] /\ payments'[o] = payments[o]]_vars
    BY <1>1
  <1> QED BY <1>2, Invariance, PTL DEF Spec, FinalOrdersStayFinal

\* A moved order joins a visit that is still open when the move commits.
THEOREM MovesJoinOpenVisits == Spec => MoveJoinsOpenVisit
  <1>1. ASSUME IInv, [Next]_vars, NEW o \in Orders, orders[o].status = "open",
               orders'[o].session # orders[o].session, orders'[o].session # None
        PROVE  sessions'[orders'[o].session] = "open"
    <2>1. ASSUME NEW x \in Orders, VoidOrder(x) \/ Detach(x)
          PROVE  orders'[o].session \in {None, orders[o].session}
      BY <1>1, <2>1 DEF VoidOrder, Detach, Attach, IInv, TypeOK, Order
    <2>2. ASSUME NEW c \in Clients, PaySession(c) \/ PaySettle(c) \/ PayFree(c)
          PROVE  orders'[o].session = orders[o].session
      BY <1>1, <2>2 DEF PaySession, PaySettle, PayFree, Settle, IInv, TypeOK, Order
    <2>3. ASSUME NEW x \in Orders, NEW t, NEW s, orders[x].status = "none", InsertOrder(x, t, s)
          PROVE  orders'[o].session = orders[o].session
      BY <1>1, <2>3 DEF InsertOrder
    <2>4. ASSUME NEW x \in Orders, NEW t, NEW s, Attach(x, t, s)
          PROVE  orders'[o].session \in {s, orders[o].session}
      BY <1>1, <2>4 DEF Attach
    <2> QED BY <1>1, OrderWrites, <2>1, <2>2, <2>3, <2>4
  <1>2. IInv /\ [Next]_vars =>
          [\A o \in Orders :
             LET s == orders'[o].session IN
             /\ orders[o].status = "open"
             /\ s # orders[o].session
             /\ s # None
             => sessions'[s] = "open"]_vars
    BY <1>1
  <1> QED BY <1>2, Invariance, PTL DEF Spec, MoveJoinsOpenVisit

=============================================================================
