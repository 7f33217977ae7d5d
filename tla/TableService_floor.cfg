\* Two handlers race over two tables, two visits and two orders.
CONSTANTS
    t1 = t1
    t2 = t2
    s1 = s1
    s2 = s2
    o1 = o1
    o2 = o2
    c1 = c1
    c2 = c2
    None = None
    Tables <- MCTables2
    Sessions <- MCSessions2
    Orders <- MCOrders2
    Clients <- MCClients2
    Ops <- FloorOps
SPECIFICATION Spec
INVARIANTS TypeOK ClosedHoldsNothing OneVisitPerTable SettledExactlyOnce ShownSeatedIsHeld
PROPERTIES NobodyIsEvicted LastCheckoutReleases FinalOrdersStayFinal MoveJoinsOpenVisit ImplementsVisits
SYMMETRY Symmetry
CHECK_DEADLOCK FALSE
