\* Requests that lock the same rows in opposite orders are all answered.
CONSTANTS
    t1 = t1
    t2 = t2
    s1 = s1
    s2 = s2
    o1 = o1
    o2 = o2
    c1 = c1
    c2 = c2
    None = None
    Tables <- MCTables1
    Sessions <- MCSessions2
    Orders <- MCOrders2
    Clients <- MCClients2
    Ops <- LockOps
SPECIFICATION FairSpec
PROPERTIES EveryRequestIsAnswered
CHECK_DEADLOCK FALSE
