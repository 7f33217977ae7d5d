SPECIFICATION FairSpec
CONSTANTS
    a = a
    b = b
    Orders = {a, b}
    Home <- MCHome
    Changes <- MCChanges
    Foreign = {a}
    Lag <- SiteLags
    Pauses = {1}
    MaxNumber <- MCNumbers
    BatchSize = 2
    MaxFaults = 1
INVARIANTS TypeOK NothingBehindCursor ApartInOneMsOnly
PROPERTIES ImplementsDelivery SettledIsFinal Delivered
CHECK_DEADLOCK FALSE
