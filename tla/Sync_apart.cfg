SPECIFICATION Spec
CONSTANTS
    a = a
    b = b
    Orders = {b}
    Home <- HomeCentral
    Changes <- Edits
    Foreign = {}
    Lag <- SiteLags
    Pauses = {1}
    MaxNumber <- MCNumbers
    BatchSize = 2
    MaxFaults = 0
INVARIANTS OpenCopiesAgree
CHECK_DEADLOCK FALSE
