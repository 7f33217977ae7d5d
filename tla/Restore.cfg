\* Two restores, four faults of any kind, one write into each database.
CONSTANTS
    MaxRestores = 2
    MaxWrites = 1
    MaxFaults = 4

SPECIFICATION Spec

INVARIANTS
    TypeOK
    DataSurvives
    JournalTells

\* A restore that died in the swap leaves nothing that could go on.
CHECK_DEADLOCK FALSE
