\* One restore and one fault: production may be left closed under a line that says it is untouched.
CONSTANTS
    MaxRestores = 1
    MaxWrites = 0
    MaxFaults = 1

SPECIFICATION Spec

INVARIANTS
    UntouchedIfFailedBeforeSwap

\* A restore that died in the swap leaves nothing that could go on.
CHECK_DEADLOCK FALSE
