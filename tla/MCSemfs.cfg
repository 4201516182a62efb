SPECIFICATION FairSpec
CONSTANTS
    Procs = {a, b, c}
    Names = {x}
    NULL = NULL
    MaxSems = 1
    UintRange = 4
    Units = {1}
    Preemption = FALSE
PROPERTY BlocksUntilRaised
CHECK_DEADLOCK FALSE
