SPECIFICATION LiveSpec
CONSTANTS
    p1 = p1
    p2 = p2
    t1 = t1
    c1 = c1
    c2 = c2
    Null = Null
    Procs <- MCProcs
    Targets <- MCTargets
    Codes <- MCCodes
    Faults <- MCFaults
    MaxAttempt = 2
    MaxRetries = 2
    Timeout = 0
    BlockTimeout = 1
INVARIANTS
    TypeOK
    LimitsHold
    CountsAreTrue
PROPERTIES
    BlockLasts
    BlockEnds
CHECK_DEADLOCK TRUE
