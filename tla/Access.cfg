CONSTANTS
    Procs = {p1, p2}
    Workers = {w1, w2}
    Subjects <- MCSubjects
    Contents = {"none", "some"}
    Lifetime <- MCLifetime
    Null = null

SPECIFICATION LiveSpec
INVARIANTS
    TypeOK
    Settled
    ShutOutAtOnce
PROPERTIES
    BlockedLosesAccess
