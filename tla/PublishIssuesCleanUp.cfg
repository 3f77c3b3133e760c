CONSTANTS
    Procs = {p1, p2}
    a = a
    A = A
    Numbers <- MCNumbers
    Folded <- MCFolded
    Null = null
    Faults = {}
    MaxIssues = 1
    MaxUploads = 3

SPECIFICATION Spec
INVARIANT
    CleanUpOnlyOrphans
CHECK_DEADLOCK FALSE
