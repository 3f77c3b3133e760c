CONSTANTS
    Procs = {p1, p2}
    Depth = 3
    a = a
    A = A
    b = b
    Names <- MCNames
    Folded <- MCFolded
    Null = null
    MaxNodes = 3
    MaxRefs = 1

SPECIFICATION Spec
SYMMETRY Symmetry
INVARIANTS
    TypeOK
    Levelled
    ReferencesResolve
    NodesDistinct
CHECK_DEADLOCK FALSE
