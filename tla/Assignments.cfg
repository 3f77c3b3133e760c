CONSTANTS
    Procs = {p1, p2}
    gram = gram
    Nodes = {gram}
    Levels = {"Mandal", "Gram"}
    Level <- MCLevel
    Null = null
    Changing <- MCChanging
    MaxPeople = 2
    MaxDesignations = 1
    MaxAssignments = 3
    MaxRows = 2

SPECIFICATION Spec
SYMMETRY Symmetry
INVARIANTS
    TypeOK
    DesignationsFit
    HandedOverOnce
    NoDuplicateActive
PROPERTIES
    HistoryKept
    AssignedWhileActive
CHECK_DEADLOCK FALSE
