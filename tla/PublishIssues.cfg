CONSTANTS
    Procs = {p1, p2}
    a = a
    A = A
    Numbers <- MCNumbers
    Folded <- MCFolded
    Null = null
    Faults = {"db", "unlink", "crash"}
    MaxIssues = 2
    MaxUploads = 2

SPECIFICATION Spec
SYMMETRY Symmetry
INVARIANTS
    TypeOK
    DispatchedIssueExists
    ReferencedFileExists
PROPERTIES
    PublishingIsOneWay
    PublishedIsFrozen
CHECK_DEADLOCK FALSE
