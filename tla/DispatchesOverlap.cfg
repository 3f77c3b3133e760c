CONSTANTS
    null = null
    prant = prant
    vibhag = vibhag
    jila = jila
    khand = khand
    mandal = mandal
    gram = gram
    i1 = i1
    Null <- null
    Nodes <- MCNodes
    Parent <- MCParent
    Rank <- MCRank
    Points <- MCPoints
    Issues = {i1}
    TotalCopies <- MCCopies
    Procs = {p1, p2}
    Quantities = {1, 2}
    Details = {d1}
    MaxDispatches = 2

SPECIFICATION Spec
SYMMETRY Symmetry
INVARIANTS
    TypeOK
    StatusesAreTrue
    CopiesHaveOrigin
PROPERTIES
    ReceiptKept
CHECK_DEADLOCK FALSE
