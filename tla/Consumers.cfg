CONSTANTS
    null = null
    prant = prant
    vibhag = vibhag
    jila = jila
    khand = khand
    m1 = m1
    m2 = m2
    g1 = g1
    g2 = g2
    Null <- null
    Nodes <- MCNodes
    Parent <- MCParent
    Rank <- MCRank
    Places <- MCPlaces
    Patches <- MCPatches
    Procs = {p1, p2}
    Numbers = {n1, n2}
    MaxConsumers = 2

SPECIFICATION ConsumersSpec
SYMMETRY Symmetry
INVARIANTS
    ConsumersTypeOK
    PlacesHold
    NumbersDistinct
CHECK_DEADLOCK FALSE
