CONSTANTS
    r1 = r1
    r2 = r2
    r3 = r3
    a1 = a1
    a2 = a2
    Procs = {p1, p2}
    Roles = {r1, r2, r3}
    Names = {"ADMIN", "EDITOR", "WRITER"}
    Keys = {"view", "edit"}
    Bodies <- MCBodies
    Admins = {a1, a2}
    Seeds <- MCSeeds
    Staff <- MCStaff
    Null = null

SPECIFICATION Spec
INVARIANTS
    TypeOK
    KeysAsAsked
SYMMETRY MCSymmetry
PROPERTIES
    ActiveRoleGiven
