CONSTANTS
    u1 = u1
    u2 = u2
    i1 = i1
    i2 = i2
    Procs = {p1, p2}
    Users = {u1, u2}
    Addresses = {"e1", "e2", "n1", "m1"}
    Contacts <- MCContacts
    Passwords = {w1, w2, w3}
    Images = {i1, i2}
    Uploader <- MCUploader
    None = none

SPECIFICATION AccountsSpec
INVARIANTS
    AccountsTypeOK
    ImageKept
SYMMETRY MCSymmetry
PROPERTIES
    PasswordHandedOn
