SPECIFICATION Spec
CONSTANTS
    w1 = w1
    w2 = w2
    u1 = u1
    u2 = u2
    k1 = k1
    Workers = {w1, w2}
    Uuids = {u1, u2}
    Keys = {k1}
    ValidKeys = {k1}
    Faults = {"read", "save", "resend", "drop", "soft_delete", "session", "crash"}
    ClientSerializes = FALSE
    MaxCreates = 2
SYMMETRY Symmetry
INVARIANT TypeOK
INVARIANT GrantsApart
INVARIANT BoundCredentialsWork
PROPERTY DroppedByItsOwnDelete
