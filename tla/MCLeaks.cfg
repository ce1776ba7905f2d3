SPECIFICATION Spec
CONSTANTS
    w1 = w1
    w2 = w2
    u1 = u1
    k1 = k1
    Workers = {w1, w2}
    Uuids = {u1}
    Keys = {k1}
    ValidKeys = {k1}
    Faults = {"read", "ddl", "resend", "soft_delete"}
    ClientSerializes = FALSE
    MaxCreates = 3
SYMMETRY Symmetry
INVARIANT NothingLeaks
