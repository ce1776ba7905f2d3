SPECIFICATION Spec
CONSTANTS
    w1 = w1
    w2 = w2
    u1 = u1
    u2 = u2
    k1 = k1
    k2 = k2
    bad = bad
    Workers = {w1, w2}
    Uuids = {u1, u2}
    Keys = {k1, k2, bad}
    ValidKeys = {k1, k2}
    Faults = {"ddl", "crash", "rekey"}
    ClientSerializes = TRUE
    MaxCreates = 2
SYMMETRY Symmetry
INVARIANT RegistryInv
INVARIANT OneLiveRow
PROPERTY ImplementsRegistry
INVARIANT PasswordsAreSecrets
