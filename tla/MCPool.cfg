SPECIFICATION Spec
CONSTANTS
    w1 = w1
    w2 = w2
    w3 = w3
    c1 = c1
    c2 = c2
    None = None
    Workers = {w1, w2, w3}
    Conns = {c1, c2}
    MaxTries = 2
    MaxOps = 3
    MaxCuts = 1
INVARIANT TypeOK
INVARIANT ConnectionsAccounted
INVARIANT PoolClean
PROPERTY StatementsReturn
CHECK_DEADLOCK FALSE
