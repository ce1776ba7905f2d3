SPECIFICATION Spec
CONSTANTS
    c1 = c1
    c2 = c2
    c3 = c3
    x = x
    y = y
    None = None
    Clients = {c1, c2, c3}
    Pages = {x, y}
    Marks = 2
    Readers = {c2}
    Checkpointers = {c2}
    MaxTx = 2
    MaxFrames = 3
    MaxCheckpoints = 1
    MaxCrashes = 1
    DiesInReset = FALSE
    StaleCheckpoints = FALSE
SYMMETRY Symmetry
INVARIANT TypeOK
INVARIANT SnapshotsHold
INVARIANT NewestIsFound
CHECK_DEADLOCK FALSE
