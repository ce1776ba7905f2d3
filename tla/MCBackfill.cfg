SPECIFICATION Spec
CONSTANTS
    c1 = c1
    c2 = c2
    c3 = c3
    x = x
    y = y
    None = None
    Clients = {c1, c2, c3}
    Pages = {x, y}
    Marks = 1
    Readers = {c3}
    Checkpointers = {c2}
    MaxTx = 2
    MaxFrames = 3
    MaxCheckpoints = 2
    MaxCrashes = 0
    DiesInReset = FALSE
    StaleCheckpoints = TRUE
SYMMETRY Symmetry
INVARIANT BackfillWithinLog
CHECK_DEADLOCK FALSE
