SPECIFICATION Spec
CONSTANTS
    h1 = h1
    h2 = h2
    h3 = h3
    p1 = p1
    p2 = p2
    Procs = {p1, p2}
    Handles = {h1, h2, h3}
    Process <- TwoInOne
INVARIANT TypeOK
INVARIANT LocksBacked
INVARIANT ChecksAgree
PROPERTY ImplementsFileLock
PROPERTY PendingIsServed
