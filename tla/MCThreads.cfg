SPECIFICATION Spec
CONSTANTS
    p1 = p1
    p2 = p2
    None = None
    Handles = {p1, p2}
    LastPage = 2
    FirstSize = 1
    MaxTx = 2
    MaxCrashes = 2
    MaxPower = 1
    ChecksRace = FALSE
    Process <- OneProcess
INVARIANT HotIsPlayedBack
INVARIANT CachesAreTold
PROPERTY TransactionsAreAtomic
