SPECIFICATION Spec
CONSTANTS
    x = x
    Ids = {x}
    Id = x
    MaxSegments = 5
    Requests <- MCRequests
    Panicking <- AllHandlers
INVARIANT TypeOK
INVARIANT HandlersAuthenticated
INVARIANT HandlersRunOnce
INVARIANT RoutesAreDisjoint
INVARIANT RoutedAsPublished
PROPERTY EveryRequestAnswered
CHECK_DEADLOCK FALSE
