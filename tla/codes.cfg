SPECIFICATION Spec
CONSTANTS
    l1 = l1
    l2 = l2
    p1 = p1
    p2 = p2
    k1 = k1
    call = call
    panel = panel
    None = None
    Locks <- TwoLocks
    Pins <- TwoPins
    Keys <- OneKey
    Calls <- OneCall
    Panels <- OnePanel
    Selections <- SomeSelections
    Clouds <- SomeClouds
    MaxRequests = 2
    MaxTroubles = 1
CHECK_DEADLOCK FALSE
INVARIANTS
    SerialChangeIsShown
    GatewayIsAtWork
PROPERTIES
    SerialCleanupIsExact
