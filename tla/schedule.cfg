SPECIFICATION Spec
CONSTANTS
    l1 = l1
    Never = Never
    Locks <- OneLock
    WithGateway <- OneLock
    WithSensor <- OneLock
    Settings <- SomeSettings
    Day = 4
    Horizon = 11
    MaxPushes = 1
    MaxExtras = 1
    MaxBlanks = 2
CHECK_DEADLOCK FALSE
INVARIANTS
    CallsWithinEstimate
    SlowTierIsFresh
