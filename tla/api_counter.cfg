SPECIFICATION CounterSpec
CONSTANTS
    e1 = e1
    e2 = e2
    k1 = k1
    k2 = k2
    k3 = k3
    None = None
    Entries <- TwoEntries
    Counters <- ThreeCounters
    Retention = 1
    MonthLength = 2
    MaxDay = 3
    MaxCalls = 5
    MaxRestarts = 1
CHECK_DEADLOCK FALSE
SYMMETRY SlotSymmetry
INVARIANTS
    CounterTypeOK
    SerialTallyIsComplete
    SerialFileCatchesUp
    DaysAreBounded
