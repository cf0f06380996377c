SPECIFICATION FairSpec
CONSTANTS
    a = a
    b = b
    Entries <- TwoEntries
    Options <- TwoOptions
    MaxChanges = 2
    MaxAsks = 1
    MaxFaults = 1
CHECK_DEADLOCK FALSE
INVARIANTS
    OptionsTakeEffect
    ShownIsKept
PROPERTY SetUpsSettle
