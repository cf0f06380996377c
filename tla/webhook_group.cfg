SPECIFICATION Spec
CONSTANTS
    a = a
    b = b
    c = c
    None = None
    Entries <- TwoEntries
    Ids <- ThreeIds
    MaxRestarts = 1
    MaxSetups = 2
CHECK_DEADLOCK FALSE
SYMMETRY IdSymmetry
INVARIANTS
    OneWebhook
    UrlFitsId
    UnconfirmedIsTold
    TrafficSettlesIssue
    StopUnregisters
