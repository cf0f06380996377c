SPECIFICATION FairSpec
CONSTANTS
    p1 = p1
    c1 = c1
    r1 = r1
    Polls <- OnePoll
    Commands <- OneCommand
    Refreshes <- OneRefresh
    Tracked <- CodesOnly
    HasSensor = FALSE
    Bluetooth = FALSE
    WebhookOnly = FALSE
    WebhookConfirmed = TRUE
    MaxTurns = 1
    MaxFaults = 1
    MaxEdits = 1
CHECK_DEADLOCK FALSE
INVARIANTS
    OneGatewayCall
    SerialPendingMirrorsCommand
PROPERTIES
    ViewConverges
    CommandsEnd
    ConfigConverges
