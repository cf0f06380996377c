SPECIFICATION FairSpec
CONSTANTS
    p1 = p1
    c1 = c1
    r1 = r1
    Polls <- OnePoll
    Commands <- NoTask
    Refreshes <- NoTask
    Tracked <- AllButCodes
    HasSensor = TRUE
    Bluetooth = TRUE
    WebhookOnly = FALSE
    WebhookConfirmed = TRUE
    MaxTurns = 3
    MaxFaults = 0
    MaxEdits = 0
CHECK_DEADLOCK FALSE
INVARIANTS
    SerialStampsHold
    UnlockedIsReported
PROPERTY ViewConverges
