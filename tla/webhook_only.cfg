SPECIFICATION WarmSpec
CONSTANTS
    p1 = p1
    c1 = c1
    r1 = r1
    Polls <- OnePoll
    Commands <- NoTask
    Refreshes <- NoTask
    Tracked <- CodesOnly
    HasSensor = FALSE
    Bluetooth = FALSE
    WebhookOnly = TRUE
    WebhookConfirmed = TRUE
    MaxTurns = 1
    MaxFaults = 0
    MaxEdits = 0
CHECK_DEADLOCK FALSE
INVARIANT SettledViewIsTrue
