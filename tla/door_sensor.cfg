SPECIFICATION FairSpec
CONSTANTS
    p1 = p1
    p2 = p2
    Polls <- TwoPolls
    AbsentAfter = 3
    MaxPairings = 1
    MaxFaults = 1
    MaxRestarts = 1
CHECK_DEADLOCK FALSE
INVARIANTS
    SerialVerdictIsEarned
    QuietAfterVerdict
PROPERTY ProbeSettles
