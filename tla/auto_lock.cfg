SPECIFICATION Spec
CONSTANTS
    DayLength = 5
    WeekLength = 2
    Delay = 2
    Configs <- SomeConfigs
    Skews <- SomeSkews
    MaxTime = 12
    MaxUnlocks = 2
    MaxChanges = 1
CHECK_DEADLOCK FALSE
INVARIANTS
    SerialPredictionIsRight
PROPERTIES
    SerialPredictionIsNotEarly
