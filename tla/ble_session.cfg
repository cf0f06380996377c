SPECIFICATION FairSpec
CONSTANTS
    c1 = c1
    c2 = c2
    none = none
    Kind <- Kinds
    Image <- ShortImage
    Magic <- ShortMagic
    HeaderLength = 3
    MaxDataLength = 4
    TrailerLength = 1
    Callers <- TwoCallers
    Answer <- AnswerOfTwo
    NoCaller = none
    MaxReports = 1
    MaxFaults = 1
    MaxCancels = 1
CHECK_DEADLOCK FALSE
INVARIANTS
    TypeOK
    InStep
    PlainStartCostsOneFrame
    SerialAnswerIsOwn
    SessionCloses
PROPERTIES
    ExchangesCommands
    SessionEnds
