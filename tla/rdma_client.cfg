SPECIFICATION Spec
CONSTANTS
    Stampers = {"nic", "host"}
    HwOffset = 3
    Threshold = 1
    Modulo = 4
    Word = 64
    QueueSize = 1
    ClockStart = 3
    MaxTicks = 2
    MaxPing = 2
    MaxDup = 2
INVARIANTS
    ListMatchesMap
    EachPingOnePlace
    SuccessIsAnswered
    NicDelaysFit
PROPERTIES
    FateIsFinal
    ImplementsLedger
CHECK_DEADLOCK FALSE
