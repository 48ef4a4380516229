SPECIFICATION Spec
CONSTANTS
    Pings = {0, 1, 2}
    HwTs = TRUE
    Inline = TRUE
    NumBuf = 2
    BatchCqe = 1
    QueueSize = 1
    Threshold = 1
    Modulo = 4
    ClockStart = 3
    MaxTicks = 1
    MaxErr = 1
INVARIANTS
    SoleAnswerIsOwn
    DelayIsServerTime
    ServerInv
    StaysAlive
    NoPingForgotten
CHECK_DEADLOCK FALSE
