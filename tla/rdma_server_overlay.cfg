SPECIFICATION Spec
CONSTANTS
    Pings = {0, 2}
    HwTs = FALSE
    Inline = FALSE
    NumBuf = 2
    BatchCqe = 2
    QueueSize = 2
    Threshold = 1
    Modulo = 4
    ClockStart = 3
    MaxTicks = 0
    MaxErr = 0
INVARIANTS
    AnswerIsOwn
CHECK_DEADLOCK FALSE
