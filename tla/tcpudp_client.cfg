SPECIFICATION Spec
CONSTANTS
    Protocols = {"tcp", "udp"}
    Dsts = {d1, d2}
    Threshold = 1
    Mask = 3
    QueueSize = 1
    ClockStart = 2
    MaxTicks = 2
    MaxPing = 3
    MaxDup = 1
INVARIANTS
    TableInv
    DelayFits
    CountsAreTrue
PROPERTIES
    ExpiryIsComplete
    ImplementsLedger
SYMMETRY DstSymmetry
CHECK_DEADLOCK FALSE
