SPECIFICATION FairSpec
CONSTANTS
    Pings = {0, 1, 2}
    NumDst = 2
    RingSize = 2
    Zmq = FALSE
    Workers = {w1}
    MaxTimeouts = 2
    MaxFails = 1
    MaxFlaps = 3
    MaxErrors = 1
INVARIANTS
    ReportInv
    ShownIsNewest
PROPERTY
    ReportIsSettled
CHECK_DEADLOCK FALSE
