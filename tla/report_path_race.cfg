SPECIFICATION Spec
CONSTANTS
    Pings = {0, 1}
    NumDst = 1
    RingSize = 2
    Zmq = TRUE
    Workers = {w1, w2}
    MaxTimeouts = 1
    MaxFails = 0
    MaxFlaps = 0
    MaxErrors = 0
INVARIANT
    ShownIsNewest
CHECK_DEADLOCK FALSE
