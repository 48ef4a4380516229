SPECIFICATION FairSpec
CONSTANTS
    Batches = {0, 3}
    Depth = 8
    Window = 8
INVARIANTS
    NoEmptyPoll
PROPERTY
    CqeIsHandled
CHECK_DEADLOCK FALSE
