SPECIFICATION FairSpec
CONSTANTS
    MaxBlockSize = 2
    Sizes = {2, 4}
    MaxItems = 9
INVARIANTS
    NoSlotRace
    QueueInv
    RefusedOnlyWhenFull
PROPERTIES
    ImplementsFifo
    EnqueuedIsDequeued
