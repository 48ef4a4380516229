SPECIFICATION FairSpec
CONSTANTS
    BufferSize = 3
    MaxMsg = 5
    MaxStops = 2
    MaxDeaths = 1
INVARIANTS
    TypeOK
    NoSlotRace
    DeliveredInOrder
    NothingVanishes
PROPERTIES
    ImplementsQueue
    AcceptedIsDelivered
    OrderReturns
