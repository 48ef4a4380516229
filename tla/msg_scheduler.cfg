SPECIFICATION Spec
CONSTANTS
    A = A
    B = B
    C = C
    D = D
    Addresses <- MCAddresses
    Me <- MCMe
    Pinglists <- MCPinglists
    Stores <- MCStores
    Intervals = {4, 8}
    LoadEvery = 8
    FirstPace = 1
    EmptyPace = 2
    EmptySleep = 1
    MaxRetryLoad = 3
    Late = 1
    MaxChanges = 3
INVARIANTS
    ListIsRight
    SchedulerInv
PROPERTY
    NobodyStarves
