SPECIFICATION FairAddressSpec
CONSTANTS
    Expiry = 2
    CheckEvery = 1
    FetchRetry = 1
    MaxRetryLoad = 2
    MaxQpn = 2
    MaxTicks = 5
    MaxFaults = 2
INVARIANTS
    AddressInv
PROPERTY
    AddressArrives
