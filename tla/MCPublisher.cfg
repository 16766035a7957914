SPECIFICATION FairSpec
CONSTANTS
    w1 = w1
    w2 = w2
    Workers = {w1, w2}
    Leeway = 1
    Lifetimes = {0, 2}
    Deliveries = 1
    MaxTime = 1
    MaxRestarts = 1
    MaxFaults = 1
    NoToken = NoToken
    NoWorker = NoWorker
INVARIANTS
    PublisherInv
PROPERTIES
    CachedTokenHasLeeway
    RefusedNotReturned
    EveryDeliverySettles
CHECK_DEADLOCK FALSE
