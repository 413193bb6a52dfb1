SPECIFICATION FairSpec
CONSTANTS
    Producers = {p1, p2}
    Consumers = {c1, c2}
    NoOne = NoOne
    WordSize = 8
    MaxSends = 3
INVARIANTS
    PendingAccurate
    FifoNoLoss
PROPERTY
    EventuallyConsumed
