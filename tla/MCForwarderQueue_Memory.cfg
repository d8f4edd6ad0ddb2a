SPECIFICATION FairSpec
CONSTANTS
    N = 2
    Size <- MixedSizes
    MaxBatch = 2
    MaxRetries = 1
    MaxBatchBytes = 2
    MemoryBuffer = 1
    MaxRestarts = 1
    MaxFaults = 1
    MaxTorn = 0
INVARIANTS
    TypeOK
    SingleCustody
    NoSilentLoss
    ListingStaysValid
    WithinLimits
    BoundedAttempts
PROPERTIES
    ImplementsOutbox
    QueueDrains
