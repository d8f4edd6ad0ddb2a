SPECIFICATION FairSpec
CONSTANTS
    N = 2
    Size <- MixedSizes
    MaxBatch = 1
    MaxRetries = 0
    MaxBatchBytes = 4
    MemoryBuffer = 0
    MaxRestarts = 1
    MaxFaults = 0
    MaxTorn = 1
PROPERTIES
    IntactIsPosted
