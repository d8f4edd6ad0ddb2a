SPECIFICATION Spec
CONSTANTS
    N = 2
    Size <- MixedSizes
    MaxBatch = 2
    MaxRetries = 1
    MaxBatchBytes = 4
    MemoryBuffer = 0
    MaxRestarts = 1
    MaxFaults = 1
    MaxTorn = 1
INVARIANTS
    AckedOnce
    LossBounded
