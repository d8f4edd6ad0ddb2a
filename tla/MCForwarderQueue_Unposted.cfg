SPECIFICATION Spec
CONSTANTS
    N = 2
    Size <- UnitSizes
    MaxBatch = 2
    MaxRetries = 1
    MaxBatchBytes = 4
    MemoryBuffer = 0
    MaxRestarts = 0
    MaxFaults = 1
    MaxTorn = 0
PROPERTIES
    SpooledIsPosted
