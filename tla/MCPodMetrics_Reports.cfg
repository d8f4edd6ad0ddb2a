SPECIFICATION FairSpec
CONSTANTS
    a1 = a1
    a2 = a2
    None = None
    Cgroups <- TwoInstances
    KeyOf <- PodOf
    TTL = 2
    MaxCpu = 2
    MaxFaults = 1
INVARIANTS
    TypeOK
    ReportedOnce
    PairedWithInterval
PROPERTIES
    MappingIsRecent
    CountersAreRead
