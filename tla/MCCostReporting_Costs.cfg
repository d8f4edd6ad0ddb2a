SPECIFICATION FairSpec
CONSTANTS
    MaxPricingAttempts = 1
    RegionLocation = {"east", "west"}
    Offered <- OfferedPrices
    Invocations <- Calls
    OldTable <- Old
    Garbled = garbled
    TrackedKeys = {"team", "cost_center"}
    FilterKeys = {"team"}
    CPUPrice = 3
    MemoryPrice = 2
    Region = "east"
    Clusters <- AllClusters
    Usages <- AllUsages
    ConfiguredPrices <- Override
    NoData = none
    MaxChanges = 1
    MaxFailures = 1
CHECK_DEADLOCK FALSE
INVARIANTS
    StuckNeedsBacklog
    NoJobLost
    SeriesAreCurrent
    RawPriceIsFetched
PROPERTIES
    GroupingsAgree
    ReportsInTheEnd
