CONSTANTS
    None = None
    MaxLives = 2
    Inputs <- AllInputs
    Answers <- AllAnswers
    NodeLists <- AllNodeLists
    NotFound = NotFound
    Failed = Failed
    FileSystems <- AllFileSystems
SPECIFICATION FairSpec
CHECK_DEADLOCK FALSE
INVARIANTS
    TypeOK
    MergeOrder
    Identified
    CollectorsReadLiveMap
    AllOrNothing
PROPERTIES
    ReadsInTheEnd
