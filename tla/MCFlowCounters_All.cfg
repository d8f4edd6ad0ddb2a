SPECIFICATION FairSpec
CONSTANTS
    c1 = c1
    c2 = c2
    f1 = f1
    f2 = f2
    s1 = s1
    s2 = s2
    None = None
    Contexts <- TwoContexts
    Flows <- TwoFlows
    Slots <- TwoSlots
    Lengths = {1, 2}
    MaxPackets = 3
INVARIANTS
    TypeOK
    NothingChargedTwice
    ExactUnlessDisturbed
PROPERTIES
    AllCharged
