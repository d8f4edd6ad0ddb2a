SPECIFICATION Spec
CONSTANTS
    u1 = u1
    u2 = u2
    p1 = p1
    p2 = p2
    g1 = g1
    g2 = g2
    s1 = s1
    s2 = s2
    Idle = Idle
    None = None
    Cpus <- TwoCpus
    Pids <- TwoPids
    Groups <- TwoGroups
    Slots <- TwoSlots
    PidEntries = 3
    Modulus = 16
    TotalPages = 3
    MaxTime = 0
    MaxPageOps = 1
SYMMETRY Symmetric
INVARIANTS
    MemoryIsActual
