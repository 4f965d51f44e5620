\* A full store: a revoked grant's record makes room for another grant's claim. Fairness.
SPECIFICATION FullSpec
CONSTANTS
    c1 = c1
    c2 = c2
    c3 = c3
    g1 = g1
    g2 = g2
    o1 = o1
    o2 = o2
    p1 = p1
    p2 = p2
    Calls = {c1, c2, c3}
    Grants = {g1, g2}
    OpIds = {o1}
    Prints = {p1}
    MaxOps = 1
    MaxRun = 1
    MaxCrashes = 0
    InputGate = TRUE
    NoCall = NoCall
    NoGrant = NoGrant
    NoPrint = NoPrint
INVARIANTS AtMostOnce LeaseOwned
PROPERTY EveryCallEnds
CHECK_DEADLOCK FALSE
