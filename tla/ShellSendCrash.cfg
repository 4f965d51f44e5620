\* Retries, a revocation, a new run and a crash at any await, without relying on the input gate.
SPECIFICATION Spec
CONSTANTS
    c1 = c1
    c2 = c2
    c3 = c3
    g1 = g1
    g2 = g2
    o1 = o1
    o2 = o2
    p1 = p1
    p2 = p2
    Calls = {c1, c2}
    Grants = {g1}
    OpIds = {o1}
    Prints = {p1, p2}
    MaxOps = 1
    MaxRun = 1
    MaxCrashes = 1
    InputGate = FALSE
    NoCall = NoCall
    NoGrant = NoGrant
    NoPrint = NoPrint
SYMMETRY Symmetric
INVARIANTS TruthfulDelivery NoOrphanWaiter SendInvariant
PROPERTY KeepsPromise
