\* Retries, a new run and a crash at any await; the input gate holds.
SPECIFICATION Spec
CONSTANTS
    c1 = c1
    c2 = c2
    c3 = c3
    g1 = g1
    g2 = g2
    o1 = o1
    o2 = o2
    p1 = p1
    p2 = p2
    Calls = {c1, c2}
    Grants = {g1}
    OpIds = {o1, o2}
    Prints = {p1}
    MaxOps = 2
    MaxRun = 2
    MaxCrashes = 1
    InputGate = TRUE
    NoCall = NoCall
    NoGrant = NoGrant
    NoPrint = NoPrint
SYMMETRY Symmetric
INVARIANTS RepliesAgree SingleWriter
