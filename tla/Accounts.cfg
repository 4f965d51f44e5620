\* Three people, two teams, one invitation (two where people only move) and two requests at once; three logins of one
\* machine; three changes of consent by two browsers.
SPECIFICATION Spec
CONSTANTS
    a = a
    b = b
    c = c
    t1 = t1
    t2 = t2
    r1 = r1
    r2 = r2
    i1 = i1
    i2 = i2
    None = None
    Nobody = None
    Person = {a, b, c}
    Team = {t1, t2}
    Invite = {i1, i2}
    Request = {r1, r2}
    Login = {a, b, c}
    Code = {a, b, c}
    Writer = {r1, r2}
    MaxVersions = 3
    MaxRuns = 1
SYMMETRY Symmetric
INVARIANTS OneOwnerUnlessStale DeletedStaysOut LoginRetires SentUnderConsent RevocationIsFinal
CHECK_DEADLOCK FALSE
