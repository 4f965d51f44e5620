\* A grant asked for, minted, used and revoked; two runs and two passwords;
\* two rotations over two sockets with a grant; two browsers and an agent, a lease of three ticks.
SPECIFICATION Spec
CONSTANTS
    owner = owner
    colleague = colleague
    x = x
    y = y
    g1 = g1
    None = None
    NoGrant = NoGrant
    Request = {1, 2}
    Grant = {x, y}
    PendingLimit = 2
    IssuedLimit = 1
    MaxLive = 1
    MaxChanges = 3
    Owner = owner
    Colleagues = {colleague}
    MaxRuns = 2
    MaxLinks = 2
    MaxCalls = 2
    Grants = {g1}
    MaxRotations = 2
    MaxSockets = 2
    Capacity = 1
    Typists = {x, y}
    Agent = Agent
    Lease = 3
    Refresh = 2
    Window = 1
    MaxTime = 6
    MaxFrames = 3
    MaxInbound = 1
INVARIANTS ServedOnlyEntitled AckedOnlyDead ClosedByOldWordOnly CopiesOpen
INVARIANTS OwnAckRevokes OldInputBarred CredentialsAgree OneTypist
CHECK_DEADLOCK FALSE
