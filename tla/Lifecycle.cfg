SPECIFICATION FewSpec
CONSTANTS
    h1 = h1
    h2 = h2
    v1 = v1
    v2 = v2
    Nobody = Nobody
    Hosts = {h1, h2}
    Viewers = {v1, v2}
    MaxViewers = 1
    Ttl = 2
    Lease = 2
    MaxStarts = 2
    MaxCrashes = 1
INVARIANTS AlarmArmed StatusTruth PresenceTruth NoGhost
PROPERTY Ends
CHECK_DEADLOCK FALSE
