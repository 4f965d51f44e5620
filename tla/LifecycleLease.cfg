SPECIFICATION Spec
CONSTANTS
    h1 = h1
    h2 = h2
    v1 = v1
    v2 = v2
    Nobody = Nobody
    Hosts = {h1}
    Viewers = {v1}
    MaxViewers = 1
    Ttl = 6
    Lease = 4
    MaxStarts = 2
    MaxCrashes = 0
INVARIANT LeaseRenewed
CHECK_DEADLOCK FALSE
