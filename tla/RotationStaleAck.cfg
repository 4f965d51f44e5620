\* A late acknowledgement of a failed rotation.
SPECIFICATION RotationSpec
CONSTANTS
    g1 = g1
    g2 = g2
    Grants = {g1}
    MaxRotations = 2
    MaxSockets = 2
    Capacity = 2
    MaxInbound = 1
    NoGrant = NoGrant
INVARIANTS RotatedMeansRevoked
CHECK_DEADLOCK FALSE
