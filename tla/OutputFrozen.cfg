SPECIFICATION OutputSpec
CONSTANTS
    v1 = v1
    v2 = v2
    NoViewer = NoViewer
    Viewers = {v1}
    Ring = 1
    Cap = 2
    Limit = 1
    MaxUnits = 3
    MaxDrops = 0
    MaxAsks = 2
INVARIANTS BehindIsRecovered
CHECK_DEADLOCK FALSE
