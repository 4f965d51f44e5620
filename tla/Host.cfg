\* Two viewers with no room to spare; two screens, two grids and a death;
\* two runs, two seeds, one grant and two output frames; two grids, one terminal that comes and
\* goes, two sockets; six frames by two writers and a window of three;
\* three launches of one state file; three processes that poll.
SPECIFICATION Spec
CONSTANTS
    v1 = v1
    v2 = v2
    NoViewer = NoViewer
    Viewers = {v1, v2}
    Ring = 1
    Cap = 1
    Limit = 1
    MaxUnits = 2
    MaxDrops = 1
    MaxAsks = 0
    g1 = g1
    Grants = {g1}
    Absent = Absent
    MaxSeeds = 2
    MaxRuns = 2
    MaxPrinted = 2
    MaxWire = 2
    MaxScreens = 2
    MaxChunks = 2
    MaxCrashes = 1
    MaxPath = 2
    GridSizes = {80, 120}
    Grids = {1, 2}
    Terminals = {g1}
    NoTerminal = NoTerminal
    Capacity = 1
    MaxOnSocket = 1
    MaxSockets = 2
    Sealers = {v1, v2}
    Span = 3
    MaxSequence = 6
    Launch = {1, 2, 3}
    Nobody = 0
    MaxCredentials = 2
    MaxUnlinks = 1
    Poller = {1, 2, 3}
    Command = {1}
    Shell = {1}
    NoPoller = 0
INVARIANTS NeverTwice Repaired WholeUnlessBroken ReadyIsCurrent GridFollows LimitHolds OnceOrOvertaken
INVARIANTS FilesTellWhoRuns SavedIsRun OpenedUnlessBeside
CHECK_DEADLOCK FALSE
