SPECIFICATION ScreenSpec
CONSTANTS
    narrow = narrow
    wide = wide
    MaxScreens = 3
    MaxChunks = 2
    MaxCrashes = 1
    MaxPath = 2
    GridSizes = {narrow, wide}
INVARIANTS NeverHalf
