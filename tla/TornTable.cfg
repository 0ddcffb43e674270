SPECIFICATION TableSpec
CONSTANTS
    NoTable = NoTable
    Tables <- MCTables
    Rewrites <- MCRewrites
    MaxStops = 2
CHECK_DEADLOCK FALSE
INVARIANT AlwaysReadable
