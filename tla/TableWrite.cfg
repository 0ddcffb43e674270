SPECIFICATION TableSpec
CONSTANTS
    NoTable = NoTable
    Tables <- MCTables
    Rewrites <- MCRewrites
    MaxStops = 1
INVARIANTS Recoverable CopiesAgree
PROPERTY OldOrNew
