SPECIFICATION ListSpec
CONSTANTS
    Labels = {"A", "B", "C", "P", "X"}
    Types = {"linux"}
    IsBlock = TRUE
    DiskSize = 24
    Metadata = 2
    GB = 4
    NoShrink = NoShrink
    Layouts <- MCLayouts
    Requests <- MCRequests
CHECK_DEADLOCK FALSE
INVARIANT GrownIntoFreeSpace
