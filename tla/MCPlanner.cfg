SPECIFICATION FairListSpec
CONSTANTS
    DiskSize = 24
    Metadata = 2
    GB = 4
    NoShrink = NoShrink
    Labels = {"A", "B", "C", "P", "X"}
    Types = {"linux"}
    IsBlock = TRUE
    Layouts <- MCLayouts
    Requests <- MCRequests
CHECK_DEADLOCK FALSE
INVARIANTS TypeOK PlanIsSafe SpaceAccounted ShrinkMakesRoom ListAgrees ListInv
PROPERTIES Terminates ImplementsPlanner
