SPECIFICATION FairDiskSpec
CONSTANTS
    Labels = {"A", "B", "C", "P"}
    Types = {"linux", "esp", "data"}
    IsBlock = TRUE
    DiskSize = 24
    Metadata = 2
    GB = 4
    NoShrink = NoShrink
    Layouts <- FullLayout
    Requests <- OneRequest
    SectorSize = 1
    MB = 1
    Kind <- MCKind
    Used <- MCUsed
    Deferral = {TRUE}
    MaxInterrupts = 0
    MaxWrites = 0
    MaxChanges = 0
PROPERTY Converges
