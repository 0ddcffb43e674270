SPECIFICATION DiskSpec
CONSTANTS
    Labels = {"A", "B", "C", "P"}
    Types = {"linux", "esp", "data"}
    IsBlock = TRUE
    DiskSize = 24
    Metadata = 2
    GB = 4
    NoShrink = NoShrink
    Layouts <- TwinLayout
    Requests <- TwinRequests
    SectorSize = 1
    MB = 1
    Kind <- MCKind
    Used <- MCUsed
    Deferral = {FALSE}
    MaxInterrupts = 1
    MaxWrites = 0
    MaxChanges = 0
INVARIANT NoDataLoss
