SPECIFICATION DiskSpec
CONSTANTS
    Labels = {"A", "B", "C", "P"}
    Types = {"linux", "esp", "data"}
    IsBlock = FALSE
    DiskSize = 24
    Metadata = 2
    GB = 4
    NoShrink = NoShrink
    Layouts <- BothLayouts
    Requests <- ImageRequests
    SectorSize = 1
    MB = 1
    Kind <- MCKind
    Used <- MCUsed
    Deferral = {FALSE}
    MaxInterrupts = 1
    MaxWrites = 1
    MaxChanges = 0
INVARIANT NoDataLoss
