SPECIFICATION DiskSpec
CONSTANTS
    Labels = {"A", "B", "C", "P", "X"}
    Types = {"linux", "esp", "data"}
    IsBlock = TRUE
    DiskSize = 24
    Metadata = 2
    GB = 4
    NoShrink = NoShrink
    Layouts <- FullLayout
    Requests <- ChangingRequests
    SectorSize = 2
    MB = 2
    Kind <- OtherKind
    Used <- MCUsed
    Deferral = {TRUE, FALSE}
    MaxInterrupts = 2
    MaxWrites = 1
    MaxChanges = 1
INVARIANTS NoDataLoss EntriesApart IdentityKept CallsInv FilesInv
