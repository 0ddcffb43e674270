SPECIFICATION FairDiskSpec
CONSTANTS
    Labels = {"A", "B", "C", "P"}
    Types = {"linux", "esp", "data"}
    IsBlock = TRUE
    DiskSize = 24
    Metadata = 2
    GB = 4
    NoShrink = NoShrink
    Layouts <- FullLayout
    Requests <- MCRequests
    SectorSize = 1
    MB = 1
    Kind <- MCKind
    Used <- MCUsed
    Deferral = {FALSE}
    MaxInterrupts = 2
    MaxWrites = 1
    MaxChanges = 0
INVARIANTS DiskTypeOK NoDataLoss TableSound IdentityKept NumbersKept FinishedDelivers
PROPERTIES NoWriteBeforeChecks FinishedIsStable ResumeAgrees Converges ImplementsPromise
