SPECIFICATION FairCopySpec
CONSTANTS
    Calls <- MCCalls
    CopyBufSize = 4
    Span = 10
CHECK_DEADLOCK FALSE
INVARIANTS CopiedPrefix CopiesRange
PROPERTY Ends
