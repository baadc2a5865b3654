SPECIFICATION Spec
CONSTANTS
    BlockSize = 3
    DeviceBlocks = 3
    StartLba = 1
    Blocks = 2
    Word = 64
    Reads <- AllReads
    Writes <- Nothing
    Erases <- Nothing
    DiskReads <- Nothing
    DiskWrites <- Nothing
    BlockReads <- Nothing
    BlockWrites <- Nothing
    Images <- MCImages
    MaxChanges = 2
INVARIANTS
    SpanningReadReported
