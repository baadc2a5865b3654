SPECIFICATION Spec
CONSTANTS
    BlockSize = 3
    DeviceBlocks = 3
    StartLba = 1
    Blocks = 2
    Word = 64
    Reads <- MCReads
    Writes <- Nothing
    Erases <- AllErases
    DiskReads <- Nothing
    DiskWrites <- Nothing
    BlockReads <- Nothing
    BlockWrites <- Nothing
    Images <- MCImages
    MaxChanges = 2
PROPERTIES
    MissingBlockRefused
