SPECIFICATION Spec
CONSTANTS
    BlockSize = 3
    DeviceBlocks = 3
    StartLba = 1
    Blocks = 2
    Word = 64
    Reads <- MCReads
    Writes <- MCWrites
    Erases <- MCErases
    DiskReads <- MCDiskReads
    DiskWrites <- MCDiskWrites
    BlockReads <- MCBlockReads
    BlockWrites <- MCBlockWrites
    Images <- MCImages
    MaxChanges = 2
INVARIANTS
    TypeOK
PROPERTIES
    ImplementsVolume
