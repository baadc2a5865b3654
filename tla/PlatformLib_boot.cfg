SPECIFICATION Spec
CONSTANTS
    First = 1
    SystemMemoryBase = 524288
    ReservedSecureBase = 524288
    ReservedSecureSize = 9472
    ReservedShareBase = 533760
    ReservedShareSize = 7936
    FdBaseAddress = 541696
    FdSize = 512
    FrameBufferBase = 542720
    FrameBufferSize = 2048
    DramHighSpaceBase = 8388608
    LowMegabytes = 30720
    PagesPerMegabyte = 256
    MemoryEnds <- MCMemoryEnds
    AvailableSizes <- MCAvailableSizes
    Word = 268435456
    Registers <- MCRegisters
    MaxDescriptors = 11
\* The table is returned, or the firmware has stopped.
CHECK_DEADLOCK FALSE
INVARIANTS
    TypeOK
    RegionsApart
    HobsMatchTable
    DescribedToTheEnd
    CoresFound
