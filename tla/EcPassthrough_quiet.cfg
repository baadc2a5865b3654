SPECIFICATION FairSpec
CONSTANTS
    FifoDepth = 4
    UART_BASE <- EcUartBase
    DeviceRegions <- RegionsAsCommented
    Requests <- MCAllRequests
    Answers <- MCAllAnswers
    Notices <- NoNotices
    MaxNotices = 0
INVARIANTS
    TypeOK
    NoPanic
    IdleMeansDrained
    NeverBothSending
    NeverStarved
    QuietInv
PROPERTIES
    CallReturns
    ImplementsService
