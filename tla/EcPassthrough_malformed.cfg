SPECIFICATION FairSpec
CONSTANTS
    FifoDepth = 3
    UART_BASE <- EcUartBase
    DeviceRegions <- RegionsAsCommented
    Requests <- MCRequests
    Answers <- MCAnyAnswers
    Notices <- NoNotices
    MaxNotices = 0
INVARIANTS
    PanicOnlyOnMalformed
    ReadInv
    FollowInv
    WaitsOnlyForTheEc
PROPERTIES
    DeliversFramed
    CallEnds
CHECK_DEADLOCK FALSE
