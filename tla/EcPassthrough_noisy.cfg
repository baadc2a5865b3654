SPECIFICATION FairSpec
CONSTANTS
    FifoDepth = 3
    UART_BASE <- EcUartBase
    DeviceRegions <- RegionsAsCommented
    Requests <- MCRequests
    Answers <- MCFewAnswers
    Notices <- MCNotices
    MaxNotices = 2
INVARIANTS
    NeverCatchesUp
PROPERTIES
    DeliversOldest
    HeardAsAsked
