SPECIFICATION Spec
CONSTANTS
    FifoDepth = 2
    UART_BASE <- EcUartBase
    DeviceRegions <- RegionsOfManifest
    Requests <- MCRequests
    Answers <- MCFewAnswers
    Notices <- NoNotices
    MaxNotices = 0
INVARIANTS
    RegistersMapped
