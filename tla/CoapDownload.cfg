SPECIFICATION Spec
CONSTANTS
    Downloads <- SmallDownloads
    BlockSize = 2
    WorkBlocks = 2
    MaxInFlight = 3
    MaxTimeouts = 1
    Timeout = 1
    MaxStray = 1
INVARIANTS
    DeliveredInOrder
    AlwaysBuffered
    CompleteOnSuccess
PROPERTIES
    DownloadEnds
