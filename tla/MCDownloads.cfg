CONSTANTS
    A           = A
    B           = B
    Contents    = {A, B}
    Size       <- SizeDef
    Even       <- EvenDef
    MaxCalls    = 2
    MaxAttempts = 2
    MaxFaults   = 2
    None        = None
SPECIFICATION Spec
INVARIANTS CompletedOnce SessionLossExplained PartIsPrefix
PROPERTIES TargetIsIntact DownloadsEnd
CHECK_DEADLOCK FALSE
