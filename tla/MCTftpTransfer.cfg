\* Windows of up to 3 blocks and wire numbers 0..4: seven blocks wrap them.
CONSTANTS
    NBlocks = 7
    MaxWindow = 3
    WireMod = 5
    MaxRetries = 3
SPECIFICATION Spec
CHECK_DEADLOCK FALSE
INVARIANTS ReceivesPrefix CompletedIsDelivered BufferIsWindow TransferInv
PROPERTIES ReadsForward Terminates ImplementsFileTransfer
