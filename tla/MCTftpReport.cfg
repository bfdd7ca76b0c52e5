CONSTANTS
    NBlocks = 2
    MaxWindow = 1
    WireMod = 4
    MaxRetries = 1
SPECIFICATION Safety
INVARIANT EndIsReported
CHECK_DEADLOCK FALSE
