SPECIFICATION Spec
CONSTANTS
    ReadBuf = 2
    MaxSize = 2
CHECK_DEADLOCK FALSE
INVARIANT ResponseReachesHandler
