SPECIFICATION Spec
CONSTANTS
    ByteRange = 2
    LenBytes = 2
    MaxPacket = 2
    MaxData = 2
    MaxFrames = 3
CHECK_DEADLOCK FALSE
INVARIANTS
    TypeOK
    ReadsWhatWasWritten
