SPECIFICATION FairSpec
CONSTANTS
    Bytes = {b1, b2}
    MaxChunk = 2
    ReadBuf = 1
    MaxMsgs = 2
    MaxWrites = 2
CHECK_DEADLOCK FALSE
INVARIANTS
    TypeOK
    StreamPreservesBytes
PROPERTY
    ReaderNotStranded
    StreamRefined
