CONSTANTS
    ByteRange = 4
    NonceLen = 4
SPECIFICATION Spec
INVARIANT TypeOK
PROPERTY IncrementIsSuccessor
