CONSTANTS
    NonceSpace = 3
    Msgs = {m1, m2}
    ServerInits <- MCAllInits
    MaxSend = 2
    MaxAttacks = 2
SPECIFICATION FairSpec
INVARIANTS
    TypeOK
    ClientReceivesServerStream
    EncryptNonceNeverReused
PROPERTIES
    ServerStreamDelivered
    ClientStreamDelivered
CHECK_DEADLOCK FALSE
