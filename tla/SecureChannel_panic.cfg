CONSTANTS
    NonceSpace = 2
    Msgs = {m1}
    ServerInits <- MCAllInits
    MaxSend = 1
    MaxAttacks = 0
SPECIFICATION Spec
INVARIANT HandshakeFailsCleanly
CHECK_DEADLOCK FALSE
