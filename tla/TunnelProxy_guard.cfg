SPECIFICATION Spec
CONSTANTS
    Calls = {c1, c2}
    TunnelIds = {t1, t2}
    NoTunnel = NoTunnel
    NoCall = NoCall
    MaxCalls = 4
SYMMETRY MCSymmetry
CHECK_DEADLOCK FALSE
INVARIANTS
    TypeOK
PROPERTY
    RegistryRefined
