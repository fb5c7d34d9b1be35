SPECIFICATION Spec
CONSTANTS
    Calls = {c1, c2}
    Names = {n1, n2}
    NoLease = NoLease
    MaxCalls = 3
SYMMETRY MCSymmetry
CHECK_DEADLOCK FALSE
INVARIANTS
    TypeOK
