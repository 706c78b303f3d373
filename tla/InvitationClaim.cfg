SPECIFICATION Spec
CONSTANTS
    v1 = v1
    v2 = v2
    k1 = k1
    k2 = k2
    s1 = s1
    s2 = s2
    None = None
    Verifiers <- MCVerifiers
    Keys <- MCKeys
    Sessions <- MCSessions
INVARIANTS
    TypeOK
    OneAcceptance
    SessionIsNamed
PROPERTY ImplementsFate
SYMMETRY Symmetry
CHECK_DEADLOCK FALSE
