SPECIFICATION Spec
CONSTANTS
    Sessions = {s1}
    Requests = {q1, q2, q3}
    NoSession = NoSession
    MaxGeneration = 2
SYMMETRY MCSymmetry
INVARIANT TypeOK
INVARIANT OutStaysOut
INVARIANT NoLateAccept
PROPERTY ImplementsRegister
