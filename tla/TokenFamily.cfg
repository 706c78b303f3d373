SPECIFICATION Spec
CONSTANTS
    Codes = {c1, c2}
    Tokens = {t1, t2, t3, t4}
    Requests = {q1, q2}
    None = None
SYMMETRY Symmetric
INVARIANTS TypeOK OneLive RedeemedOnce CondemnedStaysDead NoCollateral
PROPERTY ImplementsRight
