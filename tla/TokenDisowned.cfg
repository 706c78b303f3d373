SPECIFICATION Spec
CONSTANTS
    Codes = {c1}
    Tokens = {t1, t2}
    Requests = {q1, q2}
    None = None
INVARIANT DisownedIsDead
