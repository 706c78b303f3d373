SPECIFICATION Spec
CONSTANTS
    Audits = {a1, a2}
    Plain = {}
    Workers = {w1, w2}
    MaxSends = 2
    None = None
SYMMETRY Symmetric
INVARIANTS TypeOK NothingLost OutboxHonest LeaseHeld ReplayAudited
CHECK_DEADLOCK FALSE
