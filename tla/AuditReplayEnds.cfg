SPECIFICATION FairSpec
CONSTANTS
    Audits = {a1}
    Plain = {e1}
    Workers = {w1}
    MaxSends = 2
    None = None
PROPERTY ReplayEnds
CHECK_DEADLOCK FALSE
