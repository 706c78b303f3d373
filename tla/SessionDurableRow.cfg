SPECIFICATION Spec
CONSTANTS
    Sessions = {s1}
    Requests = {q1, q2}
    NoSession = NoSession
    MaxGeneration = 1
INVARIANT DurableRowCloses
