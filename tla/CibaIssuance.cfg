SPECIFICATION Spec
CONSTANTS
    r1 = r1
    r2 = r2
    r3 = r3
    Reservations <- MCReservations
    RequestTtl = 5
    LeaseTtl = 2
    MaxLag = 1
    MaxTime = 6
    None = None
SYMMETRY MCSymmetry
INVARIANTS
    TypeOK
    FailedLeavesNoRow
    NotUsedInVain
    NoStrayLease
PROPERTIES
    LeaseHeld
    RedeemedAtMostOnce
CHECK_DEADLOCK FALSE
