SPECIFICATION FairSpec
CONSTANTS
    m1 = m1
    m2 = m2
    Copies <- MCCopies
    SendLimit = 2
    EmailDeliveries = 2
    SmsDeliveries = 3
INVARIANTS
    TypeOK
    OneCaller
    ResendOnlyWhenTold
    RowIsTrue
    Carried
PROPERTIES
    ImplementsProviderCalls
    Settles
CHECK_DEADLOCK FALSE
