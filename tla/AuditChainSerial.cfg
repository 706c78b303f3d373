SPECIFICATION FairSpec
CONSTANTS
    Runs = {r1}
    Sources = {m1, m2, m3}
    NoRow = NoRow
    NoPending = NoPending
    GenesisHash <- MCGenesis
    Hash <- MCHash
INVARIANT TypeOK
INVARIANT HeadConfirmed
INVARIANT OneFate
INVARIANT PendingAtHead
PROPERTIES ImplementsLog NeverBlockedForGood
