SPECIFICATION Spec
CONSTANTS
    Runs = {r1, r2}
    Sources = {m1, m2}
    NoRow = NoRow
    NoPending = NoPending
    GenesisHash <- MCGenesis
    Hash <- MCHash
SYMMETRY MCSymmetry
INVARIANT ChainIntact
