SPECIFICATION ConvSpec
CONSTANTS
    alice = alice
    bob = bob
    Users = {alice, bob, carol}
    Matches = {m1}
    Members <- Pair
    Requests = {r1, r2}
    NoRow = NoRow
    MaxMessages = 3
    MaxTotal = 1
    Faults = {"throw", "redeliver"}
SYMMETRY Symmetry
INVARIANTS
    ConvTypeOK
    CountConserved
    TotalsCounted
    ReadPrefix
