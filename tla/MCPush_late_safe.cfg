CONSTANTS
    d1 = d1
    d2 = d2
    c1 = c1
    c2 = c2
    Foreign = Foreign
    None = None
    Digest = {d1, d2}
    NPaths = 2
    NInodes = 8
    Call = {c1, c2}
    Remembers = TRUE
    HardLinks = TRUE
    Trees <- WholeTree
    Attempts = 1
    Workers = 2
    NegotiateBatch = 1
    PlaceBatch = 2
    LateCalls = TRUE
    InPlaceEdits = FALSE
    RestartPhases <- Phase
    MaxRuns = 3
    MaxEdits = 0
    MaxRestarts = 1
SPECIFICATION Spec
SYMMETRY Slots
INVARIANTS BlobsTrue RightOrAbsent
