CONSTANTS
    d1 = d1
    d2 = d2
    c1 = c1
    c2 = c2
    Foreign = Foreign
    None = None
    Digest = {d1, d2}
    NPaths = 2
    NInodes = 6
    Call = {c1}
    Remembers = FALSE
    HardLinks = TRUE
    Trees <- AnyTree
    Attempts = 2
    Workers = 2
    NegotiateBatch = 1
    PlaceBatch = 1
    LateCalls = FALSE
    InPlaceEdits = FALSE
    RestartPhases <- Phase
    MaxRuns = 3
    MaxEdits = 1
    MaxRestarts = 1
SPECIFICATION Spec
INVARIANT Kept
PROPERTY Delivers
