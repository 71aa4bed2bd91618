CONSTANTS
    d1 = d1
    d2 = d2
    c1 = c1
    c2 = c2
    Foreign = Foreign
    None = None
    Digest = {d1, d2}
    NPaths = 2
    NInodes = 9
    Call = {c1}
    Remembers = TRUE
    HardLinks = FALSE
    Trees <- Growing
    Attempts = 2
    Workers = 2
    NegotiateBatch = 1
    PlaceBatch = 1
    LateCalls = FALSE
    InPlaceEdits = TRUE
    RestartPhases <- BeforePlacing
    MaxRuns = 2
    MaxEdits = 1
    MaxRestarts = 1
SPECIFICATION Spec
INVARIANTS Kept AnswersTrue Remembered
