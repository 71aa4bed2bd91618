CONSTANTS
    d1 = d1
    d2 = d2
    c1 = c1
    c2 = c2
    Foreign = Foreign
    None = None
    Digest = {d1, d2}
    NPaths = 2
    NInodes = 8
    Call = {c1}
    Remembers = TRUE
    HardLinks = TRUE
    Trees <- Growing
    Attempts = 2
    Workers = 1
    NegotiateBatch = 1
    PlaceBatch = 1
    LateCalls = FALSE
    InPlaceEdits = FALSE
    RestartPhases <- Phase
    MaxRuns = 2
    MaxEdits = 1
    MaxRestarts = 1
SPECIFICATION FairSpec
INVARIANTS TypeOK Kept AnswersTrue NoLeftovers
PROPERTIES Delivers Ends
