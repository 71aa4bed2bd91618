CONSTANTS
    w1 = w1
    w2 = w2
    None = None
    Worker = {w1, w2}
    NJobs = 3
    Attempts = 2
    CanCancel = FALSE
    MaxFailures = 3
SPECIFICATION FairSpec
CHECK_DEADLOCK FALSE
PROPERTY Ends
