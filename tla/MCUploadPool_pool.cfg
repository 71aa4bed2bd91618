CONSTANTS
    w1 = w1
    w2 = w2
    None = None
    Worker = {w1, w2}
    NJobs = 4
    Attempts = 2
    CanCancel = TRUE
    MaxFailures = 4
SPECIFICATION FairSpec
CHECK_DEADLOCK FALSE
INVARIANTS TypeOK NilMeansAll Accounted ErrorReported CountedOnce CompletionShown
PROPERTIES EndsWithWorker CancelEnds
