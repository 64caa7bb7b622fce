SPECIFICATION FairSpec
CONSTANTS
    Thread = {t1, t2}
    NoThread = NoThread
    Request = {r1, r2}
    Free = Free
    MaxJobs = 2
    JobsPerPass = 1
    Raises = TRUE
    Stops = TRUE
INVARIANTS
    OneDrain
    NoWaitOnNewWork
    KickIsNotLost
PROPERTIES
    KickIsServed
    DrainEnds
