SPECIFICATION FairSpec
CONSTANTS
    Source = {s}
    Path = {p}
    Text = {t}
    Acl = {a1, a2}
    Nil = Nil
    Request = {r}
    Drain = {d1, d2}
    NoJob = NoJob
    MaxAttempts = 2
    AttemptCap = 2
    SlowHandlers = FALSE
    DocCap = 2
    MaxGeneration = 1
    MaxRevision = 1
INVARIANTS
    PendingNotSucceeded
    GoneHoldsNothing
PROPERTIES
    PendingEnds
CHECK_DEADLOCK FALSE
