SPECIFICATION Spec
CONSTANTS
    Source = {s}
    Path = {p}
    Text = {t1, t2}
    Acl = {a1, a2}
    Nil = Nil
    Request = {r}
    Drain = {d1, d2}
    NoJob = NoJob
    MaxAttempts = 2
    AttemptCap = 3
    SlowHandlers = FALSE
    DocCap = 2
    MaxGeneration = 1
    MaxRevision = 0
SYMMETRY Symmetry
INVARIANTS
    FailedHasDeadJob
    SettledIndexIsCurrent
CHECK_DEADLOCK FALSE
