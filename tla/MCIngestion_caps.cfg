SPECIFICATION Spec
CONSTANTS
    Source = {s1, s2}
    Path = {p1, p2}
    Text = {t}
    Acl = {a}
    Nil = Nil
    Request = {r1, r2}
    Drain = {d}
    NoJob = NoJob
    MaxAttempts = 1
    AttemptCap = 0
    SlowHandlers = FALSE
    DocCap = 2
    MaxGeneration = 1
    MaxRevision = 0
SYMMETRY Symmetry
INVARIANTS
    StoredWithinCap
PROPERTIES
    UsesQueue
CHECK_DEADLOCK FALSE
