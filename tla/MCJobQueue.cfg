SPECIFICATION FairSpec
CONSTANTS
    Key = {k1, k2}
    NoJob = NoJob
    Drain = {d1, d2, d3}
    MaxAttempts = 2
    AttemptCap = 3
    SlowHandlers = FALSE
INVARIANTS
    ExclusiveClaim
    RetryBudget
PROPERTIES
    TerminalIsFinal
    KeepsPromise
    EveryJobEnds
CHECK_DEADLOCK FALSE
