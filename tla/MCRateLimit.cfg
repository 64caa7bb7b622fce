SPECIFICATION LimitSpec
CONSTANTS
    Address = {a1}
    Nobody = Nobody
    HeaderTrusted = TRUE
    Call = {c1, c2}
    Burst = 1
    PerMin = 35
    SweepAbove = 1
    EvictAfter = 4
    MaxStall = 1
    MaxClock = 6
INVARIANT
    RetryIsEnough
PROPERTY
    ChargesLikeABucket
SYMMETRY Symmetry
