SPECIFICATION Spec
CONSTANTS
    Stream = {s1, s2}
    u1 = u1
    u2 = u2
    o1 = o1
    o2 = o2
    User = {u1, u2}
    Org = {o1, o2}
    OrgOf <- TwoOrgs
    OrgBudget = 1
    PlatformBudget = 2
    QuestionCap = 2
    MaxCost = 1
    TicksPerDay = 2
    MaxTick = 2
    MaxQuestions = 2
SYMMETRY Symmetry
INVARIANTS
    OrgSpendIsCapped
    PlatformSpendIsCapped
    LedgersAgree
    BilledOnce
PROPERTIES
    FramesInOrder
CHECK_DEADLOCK FALSE
