SPECIFICATION Spec
CONSTANTS
    Token = {t1, t2}
    Call = {c1, c2}
    Ttl = 1
    MaxClock = 1
    MaxChanges = 2
    Doc = {d1}
    Group = {g1}
    g1 = g1
    Acl <- MCAcl
    Limit = 1
SYMMETRY Symmetry
INVARIANTS
    OthersAreOut
    RemovedHasNoSession
PROPERTIES
    ReadsAreJustified
