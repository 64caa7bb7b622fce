SPECIFICATION Spec
CONSTANTS
    User = {u1, u2, u3}
    Group = {g1}
    Request = {r1, r2}
    NoRole = NoRole
INVARIANTS
    LastOwner
CHECK_DEADLOCK FALSE
