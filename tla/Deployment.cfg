SPECIFICATION FairSpec
CONSTANTS
    Boot = {b1, b2, b3}
    Migrating = {b1, b2}
    Server = b3
    Files = 3
    RlsFile = 2
    MaxStarts = 3
    Caller = {c1, c2}
    Org = {o1, o2}
    NoOrg = NoOrg
    Conn = {k1, k2}
    PoolMax = 1
INVARIANTS
    SchemaIsWhole
    ServesMigrated
    RowsAreOwn
PROPERTY
    StartEnds
CHECK_DEADLOCK FALSE
