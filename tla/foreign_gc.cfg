SPECIFICATION Spec
CONSTANTS
    m1 = m1
    m2 = m2
    r = r
    z = z
    Managers = {m1, m2}
    NoOwner = NoOwner
    Root = r
    Objects <- MCObjects
    Lazies = {}
    Options <- MCShared
    Ops <- MCCollect
    KeepLatest = 2
    FailsAt = {}
    CrashAt <- MCNoCrash
    MaxTid = 2
CHECK_DEADLOCK FALSE
INVARIANTS
    StartFindsLastCommit
