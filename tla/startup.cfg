SPECIFICATION Spec
CONSTANTS
    m1 = m1
    m2 = m2
    r = r
    k = k
    k2 = k2
    Managers = {m1, m2}
    NoOwner = NoOwner
    Root = r
    Objects <- MCObjects
    Contents <- MCContents
    Refs <- MCRefs
    FactoryHeap <- MCFactory
    Editable <- MCEditable
    EditsAt = {"idle", "work"}
    Ops = {"storeRoot", "storeAll", "update", "pessimistic"}
    TargetLists <- MCTargets
    Strategy = "startup"
    Options <- MCEither
    StaleLocks = "dead"
    FailsAt = {"prepare", "objects", "snapshot", "marker"}
    CrashAt <- Anywhere
    QuietAt = {}
    MaxTid = 2
SYMMETRY Symmetry
CHECK_DEADLOCK FALSE
INVARIANTS
    DurableIsRecoverable
    StoredTargetsArePublished
PROPERTIES
    CommitsAreSerial
