SPECIFICATION Spec
CONSTANTS
    m1 = m1
    m2 = m2
    r = r
    k = k
    k2 = k2
    Managers = {m1, m2}
    NoOwner = NoOwner
    Root = r
    Objects <- MCObjects
    Contents <- MCContents
    Refs <- MCRefs
    FactoryHeap <- MCFactory
    Editable <- MCEditable
    EditsAt = {"work"}
    Ops = {"pessimistic", "optimistic"}
    TargetLists = {}
    Strategy = "pessimistic"
    Options <- MCWalOnly
    StaleLocks = "dead"
    FailsAt = {}
    CrashAt <- Anywhere
    QuietAt = {}
    MaxTid = 2
SYMMETRY Symmetry
CHECK_DEADLOCK FALSE
PROPERTIES
    CommitsAreSerial
