SPECIFICATION FairSpec
CONSTANTS
    m1 = m1
    m2 = m2
    r = r
    k = k
    k2 = k2
    Managers = {m1, m2}
    NoOwner = NoOwner
    Root = r
    Objects <- MCObjects
    Contents <- MCContents2
    Refs <- MCRefs2
    FactoryHeap <- MCFactory
    Editable <- MCEditable2
    EditsAt = {}
    Ops = {"pessimistic", "optimistic"}
    TargetLists = {}
    Strategy = "pessimistic"
    Options <- MCWalOnly
    StaleLocks = "live"
    FailsAt = {"readManifest", "record", "manifest"}
    CrashAt = {"objects"}
    QuietAt = {}
    MaxTid = 2
CHECK_DEADLOCK FALSE
INVARIANTS
    ManifestVersionsExist
PROPERTIES
    OperationsEnd
