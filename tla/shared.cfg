SPECIFICATION Spec
CONSTANTS
    m1 = m1
    m2 = m2
    r = r
    k = k
    k2 = k2
    Managers = {m1, m2}
    NoOwner = NoOwner
    Root = r
    Objects <- MCObjects
    Contents <- MCContents2
    Refs <- MCRefs2
    FactoryHeap <- MCFactory
    Editable <- MCEditable2
    EditsAt = {"work"}
    Ops = {"pessimistic", "optimistic"}
    TargetLists = {}
    Strategy = "pessimistic"
    Options <- MCBoth
    StaleLocks = "dead"
    FailsAt = {"marker", "record", "manifest", "commitState"}
    CrashAt <- Writes
    QuietAt <- Window
    MaxTid = 2
SYMMETRY Symmetry
CHECK_DEADLOCK FALSE
INVARIANTS
    TypeOK
    VerifyFindsNoError
    IndexMatchesManifest
PROPERTIES
    ImplementsSerialGraph
    ManifestIsolation
