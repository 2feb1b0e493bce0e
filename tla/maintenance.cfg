SPECIFICATION Spec
CONSTANTS
    m1 = m1
    m2 = m2
    r = r
    z = z
    Managers = {m1, m2}
    NoOwner = NoOwner
    Root = r
    Objects <- MCObjects
    Lazies <- MCLazies
    Options <- MCOptions
    Ops <- MCOps
    KeepLatest = 2
    FailsAt = {"payloads", "records", "snapshot", "gcRecords", "gcRemove", "copy"}
    CrashAt <- MCCrashAt
    MaxTid = 3
SYMMETRY Symmetry
CHECK_DEADLOCK FALSE
INVARIANTS
    MaintenanceTypeOK
    StartFindsLastCommit
    
    BackupRestores
