SPECIFICATION Spec
CONSTANTS
    Calls = {"up", "gvql", "opt", "down", "gc", "put", "txn", "inner", "upd"}
    Kind <- KindOf
    Parent <- ParentOf
    After <- AfterOf
    Target <- TargetOf
    Migrations = {1, 2}
    InitialVersion = 0
    MaxRetries = 2
    MaxForeign = 1
    MaxFailures = 1
    Startup = TRUE
    MayShutdown = TRUE
    NoCall = "nocall"
INVARIANTS
    TypeOK
    OneSection
    
    
    
    
    ShutdownFreesTheLock
PROPERTIES
    CallsEnd
