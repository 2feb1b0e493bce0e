SPECIFICATION Spec
CONSTANTS
    Writers = {w1, w2, w3}
    NoOwner = NoOwner
    Targets = {"s3", "http", "sql"}
    Breakers = {w1}
    LiveAges = FALSE
    FailsAt = {"create", "readToken", "writeToken", "insertToken", "record", "check", "remove", "break"}
    MaxToken = 2
    MaxGrants = 2
INVARIANTS
    RemoteTypeOK
    OneValidHandle
PROPERTIES
    TokensGrow
    ImplementsWriterLock
CHECK_DEADLOCK FALSE
