SPECIFICATION Spec
CONSTANTS
    Writers = {w1, w2, w3}
    NoOwner = NoOwner
    Breakers = {w1}
    LiveAges = FALSE
    FailsAt = {"body", "writeToken", "record", "check", "remove", "break"}
    MaxToken = 3
INVARIANTS
    LockTypeOK
    OneValidHandle
PROPERTIES
    ImplementsWriterLock
