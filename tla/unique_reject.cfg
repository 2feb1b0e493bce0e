SPECIFICATION Spec
CONSTANTS
    Paths <- PathOrder
    InitialGraph <- Graph
    BindingsOf <- SelectBindings
    ValueOf <- ExpressionValue
    Queries <- MCQueries
    Updates <- MCUpdates
    Edits <- MCEdits
    Constraints = {}
    Properties <- SoundProperties
    Definitions <- UniqueX
    Mode = "configured"
    Consistency = "strict"
    MaxTransactions = 3
INVARIANT
    RejectedCommitsLeaveNothing
