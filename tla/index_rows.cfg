SPECIFICATION Spec
CONSTANTS
    Paths <- PathOrder
    InitialGraph <- Graph
    BindingsOf <- SelectBindings
    ValueOf <- ExpressionValue
    Queries <- MCQueries
    Updates <- MCUpdates
    Edits <- MCEdits
    Constraints <- MCConstraints
    Properties <- TypedProperties
    Definitions <- SoundDefinitions
    Mode = "configured"
    Consistency = "strict"
    MaxTransactions = 3
INVARIANT
    IndexedMatchesAreExact
