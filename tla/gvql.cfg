SPECIFICATION Spec
CONSTANTS
    Paths <- PathOrder
    InitialGraph <- Graph
    BindingsOf <- SelectBindings
    ValueOf <- ExpressionValue
    Queries <- MCQueries
    Updates <- MCUpdates
    Edits <- MCEdits
    Constraints <- MCConstraints
    Properties <- SoundProperties
    Definitions <- SoundDefinitions
    Mode = "configured"
    Consistency = "strict"
    MaxTransactions = 3
INVARIANTS
    GvqlTypeOK
    StoredGraphIsClosed
    
    PagesAndGroupsAddUp
    MergeIsIdempotent
    PreviewNamesWhatChanges
    SubtreeIsTheBoundedReach
PROPERTIES
    CommittedUpdatesAreWhole
    CommitsMeetConstraints
    StoreReopens
