\* Graphs, states and providers.
SPECIFICATION MCSpec
CONSTANTS
    Names <- MCNames
    Tables <- MCTables
    MaxEdges = 2
    MaxHops = 2
    Nil = Nil
    Graphs = {g1, g2, g3}
    Adders = {d1, d2}
    MaxAdds = 3
    MaxNestedRuns = 3
    MaxRuns = 2
    MaxAttempts = 3
    MaxSteps = 3
    MaxEdits = 2
    HistorySize = 1
    MaxCount = 2
    MaxRestarts = 2
    MaxCalls = 2
    StepNodes <- MCNodes
    Channels <- MCSchema
    StepUpdates <- MCUpdates
    IdLists <- MCIdLists
    StepInputs <- MCInputs
    Callers = {c1, c2}
    None = None
    Nothing = Nothing
    Calls <- MCCalls
    Replies <- MCReplies
    Failures <- MCFailures
    ConnectionNames = {n1}
    Clients = {c1, c2}
    Configs <- MCCheckpointers
    Documents = {"d"}
    MaxPools = 2
    NestedNodes <- MCNestedNodes
    Input = {"note"}
    Output = {"log"}
    Namespace = Nil
    ParentSchema <- MCParentSchema
    Threads = {t1, t2}
SYMMETRY Symmetry
INVARIANTS
    ValidGraphNeverLost
    RoutesInOrder
    MergeIsOrdered
    NestingIsSound
    CounterBoundsLoop
    ProvidersAreSound
    NothingIsLeaked
PROPERTIES
    EarlierResultsStay
    AttemptsAreJustified
CHECK_DEADLOCK FALSE
