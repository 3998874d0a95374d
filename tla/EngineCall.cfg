\* One call: retries with a delay, a context that ends, checkpoints, its stream
\* and the graph's, and a goroutine that closes the graph.
SPECIFICATION FairSpec
CONSTANTS
    Runs = {r1}
    NoRun = NoRun
    Graph <- LoopGraph
    Names <- LoopNames
    MaxIterations = 2
    Outcomes <- MCFlaky
    RetryBudget <- MCOneRetry
    RetryWaits = TRUE
    RetrySelects = TRUE
    Breakpoints <- NoNodes
    PauseAfter <- NoNodes
    Durable = TRUE
    Streaming = TRUE
    GraphCap = 1
    Streamed = {r1}
    RunCap = 2
    Consumers = {r1}
    Cancelable = {r1}
    Stoppers = {s1}
    Closers = {s1}
    MayReset = FALSE
INVARIANTS
    IsolatedAttempts
    NeverCrashes
    DeliveredInFull
PROPERTIES
    EveryCallReturns
CHECK_DEADLOCK FALSE
