\* A streamed call on a graph that another goroutine closes.
SPECIFICATION FairSpec
CONSTANTS
    Runs = {r1}
    NoRun = NoRun
    Graph <- LineGraph
    Names <- LineNames
    MaxIterations = 2
    Outcomes <- MCMayFail
    RetryBudget <- MCNoRetry
    RetryWaits = FALSE
    RetrySelects = FALSE
    Breakpoints <- NoNodes
    PauseAfter <- NoNodes
    Durable = FALSE
    Streaming = FALSE
    GraphCap = 1
    Streamed = {r1}
    RunCap = 2
    Consumers = {r1}
    Cancelable = {}
    Stoppers = {s1}
    Closers = {s1}
    MayReset = FALSE
PROPERTIES
    StreamClosedOnReturn
CHECK_DEADLOCK FALSE
