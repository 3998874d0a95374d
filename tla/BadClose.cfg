\* Close while a call is between its two locked sections.
SPECIFICATION Spec
CONSTANTS
    Runs = {r1}
    NoRun = NoRun
    Graph <- LineGraph
    Names <- LineNames
    MaxIterations = 2
    Outcomes <- MCMayFail
    RetryBudget <- MCNoRetry
    RetryWaits = FALSE
    RetrySelects = FALSE
    Breakpoints <- NoNodes
    PauseAfter <- NoNodes
    Durable = FALSE
    Streaming = FALSE
    GraphCap = 1
    Streamed = {}
    RunCap = 1
    Consumers = {}
    Cancelable = {}
    Stoppers = {s1}
    Closers = {s1}
    MayReset = FALSE
INVARIANTS
    CloseInterruptsRuns
CHECK_DEADLOCK FALSE
