\* Two concurrent calls on a cyclic graph with a failing node, one Interrupt.
SPECIFICATION Spec
CONSTANTS
    Runs = {r1, r2}
    NoRun = NoRun
    Graph <- LoopGraph
    Names <- LoopNames
    MaxIterations = 2
    Outcomes <- MCMayFail
    RetryBudget <- MCNoRetry
    RetryWaits = FALSE
    RetrySelects = FALSE
    Breakpoints <- NoNodes
    PauseAfter <- NoNodes
    Durable = FALSE
    Streaming = FALSE
    GraphCap = 1
    Streamed = {}
    RunCap = 1
    Consumers = {}
    Cancelable = {}
    Stoppers = {s1}
    Closers = {}
    MayReset = FALSE
SYMMETRY RunSymmetry
INVARIANTS
    HandlesMatchRuns
    InterruptIsPrompt
    LatestRunRecorded
CHECK_DEADLOCK FALSE
