\* Pauses before and after draft, resumed by two more calls.
SPECIFICATION Spec
CONSTANTS
    Runs = {r1, r2, r3}
    NoRun = NoRun
    Graph <- ReviewGraph
    Names <- ReviewNames
    MaxIterations = 2
    Outcomes <- MCReviewUpdates
    RetryBudget <- MCReviewNoRetry
    RetryWaits = FALSE
    RetrySelects = FALSE
    Breakpoints <- DraftOnly
    PauseAfter <- DraftOnly
    Durable = TRUE
    Streaming = FALSE
    GraphCap = 1
    Streamed = {}
    RunCap = 1
    Consumers = {}
    Cancelable = {}
    Stoppers = {}
    Closers = {}
    MayReset = TRUE
SYMMETRY RunSymmetry
INVARIANTS
    CheckpointsReplay
    RunsAreWalks
PROPERTIES
    Implements
CHECK_DEADLOCK FALSE
