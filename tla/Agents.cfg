\* Agents alone, in teams, with sub-agents, files and people.
SPECIFICATION MCSpec
CONSTANTS
    Runs = {r1, r2}
    Replies <- MCReplies
    InterruptOn = {"pay"}
    MaxIterations = 2
    RecursionLimit = 7
    MaxMessages = 4
    MaxCalls = 4
    MaxSeeds = 1
    Callers = {c1, c2}
    None = None
    People = {c1, c2}
    Calls <- MCCalls
    Decisions <- MCDecisions
    MaxInterrupts = 2
INVARIANTS
    BusyWhileRunning
    RequestsAreSound
    GuardedToolsWait
    NeverAtLimit
    DecidedOnce
    SurroundingsAreSound
PROPERTIES
    CallsReturn
CHECK_DEADLOCK FALSE
