\* A run that asks for a tool that waits for a person.
SPECIFICATION MCSpec
CONSTANTS
    Runs = {r1}
    Replies <- OneTool
    InterruptOn = {"pay"}
    MaxIterations = 1
    RecursionLimit = 4
    MaxMessages = 0
    MaxCalls = 1
    MaxSeeds = 0
    Callers = {c1}
    None = None
    People = {c1}
    Calls <- MCCalls
    Decisions <- MCDecisions
    MaxInterrupts = 1
INVARIANTS
    InterruptIsReported
CHECK_DEADLOCK FALSE
