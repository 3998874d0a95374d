----------------------------- MODULE GraphEngine -----------------------------
(***************************************************************************)
(* The execution engine of pkg/core/graph.go: concurrent calls of          *)
(* ExecuteWithOptions and Resume on one Graph, the goroutines that call    *)
(* Interrupt or Close, and the readers of the per-run streams.             *)
(*                                                                         *)
(* Every step between two lock operations, channel operations or calls of  *)
(* user code is one action (emit's two sends are one). A run's state is    *)
(* abstracted to the set of writes in it, each naming the step, node and   *)
(* attempt that made it; the result stream of a run to the steps in it;    *)
(* the graph-wide stream, whose contents nothing here reads, to its length.*)
(***************************************************************************)
EXTENDS Routing, Integers, FiniteSets

CONSTANTS
    Runs,           \* calls of Execute, ExecuteWithOptions or Resume
    Graph,          \* the graph, a record of module Routing
    Names,          \* names the conditions may answer
    MaxIterations,  \* Config.MaxIterations, 0 for no limit
    Outcomes,       \* node -> what its function may do: "update", "keep" (nil state), "error"
    RetryBudget,    \* node -> RetryPolicy.MaxAttempts
    RetryWaits,     \* whether RetryPolicy.Delay > 0
    RetrySelects,   \* whether RetryPolicy.RetryIf may refuse an error
    Breakpoints,    \* Config.InterruptBefore when the graph is built
    PauseAfter,     \* Config.InterruptAfter
    Durable,        \* saver attached, EnableCheckpoints, a thread ID
    Streaming,      \* Config.EnableStreaming
    GraphCap,       \* capacity of the graph-wide channel (100 in NewGraph)
    Streamed,       \* calls made with ExecuteOptions.Stream
    RunCap,         \* capacity of the channel the caller passes
    Consumers,      \* streamed calls whose caller ranges over the channel
    Cancelable,     \* calls whose context can end (canceled, deadline, Config.Timeout)
    Stoppers,       \* goroutines that call Interrupt once
    Closers,        \* those of them that call Close
    MayReset,       \* whether somebody calls Reset
    NoRun           \* "no run"

Places == Names \cup {NoName, START, END}   \* where a run can be sent

ASSUME EngineAssumption ==
    /\ MaxIterations \in Nat /\ GraphCap \in Nat /\ RunCap \in Nat
    /\ IsFiniteSet(Runs) /\ NoRun \notin Runs
    /\ Graph.nodes \subseteq Names /\ Graph.start \in Places /\ Breakpoints \subseteq Names
    /\ Graph.edges \in Seq([from : Places, to : Places, cond : BOOLEAN])
    /\ \A n \in DOMAIN Graph.tables : \A k \in DOMAIN Graph.tables[n] :
          Graph.tables[n][k] \in Places
    /\ RetryBudget \in [Graph.nodes -> Nat]
    /\ Outcomes \in [Graph.nodes -> SUBSET {"update", "keep", "error"}]
    /\ {RetryWaits, RetrySelects, Durable, Streaming, MayReset} \subseteq BOOLEAN
    /\ Consumers \subseteq Streamed /\ Streamed \subseteq Runs
    /\ Closers \subseteq Stoppers

VARIABLES
    closed,         \* Graph.closed
    chanOpen,       \* whether streamChan is still open
    active,         \* Graph.active: the runs whose handle is registered
    running,        \* Graph.running
    current,        \* Graph.currentState
    history,        \* Graph.executionHistory
    graphLen,       \* results waiting in streamChan
    breakpoints,    \* Config.InterruptBefore; the caller may clear it
    saved,          \* what the StateSaver holds
    pc,             \* where each call stands
    node, step, state, attempt,     \* currentNode, step, state, attempt
    pauses,         \* interruptBefore: the call's own copy of the breakpoints
    pending,        \* result of the last node execution
    out,            \* what the call returns
    ctxDone,        \* calls whose context is done
    signaled,       \* run -> completed nodes when its handle was signaled, or -1
    runBuf, runOpen,        \* the per-run channel
    got, consumed,          \* what its reader received, and whether its range ended
    spc, todo,      \* the stoppers, and the handles each has still to signal
    trace, base, from, latest, \* history: nodes completed, step at the start, run resumed, last registered
    crashed         \* a send on or a close of a closed channel

graphVars  == <<closed, chanOpen, breakpoints>>
register   == <<active, running>>
mirror     == <<current, history, latest>>
local      == <<node, step, state, attempt, pauses, pending, trace, base, from>>
streams    == <<graphLen, runBuf, runOpen>>
readers    == <<got, consumed>>
stoppers   == <<spc, todo>>
vars == <<graphVars, register, mirror, local, streams, readers, stoppers,
          pc, out, saved, ctxDone, signaled, crashed>>

Asks == Answers(Graph, Names)

NoResult == [kind |-> "none", node |-> NoName, step |-> 0]
Result(kind, n, s) == [kind |-> kind, node |-> n, step |-> s]
Paused(r) == out[r].kind \in {"pausedBefore", "pausedAfter"}

Goto(r, label) == pc' = [pc EXCEPT ![r] = label]
Return(r, result) == Goto(r, "returned") /\ out' = [out EXCEPT ![r] = result]
Leave(r, result)  == Goto(r, "unwind") /\ out' = [out EXCEPT ![r] = result]

Init ==
    /\ closed = FALSE /\ chanOpen = TRUE /\ breakpoints = Breakpoints
    /\ active = {} /\ running = 0
    /\ current = [run |-> NoRun, state |-> {}] /\ history = <<>> /\ latest = NoRun
    /\ graphLen = 0 /\ saved = {}
    /\ pc = [r \in Runs |-> "idle"]
    /\ node = [r \in Runs |-> NoName] /\ step = [r \in Runs |-> 0]
    /\ state = [r \in Runs |-> {}] /\ attempt = [r \in Runs |-> 0]
    /\ pauses = [r \in Runs |-> {}]
    /\ pending = [r \in Runs |-> [ok |-> FALSE, state |-> {}]]
    /\ trace = [r \in Runs |-> <<>>] /\ base = [r \in Runs |-> 0]
    /\ from = [r \in Runs |-> NoRun]
    /\ out = [r \in Runs |-> NoResult]
    /\ ctxDone = {} /\ signaled = [r \in Runs |-> -1]
    /\ runBuf = [r \in Runs |-> <<>>] /\ runOpen = [r \in Runs |-> r \in Streamed]
    /\ got = [r \in Runs |-> <<>>] /\ consumed = [r \in Runs |-> FALSE]
    /\ spc = [c \in Stoppers |-> "idle"] /\ todo = [c \in Stoppers |-> {}]
    /\ crashed = FALSE

-----------------------------------------------------------------------------
(* The call. Validate comes first, and an early return runs no defer: the  *)
(* handle is not registered and the caller's Stream stays open.            *)
Call(r) ==
    /\ pc[r] = "idle"
    /\ IF Valid(Graph)
       THEN /\ Goto(r, "snapshot")
            /\ node' = [node EXCEPT ![r] = Graph.start]
            /\ UNCHANGED out
       ELSE Return(r, Result("refused", NoName, 0)) /\ UNCHANGED node
    /\ UNCHANGED <<graphVars, register, mirror, step, state, attempt, pauses, pending, trace,
                   base, from, streams, readers, stoppers, saved, ctxDone, signaled, crashed>>

(* Operators named Bug_... are defects the properties must catch; nothing  *)
(* of the model uses them.                                                 *)
Bug_ResumeForgetsStep(r, q, n, s) ==
    /\ Goto(r, "snapshot")
    /\ node' = [node EXCEPT ![r] = n]
    /\ base' = [base EXCEPT ![r] = s]
    /\ UNCHANGED <<step, out>>

Bug_ResumeRunsNodeAgain(r, q, n, s) ==
    /\ Goto(r, "snapshot")
    /\ node' = [node EXCEPT ![r] = out[q].node]
    /\ step' = [step EXCEPT ![r] = s]
    /\ base' = [base EXCEPT ![r] = s]
    /\ UNCHANGED out

(* Resume of the pause that call q returned, at node n and step s. *)
ResumeAt(r, q, n, s) ==
    /\ Goto(r, "snapshot")
    /\ node' = [node EXCEPT ![r] = n]
    /\ step' = [step EXCEPT ![r] = s]
    /\ base' = [base EXCEPT ![r] = s]
    /\ UNCHANGED out

ResumeAfter(r, q, next) ==
    IF next.err # "none"
    THEN Return(r, Result(next.err, out[q].node, out[q].step)) /\ UNCHANGED <<node, step, base>>
    ELSE IF Terminal(next.to)
    THEN Return(r, Result("ok", out[q].node, out[q].step)) /\ UNCHANGED <<node, step, base>>
    ELSE ResumeAt(r, q, next.to, out[q].step + 1)

Resume(r, q) ==
    /\ pc[r] = "idle" /\ r \notin Streamed
    /\ pc[q] = "returned" /\ Paused(q)
    /\ state' = [state EXCEPT ![r] = state[q]]
    /\ trace' = [trace EXCEPT ![r] = trace[q]]
    /\ from' = [from EXCEPT ![r] = q]
    /\ IF out[q].kind = "pausedBefore"
       THEN ResumeAt(r, q, out[q].node, out[q].step)
       ELSE \E ask \in Asks : ResumeAfter(r, q, RouteFrom(Graph, out[q].node, ask))
    /\ UNCHANGED <<graphVars, register, mirror, attempt, pauses, pending, streams, readers,
                   stoppers, saved, ctxDone, signaled, crashed>>

(* The read-locked section that copies the configuration. *)
Snapshot(r) ==
    /\ pc[r] = "snapshot"
    /\ IF closed
       THEN Return(r, Result("refused", NoName, 0)) /\ UNCHANGED pauses
       ELSE /\ Goto(r, "register")
            /\ pauses' = [pauses EXCEPT ![r] = breakpoints]
            /\ UNCHANGED out
    /\ UNCHANGED <<graphVars, register, mirror, node, step, state, attempt, pending, trace, base,
                   from, streams, readers, stoppers, saved, ctxDone, signaled, crashed>>

Register(r) ==
    /\ pc[r] = "register"
    /\ Goto(r, "loop")
    /\ active' = active \cup {r}
    /\ running' = running + 1
    /\ current' = [run |-> r, state |-> state[r]]
    /\ history' = <<>>
    /\ latest' = r
    /\ UNCHANGED <<graphVars, local, streams, readers, stoppers, out, saved, ctxDone, signaled,
                   crashed>>

-----------------------------------------------------------------------------
(* The loop. The select picks either reason when both are ready. *)
Stop(r) ==
    /\ pc[r] = "loop"
    /\ \/ r \in ctxDone /\ Leave(r, Result("context", node[r], step[r]))
       \/ signaled[r] >= 0 /\ Leave(r, Result("interrupted", node[r], step[r]))
    /\ UNCHANGED <<graphVars, register, mirror, local, streams, readers, stoppers, saved, ctxDone,
                   signaled, crashed>>

Bug_SelectMissesInterrupt(r) == pc[r] = "loop" /\ r \notin ctxDone
Bug_LimitOffByOne(r) == MaxIterations > 0 /\ step[r] > MaxIterations
GoesOn(r) == pc[r] = "loop" /\ r \notin ctxDone /\ signaled[r] < 0
AtLimit(r) == MaxIterations > 0 /\ step[r] >= MaxIterations

HitLimit(r) ==
    /\ GoesOn(r) /\ AtLimit(r)
    /\ Leave(r, Result("limit", node[r], step[r]))
    /\ UNCHANGED <<graphVars, register, mirror, local, streams, readers, stoppers, saved, ctxDone,
                   signaled, crashed>>

PauseBefore(r) ==
    /\ GoesOn(r) /\ ~AtLimit(r) /\ node[r] \in pauses[r]
    /\ Leave(r, Result("pausedBefore", node[r], step[r]))
    /\ UNCHANGED <<graphVars, register, mirror, local, streams, readers, stoppers, saved, ctxDone,
                   signaled, crashed>>

(* executeNodeStep: a name the conditions made up fails without a call. *)
BeginNode(r) ==
    /\ GoesOn(r) /\ ~AtLimit(r) /\ node[r] \notin pauses[r]
    /\ IF node[r] \in Graph.nodes
       THEN /\ Goto(r, "attempt")
            /\ attempt' = [attempt EXCEPT ![r] = 0]
            /\ UNCHANGED pending
       ELSE /\ Goto(r, "record")
            /\ pending' = [pending EXCEPT ![r] = [ok |-> FALSE, state |-> state[r]]]
            /\ UNCHANGED attempt
    /\ UNCHANGED <<graphVars, register, mirror, node, step, state, pauses, trace, base, from,
                   streams, readers, stoppers, out, saved, ctxDone, signaled, crashed>>

Write(r) == [step |-> step[r], node |-> node[r], attempt |-> attempt[r]]

(* The node function works on a clone: a nil state keeps the current one,  *)
(* and whatever a failed attempt did to its clone is gone.                 *)
NodeReturns(r) ==
    /\ pc[r] = "attempt"
    /\ \/ /\ "update" \in Outcomes[node[r]]
          /\ pending' = [pending EXCEPT ![r] = [ok |-> TRUE, state |-> state[r] \cup {Write(r)}]]
       \/ /\ "keep" \in Outcomes[node[r]]
          /\ pending' = [pending EXCEPT ![r] = [ok |-> TRUE, state |-> state[r]]]
    /\ Goto(r, "record")
    /\ UNCHANGED <<graphVars, register, mirror, node, step, state, attempt, pauses, trace, base,
                   from, streams, readers, stoppers, out, saved, ctxDone, signaled, crashed>>

NodeFails(r) ==
    /\ pc[r] = "attempt"
    /\ "error" \in Outcomes[node[r]]
    /\ attempt[r] >= RetryBudget[node[r]] \/ RetrySelects
    /\ pending' = [pending EXCEPT ![r] = [ok |-> FALSE, state |-> state[r]]]
    /\ Goto(r, "record")
    /\ UNCHANGED <<graphVars, register, mirror, node, step, state, attempt, pauses, trace, base,
                   from, streams, readers, stoppers, out, saved, ctxDone, signaled, crashed>>

Bug_FailedAttemptLeaks(r) ==
    /\ pc[r] = "attempt"
    /\ "error" \in Outcomes[node[r]]
    /\ attempt[r] < RetryBudget[node[r]]
    /\ attempt' = [attempt EXCEPT ![r] = @ + 1]
    /\ state' = [state EXCEPT ![r] = @ \cup {Write(r)}]
    /\ IF RetryWaits THEN Goto(r, "delay") ELSE UNCHANGED pc
    /\ UNCHANGED <<graphVars, register, mirror, node, step, pauses, pending, trace, base, from,
                   streams, readers, stoppers, out, saved, ctxDone, signaled, crashed>>

NodeRetries(r) ==
    /\ pc[r] = "attempt"
    /\ "error" \in Outcomes[node[r]]
    /\ attempt[r] < RetryBudget[node[r]]
    /\ attempt' = [attempt EXCEPT ![r] = @ + 1]
    /\ IF RetryWaits THEN Goto(r, "delay") ELSE UNCHANGED pc
    /\ UNCHANGED <<graphVars, register, mirror, node, step, state, pauses, pending, trace, base,
                   from, streams, readers, stoppers, out, saved, ctxDone, signaled, crashed>>

DelayEnds(r) ==
    /\ pc[r] = "delay"
    /\ \/ Goto(r, "attempt") /\ UNCHANGED pending
       \/ /\ r \in ctxDone
          /\ Goto(r, "record")
          /\ pending' = [pending EXCEPT ![r] = [ok |-> FALSE, state |-> state[r]]]
    /\ UNCHANGED <<graphVars, register, mirror, node, step, state, attempt, pauses, trace, base,
                   from, streams, readers, stoppers, out, saved, ctxDone, signaled, crashed>>

Bug_FailureNotRecorded(r) ==
    /\ pc[r] = "record"
    /\ history' = IF pending[r].ok
         THEN Append(history, [run |-> r, node |-> node[r], step |-> step[r], ok |-> TRUE])
         ELSE history
    /\ Goto(r, "emit")
    /\ UNCHANGED <<graphVars, register, current, latest, local, streams, readers, stoppers, out,
                   saved, ctxDone, signaled, crashed>>

Record(r) ==
    /\ pc[r] = "record"
    /\ history' = Append(history,
         [run |-> r, node |-> node[r], step |-> step[r], ok |-> pending[r].ok])
    /\ Goto(r, "emit")
    /\ UNCHANGED <<graphVars, register, current, latest, local, streams, readers, stoppers, out,
                   saved, ctxDone, signaled, crashed>>

Bug_FailureNotStreamed(r) ==
    /\ runBuf' = IF r \in Streamed /\ Len(runBuf[r]) < RunCap /\ pending[r].ok
                 THEN [runBuf EXCEPT ![r] = Append(@, step[r])] ELSE runBuf
    /\ UNCHANGED runOpen

Bug_SendAfterClose ==
    IF Streaming
    THEN /\ graphLen' = IF graphLen < GraphCap THEN graphLen + 1 ELSE graphLen
         /\ crashed' = (crashed \/ ~chanOpen)
    ELSE UNCHANGED <<graphLen, crashed>>

(* Neither send blocks. The graph-wide send holds the read lock, so Close  *)
(* cannot slip between the check of closed and the send.                   *)
SendToRun(r) ==
    /\ runBuf' = IF r \in Streamed /\ Len(runBuf[r]) < RunCap
                 THEN [runBuf EXCEPT ![r] = Append(@, step[r])] ELSE runBuf
    /\ UNCHANGED runOpen

Bug_BlockingSend ==
    IF Streaming /\ ~closed
    THEN graphLen < GraphCap /\ graphLen' = graphLen + 1 /\ crashed' = (crashed \/ ~chanOpen)
    ELSE UNCHANGED <<graphLen, crashed>>

SendToGraph ==
    IF Streaming /\ ~closed
    THEN /\ graphLen' = IF graphLen < GraphCap THEN graphLen + 1 ELSE graphLen
         /\ crashed' = (crashed \/ ~chanOpen)
    ELSE UNCHANGED <<graphLen, crashed>>

Emit(r) ==
    /\ pc[r] = "emit"
    /\ SendToRun(r)
    /\ SendToGraph
    /\ IF pending[r].ok THEN Goto(r, "apply") /\ UNCHANGED out
                        ELSE Leave(r, Result("failed", node[r], step[r]))
    /\ UNCHANGED <<graphVars, register, mirror, local, readers, stoppers, saved, ctxDone, signaled>>

Apply(r) ==
    /\ pc[r] = "apply"
    /\ state' = [state EXCEPT ![r] = pending[r].state]
    /\ trace' = [trace EXCEPT ![r] = Append(@, node[r])]
    /\ current' = [run |-> r, state |-> pending[r].state]
    /\ Goto(r, "save")
    /\ UNCHANGED <<graphVars, register, history, latest, node, step, attempt, pauses, pending, base,
                   from, streams, readers, stoppers, out, saved, ctxDone, signaled, crashed>>

Bug_SaveNamesNextStep(r) ==
    /\ pc[r] = "save"
    /\ \/ /\ Durable
          /\ saved' = saved \cup
               {[run |-> r, node |-> node[r], step |-> step[r] + 1, state |-> state[r]]}
       \/ UNCHANGED saved
    /\ step' = [step EXCEPT ![r] = @ + 1]
    /\ Goto(r, "decide")
    /\ UNCHANGED <<graphVars, register, mirror, node, state, attempt, pauses, pending, trace, base,
                   from, streams, readers, stoppers, out, ctxDone, signaled, crashed>>

(* A checkpoint that cannot be written is logged and the run goes on. *)
Save(r) ==
    /\ pc[r] = "save"
    /\ \/ /\ Durable
          /\ saved' = saved \cup
               {[run |-> r, node |-> node[r], step |-> step[r], state |-> state[r]]}
       \/ UNCHANGED saved
    /\ step' = [step EXCEPT ![r] = @ + 1]
    /\ Goto(r, "decide")
    /\ UNCHANGED <<graphVars, register, mirror, node, state, attempt, pauses, pending, trace, base,
                   from, streams, readers, stoppers, out, ctxDone, signaled, crashed>>

Follow(r, next) ==
    IF next.err # "none"
    THEN Leave(r, Result(next.err, node[r], step[r])) /\ UNCHANGED node
    ELSE IF Terminal(next.to)
    THEN Leave(r, Result("ok", node[r], step[r])) /\ UNCHANGED node
    ELSE Goto(r, "loop") /\ node' = [node EXCEPT ![r] = next.to] /\ UNCHANGED out

Decide(r) ==
    /\ pc[r] = "decide"
    /\ IF node[r] \in PauseAfter
       THEN Leave(r, Result("pausedAfter", node[r], step[r] - 1)) /\ UNCHANGED node
       ELSE IF node[r] \in Graph.ends
       THEN Leave(r, Result("ok", node[r], step[r])) /\ UNCHANGED node
       ELSE \E ask \in Asks : Follow(r, RouteFrom(Graph, node[r], ask))
    /\ UNCHANGED <<graphVars, register, mirror, step, state, attempt, pauses, pending, trace, base,
                   from, streams, readers, stoppers, saved, ctxDone, signaled, crashed>>

Bug_UnwindKeepsHandle(r) ==
    /\ pc[r] = "unwind"
    /\ running' = IF running > 0 THEN running - 1 ELSE running
    /\ runOpen' = [runOpen EXCEPT ![r] = FALSE]
    /\ Goto(r, "returned")
    /\ UNCHANGED <<graphVars, active, mirror, local, graphLen, runBuf, readers, stoppers, out, saved,
                   ctxDone, signaled, crashed>>

Bug_StreamClosedOnlyOnSuccess(r) ==
    /\ pc[r] = "unwind"
    /\ active' = active \ {r}
    /\ running' = running - 1
    /\ runOpen' = [runOpen EXCEPT ![r] = @ /\ out[r].kind # "ok"]
    /\ Goto(r, "returned")
    /\ UNCHANGED <<graphVars, mirror, local, graphLen, runBuf, readers, stoppers, out, saved,
                   ctxDone, signaled, crashed>>

(* The deferred function: deregister, then close the caller's Stream. *)
Unwind(r) ==
    /\ pc[r] = "unwind"
    /\ active' = active \ {r}
    /\ running' = IF running > 0 THEN running - 1 ELSE running
    /\ runOpen' = [runOpen EXCEPT ![r] = FALSE]
    /\ crashed' = (crashed \/ (r \in Streamed /\ ~runOpen[r]))
    /\ Goto(r, "returned")
    /\ UNCHANGED <<graphVars, mirror, local, graphLen, runBuf, readers, stoppers, out, saved,
                   ctxDone, signaled>>

-----------------------------------------------------------------------------
(* The environment of a run. *)
EndContext(r) ==
    /\ r \in Cancelable \ ctxDone /\ pc[r] # "returned"
    /\ ctxDone' = ctxDone \cup {r}
    /\ UNCHANGED <<graphVars, register, mirror, local, streams, readers, stoppers, pc, out, saved,
                   signaled, crashed>>

ClearBreakpoints ==
    /\ breakpoints # {} /\ breakpoints' = {}
    /\ UNCHANGED <<closed, chanOpen, register, mirror, local, streams, readers, stoppers, pc, out,
                   saved, ctxDone, signaled, crashed>>

(* Reset empties the mirror, even under the runs that are filling it. *)
Reset ==
    /\ MayReset /\ latest # NoRun
    /\ current' = [run |-> NoRun, state |-> {}] /\ history' = <<>> /\ latest' = NoRun
    /\ UNCHANGED <<graphVars, register, local, streams, readers, stoppers, pc, out, saved,
                   ctxDone, signaled, crashed>>

(* The reader of a run's stream, and the reader of Graph.Stream(). *)
Receive(r) ==
    /\ r \in Consumers /\ runBuf[r] # <<>>
    /\ got' = [got EXCEPT ![r] = Append(@, Head(runBuf[r]))]
    /\ runBuf' = [runBuf EXCEPT ![r] = Tail(@)]
    /\ UNCHANGED <<graphVars, register, mirror, local, graphLen, runOpen, consumed, stoppers, pc,
                   out, saved, ctxDone, signaled, crashed>>

EndRange(r) ==
    /\ r \in Consumers /\ ~consumed[r] /\ runBuf[r] = <<>> /\ ~runOpen[r]
    /\ consumed' = [consumed EXCEPT ![r] = TRUE]
    /\ UNCHANGED <<graphVars, register, mirror, local, streams, got, stoppers, pc, out, saved,
                   ctxDone, signaled, crashed>>

DrainGraph ==
    /\ graphLen > 0 /\ graphLen' = graphLen - 1
    /\ UNCHANGED <<graphVars, register, mirror, local, runBuf, runOpen, readers, stoppers, pc, out,
                   saved, ctxDone, signaled, crashed>>

(* Interrupt copies the registered handles under the read lock and signals *)
(* them one by one without it; Close then closes the graph, once.          *)
CopyHandles(c) ==
    /\ spc[c] = "idle"
    /\ todo' = [todo EXCEPT ![c] = active]
    /\ spc' = [spc EXCEPT ![c] = "signal"]
    /\ UNCHANGED <<graphVars, register, mirror, local, streams, readers, pc, out, saved, ctxDone,
                   signaled, crashed>>

Signal(c, r) ==
    /\ spc[c] = "signal" /\ r \in todo[c]
    /\ todo' = [todo EXCEPT ![c] = @ \ {r}]
    /\ signaled' = IF signaled[r] < 0 THEN [signaled EXCEPT ![r] = Len(trace[r])] ELSE signaled
    /\ UNCHANGED <<graphVars, register, mirror, local, streams, readers, spc, pc, out, saved,
                   ctxDone, crashed>>

EndInterrupt(c) ==
    /\ spc[c] = "signal" /\ todo[c] = {}
    /\ spc' = [spc EXCEPT ![c] = IF c \in Closers THEN "close" ELSE "done"]
    /\ UNCHANGED <<graphVars, register, mirror, local, streams, readers, todo, pc, out, saved,
                   ctxDone, signaled, crashed>>

CloseOnce(c) ==
    /\ spc[c] = "close"
    /\ spc' = [spc EXCEPT ![c] = "done"]
    /\ IF closed THEN UNCHANGED <<closed, chanOpen, crashed>>
       ELSE closed' = TRUE /\ chanOpen' = FALSE /\ crashed' = (crashed \/ ~chanOpen)
    /\ UNCHANGED <<breakpoints, register, mirror, local, streams, readers, todo, pc, out, saved,
                   ctxDone, signaled>>

-----------------------------------------------------------------------------
Step(r) ==
    \/ Snapshot(r) \/ Register(r)
    \/ Stop(r) \/ HitLimit(r) \/ PauseBefore(r) \/ BeginNode(r)
    \/ NodeReturns(r) \/ NodeFails(r) \/ NodeRetries(r) \/ DelayEnds(r)
    \/ Record(r) \/ Emit(r) \/ Apply(r) \/ Save(r) \/ Decide(r) \/ Unwind(r)

Stopper(c) ==
    CopyHandles(c) \/ (\E r \in Runs : Signal(c, r)) \/ EndInterrupt(c) \/ CloseOnce(c)

Next ==
    \/ \E r \in Runs : Call(r) \/ (\E q \in Runs : Resume(r, q)) \/ Step(r) \/ EndContext(r)
    \/ \E r \in Runs : Receive(r) \/ EndRange(r)
    \/ \E c \in Stoppers : Stopper(c)
    \/ ClearBreakpoints \/ Reset \/ DrainGraph

Spec == Init /\ [][Next]_vars

(* The scheduler runs every goroutine that can take a step, node functions *)
(* return, and a caller that opened a stream keeps reading it. No caller   *)
(* has to call, to interrupt, to cancel or to read the graph-wide stream.  *)
Fairness ==
    /\ \A r \in Runs : WF_vars(Step(r)) /\ WF_vars(Receive(r) \/ EndRange(r))
    /\ \A c \in Stoppers : WF_vars((\E r \in Runs : Signal(c, r)) \/ EndInterrupt(c) \/ CloseOnce(c))

FairSpec == Spec /\ Fairness

-----------------------------------------------------------------------------
InFlight == {"loop", "attempt", "delay", "record", "emit", "apply", "save", "decide", "unwind"}
Labels   == {"idle", "snapshot", "register", "returned"} \cup InFlight
Kinds    == {"none", "refused", "ok", "limit", "noRoute", "condition", "failed", "interrupted",
             "context", "pausedBefore", "pausedAfter"}
Writes   == [step : Nat, node : Places, attempt : Nat]
Entries  == [run : Runs, node : Places, step : Nat, ok : BOOLEAN]

TypeGraph ==
    /\ closed \in BOOLEAN /\ chanOpen \in BOOLEAN /\ crashed \in BOOLEAN
    /\ active \subseteq Runs /\ running \in Nat
    /\ latest \in Runs \cup {NoRun}
    /\ current \in [run : Runs \cup {NoRun}, state : SUBSET Writes]
    /\ history \in Seq(Entries)
    /\ graphLen \in 0 .. GraphCap
    /\ breakpoints \subseteq Names
    /\ saved \subseteq [run : Runs, node : Places, step : Nat, state : SUBSET Writes]

TypeRuns ==
    /\ pc \in [Runs -> Labels]
    /\ node \in [Runs -> Places] /\ step \in [Runs -> Nat] /\ attempt \in [Runs -> Nat]
    /\ state \in [Runs -> SUBSET Writes]
    /\ pauses \in [Runs -> SUBSET Names]
    /\ pending \in [Runs -> [ok : BOOLEAN, state : SUBSET Writes]]
    /\ out \in [Runs -> [kind : Kinds, node : Places, step : Nat]]
    /\ trace \in [Runs -> Seq(Places)] /\ base \in [Runs -> Nat]
    /\ from \in [Runs -> Runs \cup {NoRun}]

TypeOthers ==
    /\ ctxDone \subseteq Runs
    /\ signaled \in [Runs -> Nat \cup {-1}]
    /\ runBuf \in [Runs -> Seq(Nat)] /\ runOpen \in [Runs -> BOOLEAN]
    /\ got \in [Runs -> Seq(Nat)] /\ consumed \in [Runs -> BOOLEAN]
    /\ spc \in [Stoppers -> {"idle", "signal", "close", "done"}]
    /\ todo \in [Stoppers -> SUBSET Runs]

TypeOK == TypeGraph /\ TypeRuns /\ TypeOthers

(* IsRunning tells the truth and Interrupt reaches every run: the handle   *)
(* of a call is registered exactly while it is in its loop, whichever way  *)
(* it leaves, and the counter agrees with the handles.                     *)
HandlesMatchRuns ==
    /\ running = Cardinality(active)
    /\ \A r \in Runs : r \in active <=> pc[r] \in InFlight

(* Nobody sends on or closes a closed channel, however Close, emit and the *)
(* deferred close of the per-run stream interleave: each would panic.      *)
NeverCrashes == ~crashed

(* "A partially-mutated state from a failed attempt cannot leak into the   *)
(* retry": a run's state holds at most one write per completed step, made  *)
(* by the node that the step ran.                                          *)
IsolatedAttempts ==
    \A r \in Runs : \A w \in state[r] :
        /\ w.step < Len(trace[r]) /\ trace[r][w.step + 1] = w.node
        /\ \A v \in state[r] : v.step = w.step => v = w

(* A checkpoint stands for the run at the end of the step it names: the    *)
(* node is the one that ran, and the state has everything written up to    *)
(* that step and nothing later, so execution can restart from it.          *)
CheckpointsReplay ==
    \A c \in saved :
        /\ c.step < Len(trace[c.run]) /\ c.node = trace[c.run][c.step + 1]
        /\ c.state = {w \in state[c.run] : w.step <= c.step}

(* Interrupt stops a run after the node in flight: once its handle is      *)
(* signaled a run completes one more node at most, retries included.       *)
InterruptIsPrompt ==
    \A r \in Runs : signaled[r] >= 0 => Len(trace[r]) <= signaled[r] + 1

(* The results a call produced: its completed nodes and the failing one.   *)
ResultCount(r) == Len(trace[r]) - base[r] + (IF out[r].kind = "failed" THEN 1 ELSE 0)

(* GetExecutionHistory, once the most recent run is over, holds all of its *)
(* steps in order, the failing one included, among those of older runs     *)
(* that were still in their loops.                                         *)
EntriesOf(r) == {i \in DOMAIN history : history[i].run = r}

LatestRunRecorded ==
    latest # NoRun /\ pc[latest] = "returned" =>
        LET mine == EntriesOf(latest)
            b    == base[latest]
        IN  /\ {history[i].step : i \in mine} = b .. (b + ResultCount(latest) - 1)
            /\ \A i, j \in mine : i < j => history[i].step < history[j].step
            /\ \A i \in mine :
                 /\ history[i].ok <=> history[i].step < Len(trace[latest])
                 /\ history[i].ok => history[i].node = trace[latest][history[i].step + 1]

(* A reader that ranges over a per-run stream with room for the whole run  *)
(* has received every step once and in order when its range ends.          *)
DeliveredInFull ==
    \A r \in Consumers :
        consumed[r] => got[r] = [i \in 1 .. ResultCount(r) |-> base[r] + i - 1]

(* Every call that began returns: no lock, full channel, retry, interrupt,  *)
(* slow or absent reader keeps a run from ending. And the range over its    *)
(* stream ends, however it ended. (Unless it was refused before it began:   *)
(* StreamClosedOnReturn.)                                                   *)
EveryCallReturns ==
    <>[](\A r \in Runs :
           \/ pc[r] = "idle"
           \/ pc[r] = "returned" /\ (r \in Consumers /\ out[r].kind # "refused" => consumed[r]))

-----------------------------------------------------------------------------
(* What the engine promises its callers: module RunContract. An end node   *)
(* is left only by resuming a pause after it, which routes onward.         *)
Arcs ==
    {arc \in Graph.nodes \X Graph.nodes :
        /\ arc[1] \in Graph.ends => arc[1] \in PauseAfter
        /\ \E ask \in Asks : RouteFrom(Graph, arc[1], ask) = Route(arc[2])}

Exits ==
    Graph.ends \cup
    {n \in Graph.nodes : \E ask \in Asks :
        LET next == RouteFrom(Graph, n, ask) IN next.err = "none" /\ Terminal(next.to)}

Phase == [r \in Runs |-> IF pc[r] = "idle" THEN "idle"
                         ELSE IF pc[r] = "returned" THEN "over" ELSE "running"]
End   == [r \in Runs |-> IF pc[r] = "returned" THEN out[r].kind ELSE "none"]

Contract == INSTANCE RunContract
              WITH Nodes <- Graph.nodes, Entry <- Graph.start, Limit <- MaxIterations,
                   phase <- Phase, path <- trace, end <- End

(* Concurrent calls, interrupts, retries and resumption leave every call   *)
(* the run it would be on its own: the engine implements the contract.     *)
Implements == Contract!Spec

(* A logical run, the runs it resumes included, executes a walk of the     *)
(* graph: a resumed run neither repeats nor skips a node.                  *)
TraceIsWalk == Contract!PathsAreWalks

(* "MaxIterations bounds the number of node executions in a single run",   *)
(* and resuming does not start the count again.                            *)
WithinRecursionLimit == Contract!WithinLimit

(* Both: what a caller sees of a run, however often it was paused, is a     *)
(* walk of the graph within its limit.                                      *)
RunsAreWalks == TraceIsWalk /\ WithinRecursionLimit

-----------------------------------------------------------------------------
(* Statements of the comments, documents and tests that the code does not  *)
(* keep; each is the one property of a run that shows how.                 *)

(* ExecuteOptions.Stream "is closed when the run finishes", "so consumers  *)
(* are never left waiting": the early returns leave it open.               *)
StreamClosedOnReturn == \A r \in Consumers : pc[r] = "returned" ~> consumed[r]

(* Close: "in-flight runs are interrupted first"; a run that registers     *)
(* after Close copied the handles is never signaled.                       *)
CloseInterruptsRuns ==
    \A c \in Closers : spc[c] = "done" => \A r \in active : signaled[r] >= 0
==============================================================================
