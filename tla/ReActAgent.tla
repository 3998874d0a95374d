------------------------------ MODULE ReActAgent ------------------------------
(***************************************************************************)
(* One agent of type react (pkg/agent/agent.go) that several goroutines    *)
(* call with ExecuteThread: the flag that admits one run at a time, the    *)
(* conversation all turns share, the loop reason - act - observe over the  *)
(* engine, tools that run in parallel or wait for a person, and runs       *)
(* seeded to go on where an earlier one stopped. Routing is that of module *)
(* Routing on the graph of buildReActGraph; the engine runs one completed  *)
(* node after another, as RunContract promises.                            *)
(*                                                                         *)
(* A tool call is [key, tool, id]: key tells calls apart in the model, id  *)
(* is the ID on the wire, NoID when the model behind the API sent none.    *)
(* A message is [role, ref, calls]: ref is the call that a tool message    *)
(* answers, or the run that a user message came from.                      *)
(***************************************************************************)
EXTENDS Routing, FiniteSets, SequencesExt

CONSTANTS
    Runs,               \* calls of ExecuteThread
    Replies,            \* what the LLM may ask for: sequences of tool names
    InterruptOn,        \* tools that wait for a person
    MaxIterations,      \* of the agent
    RecursionLimit,     \* MaxIterations of its graph
    MaxMessages,        \* of SummarizationMiddleware, 0: not installed
    MaxCalls, MaxSeeds  \* bounds of the exploration

ASSUME AgentAssumption ==
    /\ MaxIterations \in Nat \ {0} /\ RecursionLimit \in Nat \ {0}
    /\ MaxMessages \in Nat /\ MaxCalls \in Nat /\ MaxSeeds \in Nat
    /\ Replies \subseteq Seq(STRING)

NoID == 0

VARIABLES
    isRunning, resumeSeeded, currentIteration, pendingToolCalls,
    conversation,       \* ConversationHistory
    executionHistory,   \* the runs recorded
    graphClosed,        \* whether somebody closed the agent's graph
    pc, node, state,    \* of each run: label, graph node, graph state
    path,               \* the nodes the engine ran
    start,              \* the iteration the run began with
    question,           \* whether its input is in the conversation
    out,                \* how it ended
    ran,                \* the calls whose tool was executed by now
    rerun,              \* whether a tool was executed twice for one call
    calls,              \* calls the LLM made so far
    resumes, seeds      \* runs that resumed, seeds given

agentVars == <<isRunning, resumeSeeded, currentIteration, pendingToolCalls>>
runVars   == <<node, state, path, start, question>>
ghosts    == <<ran, rerun, calls, resumes, seeds>>
vars == <<agentVars, conversation, executionHistory, graphClosed, pc, runVars, out, ghosts>>

Labels == {"idle", "before", "prepare", "start", "node", "tools", "waiting", "collect", "returned"}
InFlight == Labels \ {"idle", "returned"}
Outcomes == {"none", "busy", "middleware", "ok", "noRoute", "limit", "failed"}

-----------------------------------------------------------------------------
(* The graph and its conditions: shouldAct, shouldObserve and              *)
(* shouldContinueReasoning.                                                *)
ReActGraph ==
    [nodes |-> {"reason", "act", "observe", "finalize"}, start |-> "reason",
     ends |-> {"finalize"}, tables |-> <<>>, broken |-> FALSE,
     edges |-> <<Edge("reason", "act", TRUE), Edge("reason", "finalize", TRUE),
                 Edge("act", "observe", TRUE),
                 Edge("observe", "reason", TRUE), Edge("observe", "finalize", TRUE)>>]

Bug_OneRoundMore(n, s) ==
    CASE n = "reason"  -> IF s.pending # <<>> THEN "act" ELSE "finalize"
      [] n = "act"     -> IF s.interrupt THEN NoName ELSE "observe"
      [] n = "observe" -> IF s.iteration > MaxIterations THEN "finalize" ELSE "reason"

Answer(n, s) ==
    CASE n = "reason"  -> IF s.pending # <<>> THEN "act" ELSE "finalize"
      [] n = "act"     -> IF s.interrupt THEN NoName ELSE "observe"
      [] n = "observe" -> IF s.iteration >= MaxIterations THEN "finalize" ELSE "reason"

(* All edges that leave a node share one condition. *)
NextNode(n, s) == RouteFrom(ReActGraph, n, [i \in 0 .. 5 |-> Answer(n, s)])

-----------------------------------------------------------------------------
(* Messages. *)
Msg(role, ref, cs) == [role |-> role, ref |-> ref, calls |-> cs]
IDs(m) == {m.calls[i].id : i \in DOMAIN m.calls} \ {NoID}
Asks(m) == m.role = "assistant" /\ m.calls # <<>>

(* The tool messages that stand directly after message i, and their last.  *)
AnsweredBy(ms, i) ==
    {j \in DOMAIN ms : j > i /\ \A k \in (i + 1) .. j : ms[k].role = "tool"}
Answered(ms, i) == {ms[j].ref : j \in AnsweredBy(ms, i)}

Bug_StubsForLastOnly(ms) ==
    IF ms # <<>> /\ Asks(ms[Len(ms)])
    THEN ms \o SetToSeq({Msg("tool", id, <<>>) : id \in IDs(ms[Len(ms)])})
    ELSE ms

(* sanitizeToolPairing: a stub for every call left unanswered, after the   *)
(* answers there are. The order of the stubs is that of a Go map.          *)
SanitizeToolPairing(ms) ==
    LET asker(i) == {a \in DOMAIN ms : Asks(ms[a]) /\ i = a + Cardinality(AnsweredBy(ms, a))}
        stubs(i) == UNION {{Msg("tool", id, <<>>) : id \in IDs(ms[a]) \ Answered(ms, a)} :
                              a \in asker(i)}
    IN  FlattenSeq([i \in DOMAIN ms |-> <<ms[i]>> \o SetToSeq(stubs(i))])

(* ensureAssistantToolCallIDs: the IDs given to cs go to the latest        *)
(* assistant message that made calls.                                      *)
WithIDs(ms, cs) ==
    LET asking == {i \in DOMAIN ms : Asks(ms[i])}
    IN  IF asking = {} THEN ms
        ELSE LET a == CHOOSE i \in asking : \A j \in asking : j <= i
             IN  [ms EXCEPT ![a].calls =
                    [j \in DOMAIN @ |-> IF j \in DOMAIN cs THEN [@[j] EXCEPT !.id = cs[j].id]
                                                           ELSE @[j]]]

(* The calls of an LLM's reply: fresh, with or without IDs.                *)
CallsOf(reply, given) ==
    [i \in DOMAIN reply |->
        [key |-> calls + i, tool |-> reply[i], id |-> IF given THEN calls + i ELSE NoID]]

-----------------------------------------------------------------------------
NewState(iteration, pending) ==
    [iteration |-> iteration, pending |-> pending, interrupt |-> FALSE, answered |-> FALSE,
     done |-> {}]

Init ==
    /\ isRunning = FALSE /\ resumeSeeded = FALSE /\ currentIteration = 0
    /\ pendingToolCalls = <<>> /\ conversation = <<>> /\ executionHistory = <<>>
    /\ graphClosed = FALSE
    /\ pc = [r \in Runs |-> "idle"] /\ node = [r \in Runs |-> "reason"]
    /\ state = [r \in Runs |-> NewState(0, <<>>)]
    /\ path = [r \in Runs |-> <<>>] /\ start = [r \in Runs |-> 0]
    /\ question = [r \in Runs |-> FALSE] /\ out = [r \in Runs |-> "none"]
    /\ ran = {} /\ rerun = FALSE /\ calls = 0 /\ resumes = 0 /\ seeds = 0

Goto(r, label) == pc' = [pc EXCEPT ![r] = label]

(* The return of ExecuteThread: its locals are gone. *)
Forget(r) ==
    /\ node' = [node EXCEPT ![r] = "reason"]
    /\ state' = [state EXCEPT ![r] = NewState(0, <<>>)]
    /\ path' = [path EXCEPT ![r] = <<>>]
    /\ start' = [start EXCEPT ![r] = 0]
    /\ question' = [question EXCEPT ![r] = FALSE]
    /\ Goto(r, "returned")

Return(r) == isRunning' = FALSE /\ Forget(r)

Bug_ResumeInferredFromHistory(r) ==
    /\ pc[r] = "idle"
    /\ IF isRunning
       THEN /\ out' = [out EXCEPT ![r] = "busy"] /\ Goto(r, "returned")
            /\ UNCHANGED <<agentVars, start, question, resumes>>
       ELSE /\ isRunning' = TRUE /\ resumeSeeded' = FALSE
            /\ currentIteration' = currentIteration
            /\ start' = [start EXCEPT ![r] = currentIteration]
            /\ question' = [question EXCEPT ![r] = conversation = <<>>]
            /\ resumes' = IF conversation = <<>> THEN resumes ELSE resumes + 1
            /\ Goto(r, "before")
            /\ UNCHANGED <<pendingToolCalls, out>>
    /\ UNCHANGED <<conversation, executionHistory, graphClosed, node, state, path, ran, rerun,
                   calls, seeds>>

(* ExecuteThread up to its first unlock. Until Prepare, question tells     *)
(* that the run is not a resumption.                                       *)
Begin(r) ==
    /\ pc[r] = "idle"
    /\ IF isRunning
       THEN /\ out' = [out EXCEPT ![r] = "busy"] /\ Goto(r, "returned")
            /\ UNCHANGED <<agentVars, start, question, resumes>>
       ELSE /\ isRunning' = TRUE /\ resumeSeeded' = FALSE
            /\ currentIteration' = IF resumeSeeded THEN currentIteration ELSE 0
            /\ start' = [start EXCEPT ![r] = currentIteration']
            /\ question' = [question EXCEPT ![r] = ~resumeSeeded]
            /\ resumes' = IF resumeSeeded THEN resumes + 1 ELSE resumes
            /\ Goto(r, "before")
            /\ UNCHANGED <<pendingToolCalls, out>>
    /\ UNCHANGED <<conversation, executionHistory, graphClosed, node, state, path, ran, rerun,
                   calls, seeds>>

Bug_RefusalKeepsAgent(r) ==
    /\ pc[r] = "before"
    /\ out' = [out EXCEPT ![r] = "middleware"]
    /\ Forget(r)
    /\ UNCHANGED <<agentVars, conversation, executionHistory, graphClosed, ghosts>>

(* BeforeRun of the middleware may refuse the run. *)
BeforeRunFails(r) ==
    /\ pc[r] = "before"
    /\ out' = [out EXCEPT ![r] = "middleware"]
    /\ Return(r)
    /\ UNCHANGED <<resumeSeeded, currentIteration, pendingToolCalls, conversation,
                   executionHistory, graphClosed, ghosts>>

(* SummarizationMiddleware.BeforeRun: a summary and the most recent half   *)
(* of a long conversation; a conversation it cannot summarize stays.       *)
Summarized ==
    LET keep == IF MaxMessages >= 2 THEN MaxMessages \div 2 ELSE 1
    IN  <<Msg("system", NoID, <<>>)>>
          \o SubSeq(conversation, Len(conversation) - keep + 1, Len(conversation))

BeforeRun(r) ==
    /\ pc[r] = "before"
    /\ \/ UNCHANGED conversation
       \/ /\ MaxMessages > 0 /\ Len(conversation) > MaxMessages
          /\ conversation' = Summarized
    /\ Goto(r, "prepare")
    /\ UNCHANGED <<agentVars, executionHistory, graphClosed, runVars, out, ghosts>>

(* The user message, unless the run resumes or its input is blank, and the *)
(* initial state of the graph, with the calls a seed left.                 *)
Prepare(r) ==
    /\ pc[r] = "prepare"
    /\ \E blank \in BOOLEAN :
          LET new == question[r] /\ ~blank
          IN  /\ question' = [question EXCEPT ![r] = new]
              /\ conversation' = IF new THEN Append(conversation, Msg("user", r, <<>>))
                                        ELSE conversation
    /\ state' = [state EXCEPT ![r] = NewState(start[r], pendingToolCalls)]
    /\ pendingToolCalls' = <<>>
    /\ Goto(r, "start")
    /\ UNCHANGED <<isRunning, resumeSeeded, currentIteration, executionHistory, graphClosed,
                   node, path, start, out, ghosts>>

(* ExecuteWithOptions refuses a closed graph before the defer that closes  *)
(* the stream, and the run waits for its collector for ever.               *)
Start(r) ==
    /\ pc[r] = "start"
    /\ IF graphClosed THEN Goto(r, "waiting") ELSE Goto(r, "node")
    /\ UNCHANGED <<agentVars, conversation, executionHistory, graphClosed, runVars, out, ghosts>>

-----------------------------------------------------------------------------
(* The run of the engine. *)
At(r, n) == pc[r] = "node" /\ node[r] = n /\ Len(path[r]) < RecursionLimit

EngineReturns(r, kind) ==
    /\ out' = [out EXCEPT ![r] = kind]
    /\ Goto(r, "collect")

(* A node that returned state s: the result stands even if the context     *)
(* ended meanwhile, which the loop notices before the next node.           *)
NodeReturns(r, s) ==
    /\ path' = [path EXCEPT ![r] = Append(@, node[r])]
    /\ state' = [state EXCEPT ![r] = s]
    /\ IF node[r] \in ReActGraph.ends
       THEN EngineReturns(r, "ok") /\ UNCHANGED node
       ELSE LET route == NextNode(node[r], s)
            IN  IF route.err # "none"
                THEN EngineReturns(r, "noRoute") /\ UNCHANGED node
                ELSE /\ node' = [node EXCEPT ![r] = route.to]
                     /\ Goto(r, "node")
                     /\ UNCHANGED out

(* The recursion limit, an ended context or an interrupt of the graph at   *)
(* the top of the loop; a failed node is emitted before the run ends.      *)
Stops(r) ==
    /\ pc[r] = "node"
    /\ \/ EngineReturns(r, "failed")
       \/ Len(path[r]) >= RecursionLimit /\ EngineReturns(r, "limit")
    /\ UNCHANGED <<agentVars, conversation, executionHistory, graphClosed, runVars, ghosts>>

(* The LLM fails, or answers without a choice: nothing was added. *)
LLMFails(r) ==
    /\ At(r, "reason") \/ At(r, "finalize")
    /\ path' = [path EXCEPT ![r] = Append(@, node[r])]
    /\ EngineReturns(r, "failed")
    /\ UNCHANGED <<agentVars, conversation, executionHistory, graphClosed, node, state, start,
                   question, ghosts>>

(* reasonNode: the calls of the reply become pending, none included. *)
Reason(r) ==
    /\ At(r, "reason")
    /\ \E reply \in Replies, given \in BOOLEAN :
          /\ calls + Len(reply) <= MaxCalls
          /\ calls' = calls + Len(reply)
          /\ conversation' = Append(conversation, Msg("assistant", NoID, CallsOf(reply, given)))
          /\ NodeReturns(r, [state[r] EXCEPT !.pending = CallsOf(reply, given)])
    /\ UNCHANGED <<agentVars, executionHistory, graphClosed, start, question, ran, rerun, resumes,
                   seeds>>

Bug_OnlyFirstCallGuarded(cs) == cs # <<>> /\ cs[1].tool \in InterruptOn
Guarded(cs) == \E i \in DOMAIN cs : cs[i].tool \in InterruptOn

(* actNode: one tool that waits for a person stops all calls of the reply. *)
ActInterrupts(r) ==
    /\ At(r, "act") /\ Guarded(state[r].pending)
    /\ NodeReturns(r, [state[r] EXCEPT !.interrupt = TRUE])
    /\ UNCHANGED <<agentVars, conversation, executionHistory, graphClosed, start, question, ghosts>>

ActRunsTools(r) ==
    /\ At(r, "act") /\ ~Guarded(state[r].pending) /\ state[r].pending # <<>>
    /\ state' = [state EXCEPT ![r].done = {}]
    /\ Goto(r, "tools")
    /\ UNCHANGED <<agentVars, conversation, executionHistory, graphClosed, node, path, start,
                   question, out, ghosts>>

(* executeSingleTool, in the goroutine of call i or in the loop over them. *)
(* A failing or unknown tool is answered with its error.                   *)
ToolReturns(r, i) ==
    /\ pc[r] = "tools" /\ i \in DOMAIN state[r].pending \ state[r].done
    /\ LET c == state[r].pending[i]
       IN  /\ ran' = ran \cup {[key |-> c.key, tool |-> c.tool]}
           /\ rerun' = (rerun \/ [key |-> c.key, tool |-> c.tool] \in ran)
    /\ state' = [state EXCEPT ![r].done = @ \cup {i}]
    /\ UNCHANGED <<agentVars, conversation, executionHistory, graphClosed, pc, node, path, start,
                   question, out, calls, resumes, seeds>>

(* Every answer names its call, in the order of the calls, whichever tool  *)
(* finished first.                                                         *)
WithAnswers(ms, cs) ==
    WithIDs(ms, cs) \o [i \in DOMAIN cs |-> Msg("tool", cs[i].id, <<>>)]

(* The rest of actNode, once executeParallel has waited for all tools. *)
ActAnswers(r) ==
    /\ pc[r] = "tools" /\ DOMAIN state[r].pending = state[r].done
    /\ LET cs == [i \in DOMAIN state[r].pending |->
                    IF state[r].pending[i].id = NoID
                    THEN [state[r].pending[i] EXCEPT !.id = state[r].pending[i].key]
                    ELSE state[r].pending[i]]
       IN  /\ conversation' = WithAnswers(conversation, cs)
           /\ NodeReturns(r, [state[r] EXCEPT !.pending = cs, !.answered = TRUE])
    /\ UNCHANGED <<agentVars, executionHistory, graphClosed, start, question, ghosts>>

NextRound(s) == [s EXCEPT !.answered = FALSE, !.iteration = s.iteration + 1]

(* observeNode: an observation of its own only if no tool was answered. *)
Observe(r) ==
    /\ At(r, "observe")
    /\ conversation' = IF state[r].answered THEN conversation
                       ELSE Append(conversation, Msg("user", NoID, <<>>))
    /\ NodeReturns(r, NextRound(state[r]))
    /\ UNCHANGED <<agentVars, executionHistory, graphClosed, start, question, ghosts>>

(* finalizeNode: whatever the model answers is added, calls included. *)
Finalize(r) ==
    /\ At(r, "finalize")
    /\ \E reply \in Replies, given \in BOOLEAN :
          /\ calls + Len(reply) <= MaxCalls
          /\ calls' = calls + Len(reply)
          /\ conversation' = Append(conversation, Msg("assistant", NoID, CallsOf(reply, given)))
          /\ NodeReturns(r, state[r])
    /\ UNCHANGED <<agentVars, executionHistory, graphClosed, start, question, ran, rerun, resumes,
                   seeds>>

-----------------------------------------------------------------------------
(* The end of ExecuteThread. AfterRun may fail, and then no record is      *)
(* kept. The checkpoint "final-0" is module Checkpointer's matter.         *)
Success(r) == out[r] = "ok" /\ ~state[r].interrupt

Bug_StreamClosedOnSuccessOnly(r) ==
    /\ pc[r] = "collect" /\ out[r] = "ok"
    /\ executionHistory' = Append(executionHistory,
            [run |-> r, success |-> Success(r), interrupt |-> state[r].interrupt])
    /\ Return(r)
    /\ UNCHANGED <<resumeSeeded, currentIteration, pendingToolCalls, conversation, graphClosed,
                   out, ghosts>>

Finish(r) ==
    /\ pc[r] = "collect"
    /\ \/ UNCHANGED executionHistory
       \/ executionHistory' = Append(executionHistory,
            [run |-> r, success |-> Success(r),
             interrupt |-> out[r] = "ok" /\ state[r].interrupt])
    /\ Return(r)
    /\ UNCHANGED <<resumeSeeded, currentIteration, pendingToolCalls, conversation, graphClosed,
                   out, ghosts>>

(* SeedResumeState with what a run left behind, as SubAgentExecutor does   *)
(* before it starts the next one: the conversation as it stands, and the   *)
(* calls that its last message made. The code does not look whether a run  *)
(* is under way; its one caller seeds an agent before it starts it.        *)
LeftOpen ==
    LET m == conversation[Len(conversation)] IN IF Asks(m) THEN m.calls ELSE <<>>

SeedResumeState ==
    /\ ~isRunning /\ conversation # <<>> /\ seeds < MaxSeeds
    /\ \E iteration \in 0 .. MaxIterations : currentIteration' = iteration
    /\ pendingToolCalls' = LeftOpen
    /\ resumeSeeded' = TRUE
    /\ seeds' = seeds + 1
    /\ UNCHANGED <<isRunning, conversation, executionHistory, graphClosed, pc, runVars, out, ran,
                   rerun, calls, resumes>>

(* DELETE on the conversation, at any time. *)
ClearConversation ==
    /\ conversation' = <<>>
    /\ question' = [r \in Runs |-> question[r] /\ pc[r] \in {"before", "prepare"}]
    /\ UNCHANGED <<agentVars, executionHistory, graphClosed, pc, node, state, path, start, out,
                   ghosts>>

CloseGraph ==
    /\ graphClosed' = TRUE
    /\ UNCHANGED <<agentVars, conversation, executionHistory, pc, runVars, out, ghosts>>

Run(r) ==
    \/ BeforeRunFails(r) \/ BeforeRun(r) \/ Prepare(r) \/ Start(r)
    \/ Stops(r) \/ LLMFails(r) \/ Reason(r) \/ ActInterrupts(r) \/ ActRunsTools(r)
    \/ \E i \in 1 .. MaxCalls : ToolReturns(r, i)
    \/ ActAnswers(r) \/ Observe(r) \/ Finalize(r) \/ Finish(r)

Next ==
    \/ \E r \in Runs : Begin(r) \/ Run(r)
    \/ SeedResumeState \/ ClearConversation \/ CloseGraph

Spec == Init /\ [][Next]_vars
FairSpec == Spec /\ \A r \in Runs : WF_vars(Run(r))

-----------------------------------------------------------------------------
TypeOK ==
    /\ isRunning \in BOOLEAN /\ resumeSeeded \in BOOLEAN
    /\ currentIteration \in 0 .. MaxIterations /\ graphClosed \in BOOLEAN
    /\ pc \in [Runs -> Labels] /\ out \in [Runs -> Outcomes]
    /\ node \in [Runs -> ReActGraph.nodes] /\ start \in [Runs -> 0 .. MaxIterations]
    /\ question \in [Runs -> BOOLEAN]
    /\ path \in [Runs -> Seq(ReActGraph.nodes)]
    /\ \A r \in Runs : state[r].iteration \in (0 .. MaxIterations) \cup {start[r] + 1}

(* The agent is busy exactly while a run is under way, and with one run: a *)
(* run refused by middleware or ended by an error gives it back.           *)
BusyWhileRunning ==
    /\ \A r, s \in Runs : pc[r] \in InFlight /\ pc[s] \in InFlight => r = s
    /\ isRunning <=> \E r \in Runs : pc[r] \in InFlight

(* "Strict OpenAI-compat APIs" accept every request: whatever an earlier   *)
(* turn left open, each call that has an ID is answered directly after the *)
(* message that made it, and each answer belongs to such a message, except *)
(* the answers that a cleared or summarized conversation begins with.      *)
Paired(ms) ==
    /\ \A i \in DOMAIN ms : Asks(ms[i]) => IDs(ms[i]) \subseteq Answered(ms, i)
    /\ \A j \in DOMAIN ms : ms[j].role = "tool" =>
          \/ \E i \in DOMAIN ms : j \in AnsweredBy(ms, i) /\ ms[j].ref \in IDs(ms[i])
          \/ \A i \in 1 .. j : ms[i].role \in {"system", "tool"}

RequestsPaired ==
    \A r \in Runs : At(r, "reason") \/ At(r, "finalize") => Paired(SanitizeToolPairing(conversation))

(* And a turn is asked what its caller asked: the first request of a run   *)
(* that is not a resumption ends with its own input, and a run resumes     *)
(* only on a seed, which serves one run.                                   *)
RequestsAreSound ==
    /\ RequestsPaired
    /\ resumes <= seeds
    /\ \A r \in Runs :
          At(r, "reason") /\ path[r] = <<>> /\ question[r] =>
             LET request == SanitizeToolPairing(conversation)
             IN  request[Len(request)] = Msg("user", r, <<>>)

(* A tool that waits for a person never runs, nor does any call of the     *)
(* reply that asked for it, and no call is run twice over all turns,       *)
(* deadlines and resumptions.                                              *)
GuardedToolsWait ==
    /\ ~rerun
    /\ \A r \in Runs : pc[r] = "tools" => ~\E i \in DOMAIN state[r].pending :
                                               state[r].pending[i].tool \in InterruptOn
    /\ \A c \in ran : c.tool \notin InterruptOn

(* Where the graph allows three steps a round and one to finalize, the     *)
(* iterations of the agent end a run, never the limit of the graph, which  *)
(* would turn a long run into an error without an answer. (An agent may    *)
(* have 100 iterations; the limit of its graph is 100: from 34 iterations  *)
(* on it ends in the middle.)                                              *)
NeverAtLimit == 3 * MaxIterations < RecursionLimit => \A r \in Runs : out[r] # "limit"

(* The agent comes back from every run that began, unless its graph was    *)
(* closed.                                                                 *)
AgentComesBack ==
    <>[](graphClosed \/ \A r \in Runs : pc[r] \in {"idle", "returned"})

(* "Stay at current node (act) - execution will pause": a run stopped by a *)
(* tool that waits for a person reports the interrupt, not a failure.      *)
InterruptIsReported ==
    \A r \in Runs :
        pc[r] = "collect" /\ state[r].interrupt => out[r] \in {"ok", "failed"}
==============================================================================
