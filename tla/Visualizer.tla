------------------------------- MODULE Visualizer -------------------------------
(* The visualizer (pkg/debug/visualizer.go): goroutines record the steps of  *)
(* their runs, subscribers are told and checkpoints saved under its one      *)
(* lock, and the history of a thread is summed up for whoever asks. The      *)
(* visualize command (cmd/golanggraph/main.go) draws the graph of a file.    *)
EXTENDS Routing, FiniteSets, SequencesExt

CONSTANTS
    Recorders,      \* goroutines that record steps, each of a thread of its own
    Readers,        \* subscribers that ask for the history when they are told of a step
    Writers,        \* subscribers that only send a message
    Steps,          \* what is recorded: [node, took, snapshot], how long it took, whether
                    \* it has a snapshot of the state
    GraphFiles,     \* graph files: [nodes, edges, start, ends]
    MaxHistorySize, \* of the VisualizerConfig
    MaxSteps        \* bound

VARIABLES
    executionHistory,   \* the steps kept: [n, thread, node, took, snapshot]
    subscribers,        \* in the order of subscription, which may repeat
    told,               \* per subscription the numbers of the steps it was told of
    since,              \* ghost: per subscription the steps recorded before it
    lock,               \* who holds the lock, <<>> if nobody does
    pc,                 \* recorder -> its call of RecordStep
    saved,              \* numbers of the steps the checkpointer saved
    refused,            \* ghost: those it refused
    recorded,           \* ghost: all steps in the order of the lock
    drawn               \* the last file drawn: its graph and the diagram

vars == <<executionHistory, subscribers, told, since, lock, pc, saved, refused, recorded, drawn>>
subscription == <<subscribers, told, since>>

Idle == [at |-> "idle"]
NoDrawing == [graph |-> <<>>]

Init ==
    /\ executionHistory = <<>> /\ subscribers = <<>> /\ told = <<>> /\ since = <<>>
    /\ lock = <<>> /\ pc = [r \in Recorders |-> Idle]
    /\ saved = {} /\ refused = {} /\ recorded = <<>> /\ drawn = NoDrawing

Subscribe(subscriber) ==
    /\ lock = <<>> /\ Len(subscribers) < 2 /\ drawn = NoDrawing
    /\ subscribers' = Append(subscribers, subscriber)
    /\ told' = Append(told, <<>>) /\ since' = Append(since, Len(recorded))
    /\ UNCHANGED <<executionHistory, lock, pc, saved, refused, recorded, drawn>>

-------------------------------------------------------------------------------
(* RecordStep.                                                               *)
Record(r, step) ==
    /\ pc[r] = Idle /\ drawn = NoDrawing /\ Len(recorded) + Cardinality({s \in Recorders : pc[s].at = "lock"}) < MaxSteps
    /\ pc' = [pc EXCEPT ![r] = [at |-> "lock", step |-> step, next |-> 1]]
    /\ UNCHANGED <<executionHistory, subscription, lock, saved, refused, recorded, drawn>>

Bug_TrimmedFirst(steps) == IF Len(steps) > MaxHistorySize THEN Front(steps) ELSE steps

(* One step is dropped for the one added.                                    *)
Trimmed(steps) == IF Len(steps) > MaxHistorySize THEN Tail(steps) ELSE steps

Lock(r) ==
    LET step == [n |-> Len(recorded) + 1, thread |-> r, node |-> pc[r].step.node, took |-> pc[r].step.took,
                 snapshot |-> pc[r].step.snapshot] IN
    /\ pc[r].at = "lock" /\ lock = <<>> /\ lock' = <<r>>
    /\ recorded' = Append(recorded, step)
    /\ executionHistory' = Trimmed(Append(executionHistory, step))
    /\ pc' = [pc EXCEPT ![r] = [at |-> "tell", step |-> step, next |-> 1]]
    /\ UNCHANGED <<subscription, saved, refused, drawn>>

(* A subscriber that asks for the history waits for the lock of its caller.  *)
Notify(r) ==
    LET i == pc[r].next IN
    /\ pc[r].at = "tell" /\ i \in DOMAIN subscribers
    /\ told' = [told EXCEPT ![i] = Append(@, pc[r].step.n)]
    /\ pc' = [pc EXCEPT ![r].next = i + 1, ![r].at = IF subscribers[i] \in Readers THEN "stuck" ELSE "tell"]
    /\ UNCHANGED <<executionHistory, subscribers, since, lock, saved, refused, recorded, drawn>>

(* An error of the checkpointer is only logged.                              *)
Save(r) ==
    /\ pc[r].at = "tell" /\ pc[r].next \notin DOMAIN subscribers
    /\ IF ~pc[r].step.snapshot THEN UNCHANGED <<saved, refused>>
       ELSE \/ saved' = saved \union {pc[r].step.n} /\ UNCHANGED refused
            \/ refused' = refused \union {pc[r].step.n} /\ UNCHANGED saved
    /\ pc' = [pc EXCEPT ![r] = Idle] /\ lock' = <<>>
    /\ UNCHANGED <<executionHistory, subscription, recorded, drawn>>

RecordStep(r) == Lock(r) \/ Notify(r) \/ Save(r)

-------------------------------------------------------------------------------
(* What is made of the history.                                              *)
GetExecutionHistory(thread) == SelectSeq(executionHistory, LAMBDA step : step.thread = thread)

Total(steps) == FoldLeft(LAMBDA sum, step : sum + step.took, 0, steps)
OfNode(steps, node) == SelectSeq(steps, LAMBDA step : step.node = node)

Bug_AverageOfAll(steps) == steps

(* Steps without a duration do not count for the average.                    *)
Timed(steps) == SelectSeq(steps, LAMBDA step : step.took > 0)

PerformanceMetrics(steps) ==
    LET ran   == {steps[i].node : i \in DOMAIN steps}
        timed == {node \in ran : Timed(OfNode(steps, node)) # <<>>}
    IN  [counts   |-> [node \in ran |-> Len(OfNode(steps, node))],
         averages |-> [node \in timed |-> Total(Timed(OfNode(steps, node))) \div Len(Timed(OfNode(steps, node)))]]

(* The trace links every step to the next.                                   *)
ExecutionTrace(steps) == [i \in 1 .. Len(steps) - 1 |-> <<steps[i].n, steps[i + 1].n>>]

-------------------------------------------------------------------------------
(* loadGraphFromFile: the first node is the start of a file that names none; *)
(* a node given twice, or a start or an end that is not there, is refused.   *)
LoadedGraph(file) ==
    [nodes |-> ToSet(file.nodes), start |-> IF file.start = NoName THEN file.nodes[1] ELSE file.start,
     ends |-> file.ends, edges |-> [i \in DOMAIN file.edges |-> Edge(file.edges[i][1], file.edges[i][2], FALSE)],
     tables |-> <<>>,
     broken |-> ~IsInjective(file.nodes) \/ \E i \in DOMAIN file.nodes : file.nodes[i] \in {NoName, START, END}]

Bug_InnerEdges(graph) == {<<e.from, e.to>> : e \in {e \in ToSet(graph.edges) : e.to \notin graph.ends}}

Arrows(graph) == {<<e.from, e.to>> : e \in ToSet(graph.edges)}

(* GetGraphTopology and the two diagrams of it. Route tables are not looked  *)
(* at; a node may be drawn as start and as end. A program that draws records *)
(* nothing here.                                                             *)
GraphTopology(graph) ==
    [nodes |-> {[id |-> n, start |-> n = graph.start, end |-> n \in graph.ends] : n \in graph.nodes},
     arrows |-> Arrows(graph)]

Draw(file) ==
    /\ recorded = <<>> /\ subscribers = <<>> /\ \A r \in Recorders : pc[r] = Idle
    /\ drawn = NoDrawing /\ file.nodes # <<>> /\ Valid(LoadedGraph(file))
    /\ drawn' = [graph |-> LoadedGraph(file), topology |-> GraphTopology(LoadedGraph(file))]
    /\ UNCHANGED <<executionHistory, subscription, lock, pc, saved, refused, recorded>>

Next ==
    \/ \E s \in Readers \union Writers : Subscribe(s)
    \/ \E r \in Recorders : RecordStep(r) \/ \E step \in Steps : Record(r, step)
    \/ \E file \in GraphFiles : Draw(file)

-------------------------------------------------------------------------------
(* The history is the steps last recorded, in the order of the lock, however *)
(* many goroutines record them; a thread's part of it is its own steps in    *)
(* the order it recorded them, and its trace goes forward.                   *)
HistoryIsRecent ==
    LET kept == IF Len(recorded) < MaxHistorySize THEN Len(recorded) ELSE MaxHistorySize IN
    /\ executionHistory = SubSeq(recorded, Len(recorded) - kept + 1, Len(recorded))
    /\ \A r \in Recorders : \A link \in ToSet(ExecutionTrace(GetExecutionHistory(r))) : link[1] < link[2]

(* A subscription was told of every step since it was made, once and in      *)
(* order, the step under way perhaps not yet; what has a snapshot is saved   *)
(* unless the checkpointer refused.                                          *)
EveryoneIsTold ==
    /\ \A i \in DOMAIN subscribers :
          \E n \in {Len(recorded)} \union (IF lock = <<>> \/ pc[lock[1]].next > i THEN {} ELSE {Len(recorded) - 1}) :
              told[i] = [j \in 1 .. n - since[i] |-> since[i] + j]
    /\ lock = <<>> => saved \union refused = {n \in DOMAIN recorded : recorded[n].snapshot}

(* GetDebugInfo adds up: the counts are those of the steps, and an average   *)
(* lies between the shortest and the longest time that was measured.         *)
DebugInfoAddsUp ==
    \A r \in Recorders :
        LET steps == GetExecutionHistory(r)  p == PerformanceMetrics(steps) IN
        /\ FoldSet(LAMBDA node, sum : sum + p.counts[node], 0, DOMAIN p.counts) = Len(steps)
        /\ \A node \in DOMAIN p.averages :
              /\ \E step \in ToSet(steps) : step.node = node /\ 0 < step.took /\ step.took <= p.averages[node]
              /\ \E step \in ToSet(steps) : step.node = node /\ step.took >= p.averages[node]
        /\ \A step \in ToSet(steps) : step.took > 0 => step.node \in DOMAIN p.averages

(* Whatever the conditions answer, a run of a graph that is drawn goes along *)
(* the arrows and stops at a node drawn as an end, at one without arrows, or *)
(* along an arrow to no node.                                                *)
DrawnAsRun ==
    drawn # NoDrawing =>
        \A n \in drawn.graph.nodes, ask \in Answers(drawn.graph, drawn.graph.nodes) :
            LET to == RouteFrom(drawn.graph, n, ask).to IN
            to = NoName \/ <<n, to>> \in drawn.topology.arrows

(* The visualizer shows what happened. *)
ShowsWhatHappened == HistoryIsRecent /\ EveryoneIsTold /\ DebugInfoAddsUp /\ DrawnAsRun

(* Every recorder comes back unless a subscriber asks for the history.       *)
RecordersReturn ==
    <>[]((\A r \in Recorders : pc[r] = Idle) \/ \E r \in Recorders : pc[r].at = "stuck")
===============================================================================
