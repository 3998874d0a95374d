-------------------------- MODULE GraphEngineProofs --------------------------
(* What holds of the engine for every graph, any number of concurrent calls *)
(* and stoppers, and every bound.                                           *)
EXTENDS GraphEngine, RoutingProofs, SequenceTheorems, FiniteSetTheorems

(* The destination routeFrom returns is a name the graph or a condition    *)
(* gave, and its error one of two.                                         *)
LEMMA RouteFromType ==
    ASSUME NEW n, NEW ask \in Asks
    PROVE  /\ RouteFrom(Graph, n, ask).err \in {"none", "condition", "noRoute"}
           /\ RouteFrom(Graph, n, ask).to \in Places
<1>1. CASE n \in DOMAIN Graph.tables
  <2>1. ask[0] \in Names \cup {Failure}
    BY DEF Asks, Answers
  <2> QED
    BY <1>1, <2>1, EngineAssumption
       DEF RouteFrom, RouteByTable, Route, RouteErr, Places
<1>2. CASE n \notin DOMAIN Graph.tables
  <2>1. Graph.edges \in Seq([from : Places, to : Places, cond : BOOLEAN])
    BY EngineAssumption
  <2>2. \/ RouteByEdges(Graph, n, ask) \in
             {Route(NoName), RouteErr("condition"), RouteErr("noRoute")}
        \/ \E i \in Outgoing(Graph, n) :
             RouteByEdges(Graph, n, ask) = Route(Graph.edges[i].to)
    <3>1. DOMAIN Graph.edges \in SUBSET Nat
      BY <2>1
    <3> QED
      BY <3>1, EdgeRouteTakesEdge
  <2>3. \A i \in Outgoing(Graph, n) : Graph.edges[i].to \in Places
    <3>1. ASSUME NEW i \in DOMAIN Graph.edges PROVE Graph.edges[i].to \in Places
      <4>1. Graph.edges[i] \in [from : Places, to : Places, cond : BOOLEAN]
        BY <2>1, LenProperties, ElementOfSeq
      <4> QED
        BY <4>1
    <3> QED
      BY <3>1 DEF Outgoing
  <2> QED
    BY <1>2, <2>2, <2>3 DEF RouteFrom, Route, RouteErr, Places
<1> QED
  BY <1>1, <1>2

LEMMA InitType == Init => TypeOK
<1> SUFFICES ASSUME Init PROVE TypeOK
  OBVIOUS
<1>1. TypeGraph
  <2>1. GraphCap \in Nat /\ Breakpoints \subseteq Names
    BY EngineAssumption
  <2>2. <<>> \in Seq(Entries) /\ 0 \in 0 .. GraphCap
    BY <2>1
  <2>3. [run |-> NoRun, state |-> {}] \in [run : Runs \cup {NoRun}, state : SUBSET Writes]
    OBVIOUS
  <2> QED
    BY <2>1, <2>2, <2>3 DEF Init, TypeGraph
<1>2. TypeRuns
  BY EngineAssumption DEF Init, TypeRuns, NoResult, Labels, Kinds, Places
<1>3. TypeOthers
  BY DEF Init, TypeOthers
<1> QED
  BY <1>1, <1>2, <1>3 DEF TypeOK

(* What the steps of a run do to pc, out and pending. *)
LEMMA GotoType ==
    ASSUME TypeRuns, NEW r \in Runs, NEW label \in Labels, Goto(r, label)
    PROVE  pc' \in [Runs -> Labels]
  BY DEF TypeRuns, Goto

LEMMA OutType ==
    ASSUME TypeRuns, NEW r \in Runs, NEW kind \in Kinds, NEW n \in Places, NEW s \in Nat,
           Return(r, Result(kind, n, s)) \/ Leave(r, Result(kind, n, s))
    PROVE  /\ pc' \in [Runs -> Labels]
           /\ out' \in [Runs -> [kind : Kinds, node : Places, step : Nat]]
<1>1. Result(kind, n, s) \in [kind : Kinds, node : Places, step : Nat]
  BY DEF Result
<1>2. "returned" \in Labels /\ "unwind" \in Labels
  BY DEF Labels, InFlight
<1>3. out' = [out EXCEPT ![r] = Result(kind, n, s)]
  BY DEF Return, Leave
<1>4. pc' = [pc EXCEPT ![r] = "returned"] \/ pc' = [pc EXCEPT ![r] = "unwind"]
  BY DEF Return, Leave, Goto
<1>5. pc' \in [Runs -> Labels]
  BY <1>2, <1>4 DEF TypeRuns
<1>6. out' \in [Runs -> [kind : Kinds, node : Places, step : Nat]]
  <2> HIDE DEF Result
  <2> QED
    BY <1>1, <1>3 DEF TypeRuns
<1> QED
  BY <1>5, <1>6

LEMMA PendingType ==
    ASSUME TypeRuns, NEW r \in Runs, NEW ok \in BOOLEAN, NEW s \in SUBSET Writes,
           pending' = [pending EXCEPT ![r] = [ok |-> ok, state |-> s]]
    PROVE  pending' \in [Runs -> [ok : BOOLEAN, state : SUBSET Writes]]
<1>1. [ok |-> ok, state |-> s] \in [ok : BOOLEAN, state : SUBSET Writes]
  OBVIOUS
<1> QED
  BY <1>1 DEF TypeRuns

LEMMA StepType ==
    ASSUME TypeOK, NEW r \in Runs, Step(r), pc[r] = "decide" => step[r] > 0
    PROVE  TypeOK'
<1> USE DEF TypeOK, graphVars, register, mirror, local, streams, readers, stoppers
<1>1. CASE Snapshot(r)
  <2>1. TypeGraph'
    BY <1>1 DEF Snapshot, TypeGraph, TypeRuns
  <2>2. TypeRuns'
    <3>1. CASE closed
      <4>1. Return(r, Result("refused", NoName, 0)) /\ UNCHANGED <<pauses, local>>
        BY <1>1, <3>1 DEF Snapshot
      <4>2. "refused" \in Kinds /\ NoName \in Places
        BY DEF Kinds, Places
      <4> QED
        BY <4>1, <4>2, OutType DEF TypeRuns
    <3>2. CASE ~closed
      <4>1. Goto(r, "register") /\ "register" \in Labels
        BY <1>1, <3>2 DEF Snapshot, Labels
      <4>2. pc' \in [Runs -> Labels]
        BY <4>1, GotoType
      <4>3. pauses' = [pauses EXCEPT ![r] = breakpoints] /\ UNCHANGED out
        BY <1>1, <3>2 DEF Snapshot
      <4>4. pauses' \in [Runs -> SUBSET Names]
        BY <4>3 DEF TypeRuns, TypeGraph
      <4> QED
        BY <1>1, <4>2, <4>3, <4>4 DEF Snapshot, TypeRuns
    <3> QED
      BY <3>1, <3>2
  <2>3. TypeOthers'
    BY <1>1 DEF Snapshot, TypeOthers
  <2> QED
    BY <2>1, <2>2, <2>3
<1>2. CASE Register(r)
  <2>1. TypeGraph'
    BY SMTT(20), <1>2 DEF Register, TypeGraph, TypeRuns
  <2>2. TypeRuns'
    BY <1>2 DEF Register, TypeRuns, Goto, Leave, Return, Result, Labels, InFlight, Kinds, Places
  <2>3. TypeOthers'
    BY <1>2 DEF Register, TypeOthers
  <2> QED
    BY <2>1, <2>2, <2>3
<1>3. CASE Stop(r)
  <2>1. TypeGraph'
    BY <1>3 DEF Stop, TypeGraph, TypeRuns
  <2>2. TypeRuns'
    <3>1. {"context", "interrupted"} \subseteq Kinds /\ node[r] \in Places /\ step[r] \in Nat
      BY DEF Kinds, TypeRuns
    <3>2. \E k \in Kinds : Leave(r, Result(k, node[r], step[r]))
      BY <1>3, <3>1 DEF Stop
    <3> QED
      BY <1>3, <3>1, <3>2, OutType DEF Stop, TypeRuns
  <2>3. TypeOthers'
    BY <1>3 DEF Stop, TypeOthers
  <2> QED
    BY <2>1, <2>2, <2>3
<1>4. CASE HitLimit(r)
  <2>1. TypeGraph'
    BY <1>4 DEF HitLimit, TypeGraph, TypeRuns
  <2>2. TypeRuns'
    BY <1>4 DEF HitLimit, TypeRuns, Goto, Leave, Return, Result, Labels, InFlight, Kinds, Places
  <2>3. TypeOthers'
    BY <1>4 DEF HitLimit, TypeOthers
  <2> QED
    BY <2>1, <2>2, <2>3
<1>5. CASE PauseBefore(r)
  <2>1. TypeGraph'
    BY <1>5 DEF PauseBefore, TypeGraph, TypeRuns
  <2>2. TypeRuns'
    BY <1>5 DEF PauseBefore, TypeRuns, Goto, Leave, Return, Result, Labels, InFlight, Kinds, Places
  <2>3. TypeOthers'
    BY <1>5 DEF PauseBefore, TypeOthers
  <2> QED
    BY <2>1, <2>2, <2>3
<1>6. CASE BeginNode(r)
  <2>1. TypeGraph'
    BY <1>6 DEF BeginNode, TypeGraph, TypeRuns
  <2>2. TypeRuns'
    <3>1. pending' \in [Runs -> [ok : BOOLEAN, state : SUBSET Writes]]
      BY <1>6, PendingType DEF BeginNode, TypeRuns
    <3>2. pc' \in [Runs -> Labels]
      BY <1>6 DEF BeginNode, TypeRuns, Goto, Labels, InFlight
    <3>3. attempt' \in [Runs -> Nat]
      <4>1. UNCHANGED attempt \/ attempt' = [attempt EXCEPT ![r] = 0]
        BY <1>6 DEF BeginNode
      <4>2. attempt \in [Runs -> Nat]
        BY DEF TypeRuns
      <4>3. [attempt EXCEPT ![r] = 0] \in [Runs -> Nat]
        BY <4>2
      <4> QED
        BY <4>1, <4>2, <4>3
    <3> QED
      BY <1>6, <3>1, <3>2, <3>3 DEF BeginNode, TypeRuns
  <2>3. TypeOthers'
    BY <1>6 DEF BeginNode, TypeOthers
  <2> QED
    BY <2>1, <2>2, <2>3
<1>7. CASE NodeReturns(r)
  <2>1. TypeGraph'
    BY <1>7 DEF NodeReturns, TypeGraph, TypeRuns
  <2>2. TypeRuns'
    <3>1. Write(r) \in Writes /\ state[r] \in SUBSET Writes
      BY DEF Write, Writes, TypeRuns
    <3>2. state[r] \cup {Write(r)} \in SUBSET Writes
      BY <3>1
    <3>3. pending' \in [Runs -> [ok : BOOLEAN, state : SUBSET Writes]]
      BY <1>7, <3>1, <3>2, PendingType DEF NodeReturns
    <3> QED
      BY <1>7, <3>3 DEF NodeReturns, TypeRuns, Goto, Labels, InFlight
  <2>3. TypeOthers'
    BY <1>7 DEF NodeReturns, TypeOthers
  <2> QED
    BY <2>1, <2>2, <2>3
<1>8. CASE NodeFails(r)
  <2>1. TypeGraph'
    BY <1>8 DEF NodeFails, TypeGraph, TypeRuns
  <2>2. TypeRuns'
    BY <1>8 DEF NodeFails, TypeRuns, Goto, Leave, Return, Result, Labels, InFlight, Kinds, Places
  <2>3. TypeOthers'
    BY <1>8 DEF NodeFails, TypeOthers
  <2> QED
    BY <2>1, <2>2, <2>3
<1>9. CASE NodeRetries(r)
  <2>1. TypeGraph'
    BY <1>9 DEF NodeRetries, TypeGraph, TypeRuns
  <2>2. TypeRuns'
    <3>1. pc' \in [Runs -> Labels]
      BY ZenonT(40), <1>9 DEF NodeRetries, Goto, TypeRuns, Labels, InFlight
    <3>2. attempt' \in [Runs -> Nat]
      BY <1>9 DEF NodeRetries, TypeRuns
    <3> QED
      BY <1>9, <3>1, <3>2 DEF NodeRetries, TypeRuns
  <2>3. TypeOthers'
    BY <1>9 DEF NodeRetries, TypeOthers
  <2> QED
    BY <2>1, <2>2, <2>3
<1>10. CASE DelayEnds(r)
  <2>1. TypeGraph'
    BY <1>10 DEF DelayEnds, TypeGraph, TypeRuns
  <2>2. TypeRuns'
    <3>1. pending' \in [Runs -> [ok : BOOLEAN, state : SUBSET Writes]]
      <4>1. CASE UNCHANGED pending
        BY <4>1 DEF TypeRuns
      <4>2. CASE pending' = [pending EXCEPT ![r] = [ok |-> FALSE, state |-> state[r]]]
        BY <4>2, PendingType DEF TypeRuns
      <4> QED
        BY <1>10, <4>1, <4>2 DEF DelayEnds
    <3>2. pc' \in [Runs -> Labels]
      BY <1>10 DEF DelayEnds, Goto, TypeRuns, Labels, InFlight
    <3> QED
      BY <1>10, <3>1, <3>2 DEF DelayEnds, TypeRuns
  <2>3. TypeOthers'
    BY <1>10 DEF DelayEnds, TypeOthers
  <2> QED
    BY <2>1, <2>2, <2>3
<1>11. CASE Record(r)
  <2>1. TypeGraph'
    <3> DEFINE e == [run |-> r, node |-> node[r], step |-> step[r], ok |-> pending[r].ok]
    <3>1. e \in Entries
      BY DEF TypeRuns, Entries
    <3>2. history' = Append(history, e)
      BY <1>11 DEF Record
    <3> HIDE DEF e
    <3> QED
      BY <1>11, <3>1, <3>2 DEF Record, TypeGraph
  <2>2. TypeRuns'
    BY <1>11 DEF Record, TypeRuns, Goto, Leave, Return, Result, Labels, InFlight, Kinds, Places
  <2>3. TypeOthers'
    BY <1>11 DEF Record, TypeOthers
  <2> QED
    BY <2>1, <2>2, <2>3
<1>12. CASE Emit(r)
  <2>1. TypeGraph'
    <3>1. graphLen' \in 0 .. GraphCap /\ crashed' \in BOOLEAN
      BY <1>12, EngineAssumption DEF Emit, SendToGraph, TypeGraph
    <3> QED
      BY <1>12, <3>1 DEF Emit, TypeGraph
  <2>2. TypeRuns'
    <3>1. CASE pending[r].ok
      BY <1>12, <3>1 DEF Emit, TypeRuns, Goto, Labels, InFlight
    <3>2. CASE ~pending[r].ok
      <4>1. Leave(r, Result("failed", node[r], step[r]))
        BY <1>12, <3>2 DEF Emit
      <4>2. "failed" \in Kinds /\ node[r] \in Places /\ step[r] \in Nat
        BY DEF Kinds, TypeRuns
      <4> QED
        BY <1>12, <4>1, <4>2, OutType DEF Emit, TypeRuns
    <3> QED
      BY <3>1, <3>2
  <2>3. TypeOthers'
    <3>1. runBuf' \in [Runs -> Seq(Nat)] /\ runOpen' = runOpen
      BY <1>12 DEF Emit, SendToRun, TypeOthers, TypeRuns
    <3> QED
      BY <1>12, <3>1 DEF Emit, TypeOthers
  <2> QED
    BY <2>1, <2>2, <2>3
<1>13. CASE Apply(r)
  <2>1. TypeGraph'
    BY <1>13 DEF Apply, TypeGraph, TypeRuns
  <2>2. TypeRuns'
    BY <1>13 DEF Apply, TypeRuns, Goto, Leave, Return, Result, Labels, InFlight, Kinds, Places
  <2>3. TypeOthers'
    BY <1>13 DEF Apply, TypeOthers
  <2> QED
    BY <2>1, <2>2, <2>3
<1>14. CASE Save(r)
  <2>1. TypeGraph'
    BY SMTT(20), <1>14 DEF Save, TypeGraph, TypeRuns
  <2>2. TypeRuns'
    BY <1>14 DEF Save, TypeRuns, Goto, Leave, Return, Result, Labels, InFlight, Kinds, Places
  <2>3. TypeOthers'
    BY <1>14 DEF Save, TypeOthers
  <2> QED
    BY <2>1, <2>2, <2>3
<1>15. CASE Decide(r)
  <2>1. TypeGraph'
    BY <1>15 DEF Decide, TypeGraph, TypeRuns
  <2>2. TypeRuns'
    <3>1. node[r] \in Places /\ step[r] \in Nat
      BY DEF TypeRuns
    <3>2. CASE node[r] \in PauseAfter \/ node[r] \in Graph.ends
      <4>1. step[r] - 1 \in Nat
        BY <1>15, <3>1 DEF Decide
      <4>2. {"pausedAfter", "ok"} \subseteq Kinds
        BY DEF Kinds
      <4>3. \E k \in Kinds, s \in Nat : Leave(r, Result(k, node[r], s)) /\ UNCHANGED node
        BY <1>15, <3>1, <3>2, <4>1, <4>2 DEF Decide
      <4> QED
        BY <1>15, <3>1, <4>3, OutType DEF Decide, TypeRuns
    <3>3. CASE ~(node[r] \in PauseAfter \/ node[r] \in Graph.ends)
      <4>1. PICK ask \in Asks : Follow(r, RouteFrom(Graph, node[r], ask))
        BY <1>15, <3>3 DEF Decide
      <4> DEFINE next == RouteFrom(Graph, node[r], ask)
      <4>2. next.err \in {"none", "condition", "noRoute"} /\ next.to \in Places
        BY RouteFromType
      <4>3. {"condition", "noRoute", "ok"} \subseteq Kinds /\ "loop" \in Labels
        BY DEF Kinds, Labels, InFlight
      <4> HIDE DEF next
      <4>4. CASE \E k \in Kinds : Leave(r, Result(k, node[r], step[r])) /\ UNCHANGED node
        BY <1>15, <3>1, <4>4, OutType DEF Decide, TypeRuns
      <4>5. CASE Goto(r, "loop") /\ node' = [node EXCEPT ![r] = next.to] /\ UNCHANGED out
        BY <1>15, <4>2, <4>3, <4>5, GotoType DEF Decide, TypeRuns
      <4> QED
        BY <4>1, <4>2, <4>3, <4>4, <4>5 DEF Follow, next
    <3> QED
      BY <3>2, <3>3
  <2>3. TypeOthers'
    BY <1>15 DEF Decide, TypeOthers
  <2> QED
    BY <2>1, <2>2, <2>3
<1>16. CASE Unwind(r)
  <2>1. TypeGraph'
    <3>1. running' \in Nat /\ active' \subseteq Runs
      BY <1>16 DEF Unwind, TypeGraph
    <3>2. crashed' \in BOOLEAN
      BY <1>16 DEF Unwind, TypeGraph
    <3> QED
      BY <1>16, <3>1, <3>2 DEF Unwind, TypeGraph
  <2>2. TypeRuns'
    BY <1>16 DEF Unwind, TypeRuns, Goto, Leave, Return, Result, Labels, InFlight, Kinds, Places
  <2>3. TypeOthers'
    BY <1>16 DEF Unwind, TypeOthers
  <2> QED
    BY <2>1, <2>2, <2>3
<1> QED
  BY <1>1, <1>2, <1>3, <1>4, <1>5, <1>6, <1>7, <1>8, <1>9, <1>10, <1>11, <1>12, <1>13, <1>14, <1>15, <1>16 DEF Step

(* Calls, resumptions, readers and stoppers keep the types as well. *)
LEMMA CallType ==
    ASSUME TypeOK, NEW r \in Runs, Call(r)
    PROVE  TypeOK'
<1> USE DEF TypeOK, graphVars, register, mirror, streams, readers, stoppers
<1>1. TypeGraph'
  BY DEF Call, TypeGraph
<1>2. TypeRuns'
  <2>1. CASE Valid(Graph)
    <3>1. Goto(r, "snapshot") /\ "snapshot" \in Labels
      BY <2>1 DEF Call, Labels
    <3>2. node' \in [Runs -> Places]
      BY <2>1, EngineAssumption DEF Call, TypeRuns
    <3> QED
      BY <2>1, <3>1, <3>2, GotoType DEF Call, TypeRuns
  <2>2. CASE ~Valid(Graph)
    <3>1. Return(r, Result("refused", NoName, 0)) /\ "refused" \in Kinds /\ NoName \in Places
      BY <2>2 DEF Call, Kinds, Places
    <3> QED
      BY <2>2, <3>1, OutType DEF Call, TypeRuns
  <2> QED
    BY <2>1, <2>2
<1>3. TypeOthers'
  BY DEF Call, TypeOthers
<1> QED
  BY <1>1, <1>2, <1>3

LEMMA ResumeType ==
    ASSUME TypeOK, NEW r \in Runs, NEW q \in Runs, Resume(r, q)
    PROVE  TypeOK'
<1> USE DEF TypeOK, graphVars, register, mirror, streams, readers, stoppers
<1>1. TypeGraph'
  BY DEF Resume, TypeGraph
<1>2. TypeOthers'
  BY DEF Resume, TypeOthers
<1>3. TypeRuns'
  <2>1. /\ state' \in [Runs -> SUBSET Writes]
        /\ trace' \in [Runs -> Seq(Places)]
        /\ from' \in [Runs -> Runs \cup {NoRun}]
        /\ UNCHANGED <<attempt, pauses, pending>>
    BY DEF Resume, TypeRuns
  <2>2. out[q].node \in Places /\ out[q].step \in Nat
    BY DEF TypeRuns
  <2>3. ASSUME NEW n \in Places, NEW s \in Nat, ResumeAt(r, q, n, s) PROVE TypeRuns'
    <3>1. pc' \in [Runs -> Labels]
      BY <2>3, GotoType DEF ResumeAt, Labels
    <3>2. UNCHANGED out /\ node' \in [Runs -> Places]
      BY <2>3 DEF ResumeAt, TypeRuns
    <3>3. step' \in [Runs -> Nat] /\ base' \in [Runs -> Nat]
      BY <2>3 DEF ResumeAt, TypeRuns
    <3> QED
      BY <2>1, <3>1, <3>2, <3>3 DEF TypeRuns
  <2>4. CASE out[q].kind = "pausedBefore"
    BY <2>2, <2>3, <2>4 DEF Resume
  <2>5. CASE out[q].kind # "pausedBefore"
    <3>1. PICK ask \in Asks : ResumeAfter(r, q, RouteFrom(Graph, out[q].node, ask))
      BY <2>5 DEF Resume
    <3> DEFINE next == RouteFrom(Graph, out[q].node, ask)
    <3>2. next.err \in {"none", "condition", "noRoute"} /\ next.to \in Places
      BY RouteFromType
    <3>3. {"condition", "noRoute", "ok"} \subseteq Kinds
      BY DEF Kinds
    <3> HIDE DEF next
    <3>4. CASE \E k \in Kinds :
                 Return(r, Result(k, out[q].node, out[q].step)) /\ UNCHANGED <<node, step, base>>
      BY <2>1, <2>2, <3>4, OutType DEF TypeRuns
    <3>5. CASE ResumeAt(r, q, next.to, out[q].step + 1)
      <4>1. out[q].step + 1 \in Nat
        BY <2>2
      <4> QED
        BY <2>3, <3>2, <3>5, <4>1
    <3> QED
      BY <3>1, <3>2, <3>3, <3>4, <3>5 DEF ResumeAfter, next
  <2> QED
    BY <2>4, <2>5
<1> QED
  BY <1>1, <1>2, <1>3

Environment ==
    \/ \E r \in Runs : EndContext(r) \/ Receive(r) \/ EndRange(r)
    \/ \E c \in Stoppers : Stopper(c)
    \/ ClearBreakpoints \/ Reset \/ DrainGraph

LEMMA EnvironmentType ==
    ASSUME TypeOK, Environment
    PROVE  TypeOK'
<1> USE DEF TypeOK, graphVars, register, mirror, local, streams, readers, stoppers
<1>1. ASSUME NEW r \in Runs, EndContext(r) PROVE TypeOK'
  BY <1>1 DEF EndContext, TypeGraph, TypeRuns, TypeOthers
<1>2. ASSUME NEW r \in Runs, Receive(r) PROVE TypeOK'
  <2>1. got' \in [Runs -> Seq(Nat)] /\ runBuf' \in [Runs -> Seq(Nat)]
    BY <1>2 DEF Receive, TypeOthers
  <2> QED
    BY <1>2, <2>1 DEF Receive, TypeGraph, TypeRuns, TypeOthers
<1>3. ASSUME NEW r \in Runs, EndRange(r) PROVE TypeOK'
  BY <1>3 DEF EndRange, TypeGraph, TypeRuns, TypeOthers
<1>4. ASSUME NEW c \in Stoppers, CopyHandles(c) PROVE TypeOK'
  BY <1>4 DEF CopyHandles, TypeGraph, TypeRuns, TypeOthers
<1>5. ASSUME NEW c \in Stoppers, NEW r \in Runs, Signal(c, r) PROVE TypeOK'
  <2>1. Len(trace[r]) \in Nat
    BY DEF TypeRuns
  <2>2. signaled' \in [Runs -> Nat \cup {-1}]
    BY <1>5, <2>1 DEF Signal, TypeOthers
  <2> QED
    BY <1>5, <2>2 DEF Signal, TypeGraph, TypeRuns, TypeOthers
<1>6. ASSUME NEW c \in Stoppers, EndInterrupt(c) PROVE TypeOK'
  BY <1>6 DEF EndInterrupt, TypeGraph, TypeRuns, TypeOthers
<1>7. ASSUME NEW c \in Stoppers, CloseOnce(c) PROVE TypeOK'
  BY <1>7 DEF CloseOnce, TypeGraph, TypeRuns, TypeOthers
<1>8. CASE ClearBreakpoints
  BY <1>8 DEF ClearBreakpoints, TypeGraph, TypeRuns, TypeOthers
<1>9. CASE DrainGraph
  <2>1. graphLen' \in 0 .. GraphCap
    BY <1>9, EngineAssumption DEF DrainGraph, TypeGraph
  <2> QED
    BY <1>9, <2>1 DEF DrainGraph, TypeGraph, TypeRuns, TypeOthers
<1>10. CASE Reset
  <2>1. current' \in [run : Runs \cup {NoRun}, state : SUBSET Writes] /\ history' \in Seq(Entries)
    BY <1>10 DEF Reset
  <2> QED
    BY <1>10, <2>1 DEF Reset, TypeGraph, TypeRuns, TypeOthers
<1> QED
  BY <1>1, <1>2, <1>3, <1>4, <1>5, <1>6, <1>7, <1>8, <1>9, <1>10 DEF Environment, Stopper

(* Every step of the engine is a call, a resumption, a step of a call that *)
(* began, or one of the environment.                                       *)
LEMMA NextCases ==
    Next <=> \/ \E r \in Runs : Call(r) \/ (\E q \in Runs : Resume(r, q)) \/ Step(r)
             \/ Environment
  BY DEF Next, Environment

(* The step counter of a run that is about to route is past its first step. *)
TypeInv == TypeOK /\ \A r \in Runs : pc[r] = "decide" => step[r] > 0

LEMMA TypeInvStep == TypeInv /\ [Next]_vars => TypeInv'
<1> SUFFICES ASSUME TypeInv, [Next]_vars PROVE TypeInv'
  OBVIOUS
<1> USE DEF TypeInv
<1>1. CASE UNCHANGED vars
  BY <1>1 DEF vars, TypeOK, TypeGraph, TypeRuns, TypeOthers, graphVars, register, mirror, local,
              streams, readers, stoppers
<1>2. ASSUME NEW r \in Runs, Call(r) PROVE TypeInv'
  <2>1. TypeOK'
    BY <1>2, CallType
  <2>2. step' = step /\ \A t \in Runs : pc'[t] = "decide" => pc[t] = "decide"
    BY <1>2 DEF Call, Goto, Return, TypeOK, TypeRuns
  <2> QED
    BY <2>1, <2>2
<1>3. ASSUME NEW r \in Runs, NEW q \in Runs, Resume(r, q) PROVE TypeInv'
  <2>1. TypeOK'
    BY <1>3, ResumeType
  <2>2. /\ pc \in [Runs -> Labels] /\ step \in [Runs -> Nat]
        /\ pc' = [pc EXCEPT ![r] = "snapshot"] \/ pc' = [pc EXCEPT ![r] = "returned"]
        /\ \A t \in Runs \ {r} : step'[t] = step[t]
    BY <1>3 DEF Resume, ResumeAt, ResumeAfter, Goto, Return, TypeOK, TypeRuns
  <2> QED
    BY <2>1, <2>2
<1>4. ASSUME NEW r \in Runs, Step(r) PROVE TypeInv'
  <2>1. TypeOK'
    BY <1>4, StepType
  <2>2. pc \in [Runs -> Labels] /\ step \in [Runs -> Nat]
    BY DEF TypeOK, TypeRuns
  <2>3. CASE Save(r)
    BY <2>1, <2>2, <2>3 DEF Save, Goto
  <2>4. CASE ~Save(r)
    <3>1. step' = step
      BY <1>4, <2>4 DEF Step, Snapshot, Register, Stop, HitLimit, PauseBefore, BeginNode,
         NodeReturns, NodeFails, NodeRetries, DelayEnds, Record, Emit, Apply, Decide, Unwind, local
    <3>2. \A t \in Runs : pc'[t] = "decide" => pc[t] = "decide"
      BY <1>4, <2>2, <2>4 DEF Step, Snapshot, Register, Stop, HitLimit, PauseBefore, BeginNode,
         NodeReturns, NodeFails, NodeRetries, DelayEnds, Record, Emit, Apply, Decide, Follow,
         Unwind, Goto, Leave, Return
    <3> QED
      BY <2>1, <3>1, <3>2
  <2> QED
    BY <2>3, <2>4
<1>5. CASE Environment
  <2>1. TypeOK'
    BY <1>5, EnvironmentType
  <2>2. UNCHANGED <<pc, step>>
    BY <1>5 DEF Environment, Stopper, EndContext, Receive, EndRange, CopyHandles, Signal,
       EndInterrupt, CloseOnce, ClearBreakpoints, Reset, DrainGraph, local
  <2> QED
    BY <2>1, <2>2
<1> QED
  BY <1>1, <1>2, <1>3, <1>4, <1>5, NextCases

(* The engine keeps its types: in particular the graph-wide channel never  *)
(* holds more than its capacity and the step counter never goes negative,  *)
(* whatever the graph, its conditions and the callers do.                  *)
THEOREM TypesKept == Spec => []TypeOK
<1>1. Init => TypeInv
  BY InitType DEF TypeInv, Init
<1>2. TypeInv => TypeOK
  BY DEF TypeInv
<1> QED
  BY <1>1, <1>2, TypeInvStep, PTL DEF Spec

(* A run registers its handle on the way into the loop and removes it on    *)
(* the way out; every other step leaves it on the side of the loop it is on.*)
LEMMA HandlesStep == TypeInv /\ HandlesMatchRuns /\ [Next]_vars => HandlesMatchRuns'
<1> SUFFICES ASSUME TypeInv, HandlesMatchRuns, [Next]_vars PROVE HandlesMatchRuns'
  OBVIOUS
<1> USE DEF register
<1>1. pc \in [Runs -> Labels] /\ active \subseteq Runs /\ IsFiniteSet(active)
  BY EngineAssumption, FS_Subset DEF TypeInv, TypeOK, TypeRuns, TypeGraph
<1>2. Cardinality(active) \in Nat /\ running = Cardinality(active)
  BY <1>1, FS_CardinalityType DEF HandlesMatchRuns
<1>3. ASSUME UNCHANGED <<active, running>>,
             \A t \in Runs : pc'[t] \in InFlight <=> pc[t] \in InFlight
      PROVE  HandlesMatchRuns'
  BY <1>3 DEF HandlesMatchRuns
<1>4. CASE UNCHANGED vars
  BY <1>3, <1>4 DEF vars
<1>5. ASSUME NEW r \in Runs, Call(r) PROVE HandlesMatchRuns'
  BY <1>1, <1>3, <1>5 DEF Call, Goto, Return, InFlight
<1>6. ASSUME NEW r \in Runs, NEW q \in Runs, Resume(r, q) PROVE HandlesMatchRuns'
  BY <1>1, <1>3, <1>6 DEF Resume, ResumeAt, ResumeAfter, Goto, Return, InFlight
<1>7. ASSUME NEW r \in Runs, Step(r) PROVE HandlesMatchRuns'
  <2>1. CASE Register(r)
    <3>1. pc[r] = "register" /\ pc' = [pc EXCEPT ![r] = "loop"]
      BY <2>1 DEF Register, Goto
    <3>2. active' = active \cup {r} /\ running' = running + 1
      BY <2>1 DEF Register
    <3>3. r \notin active
      BY <3>1 DEF HandlesMatchRuns, InFlight
    <3>4. Cardinality(active') = Cardinality(active) + 1
      BY <1>1, <3>2, <3>3, FS_AddElement
    <3> QED
      BY <1>1, <1>2, <3>1, <3>2, <3>4 DEF HandlesMatchRuns, InFlight
  <2>2. CASE Unwind(r)
    <3>1. pc[r] = "unwind" /\ pc' = [pc EXCEPT ![r] = "returned"]
      BY <2>2 DEF Unwind, Goto
    <3>2. active' = active \ {r} /\ running' = IF running > 0 THEN running - 1 ELSE running
      BY <2>2 DEF Unwind
    <3>3. r \in active
      BY <3>1 DEF HandlesMatchRuns, InFlight
    <3>4. Cardinality(active') = Cardinality(active) - 1
      BY <1>1, <3>2, <3>3, FS_RemoveElement
    <3>5. Cardinality(active') \in Nat
      BY <1>1, <3>2, FS_RemoveElement, FS_CardinalityType
    <3>6. running' = Cardinality(active')
      BY <1>2, <3>2, <3>4, <3>5
    <3> QED
      BY <1>1, <3>1, <3>2, <3>6 DEF HandlesMatchRuns, InFlight
  <2>3. CASE ~Register(r) /\ ~Unwind(r)
    <3>1. UNCHANGED <<active, running>>
      BY <1>7, <2>3 DEF Step, Snapshot, Stop, HitLimit, PauseBefore, BeginNode,
         NodeReturns, NodeFails, NodeRetries, DelayEnds, Record, Emit, Apply, Save, Decide
    <3>2. \A t \in Runs : pc'[t] \in InFlight <=> pc[t] \in InFlight
      BY <1>1, <1>7, <2>3 DEF Step, Snapshot, Stop, HitLimit, PauseBefore, GoesOn, BeginNode,
         NodeReturns, NodeFails, NodeRetries, DelayEnds, Record, Emit, Apply, Save, Decide,
         Follow, Goto, Leave, Return, InFlight
    <3> QED
      BY <1>3, <3>1, <3>2
  <2> QED
    BY <2>1, <2>2, <2>3
<1>8. CASE Environment
  BY <1>3, <1>8 DEF Environment, Stopper, EndContext, Receive, EndRange, CopyHandles, Signal,
     EndInterrupt, CloseOnce, ClearBreakpoints, Reset, DrainGraph
<1> QED
  BY <1>4, <1>5, <1>6, <1>7, <1>8, NextCases

(* However many calls run at once and however they end, IsRunning and the   *)
(* handles that Interrupt signals are exactly the runs in their loops.      *)
THEOREM HandlesTrue == Spec => []HandlesMatchRuns
<1>1. Init => TypeInv
  BY InitType DEF TypeInv, Init
<1>2. Init => HandlesMatchRuns
  BY FS_EmptySet DEF Init, HandlesMatchRuns, InFlight
<1> QED
  BY <1>1, <1>2, TypeInvStep, HandlesStep, PTL DEF Spec

(* Closing happens once: the graph-wide channel is open exactly until the   *)
(* graph is closed, and a per-run channel until its call returns.           *)
ChannelInv ==
    /\ NeverCrashes
    /\ chanOpen = ~closed
    /\ \A r \in Streamed : pc[r] # "returned" => runOpen[r]

LEMMA ChannelStep == TypeInv /\ ChannelInv /\ [Next]_vars => ChannelInv'
<1> SUFFICES ASSUME TypeInv, ChannelInv, [Next]_vars PROVE ChannelInv'
  OBVIOUS
<1> USE DEF graphVars, streams, ChannelInv, NeverCrashes
<1>1. /\ pc \in [Runs -> Labels] /\ runOpen \in [Runs -> BOOLEAN] /\ Streamed \subseteq Runs
      /\ closed \in BOOLEAN /\ chanOpen \in BOOLEAN /\ crashed \in BOOLEAN
  BY EngineAssumption DEF TypeInv, TypeOK, TypeRuns, TypeGraph, TypeOthers
<1>2. ASSUME UNCHANGED <<closed, chanOpen, runOpen, crashed>>,
             \A t \in Streamed : pc[t] = "returned" => pc'[t] = "returned"
      PROVE  ChannelInv'
  BY <1>1, <1>2
<1>3. CASE UNCHANGED vars
  BY <1>2, <1>3 DEF vars
<1>4. ASSUME NEW r \in Runs, Call(r) PROVE ChannelInv'
  BY <1>1, <1>2, <1>4 DEF Call, Goto, Return
<1>5. ASSUME NEW r \in Runs, NEW q \in Runs, Resume(r, q) PROVE ChannelInv'
  BY <1>1, <1>2, <1>5 DEF Resume, ResumeAt, ResumeAfter, Goto, Return
<1>6. ASSUME NEW r \in Runs, Step(r) PROVE ChannelInv'
  <2>1. CASE Unwind(r)
    <3>1. /\ pc[r] = "unwind" /\ pc' = [pc EXCEPT ![r] = "returned"]
          /\ runOpen' = [runOpen EXCEPT ![r] = FALSE]
          /\ crashed' = (crashed \/ (r \in Streamed /\ ~runOpen[r]))
          /\ UNCHANGED <<closed, chanOpen>>
      BY <2>1 DEF Unwind, Goto
    <3>2. ~crashed'
      BY <1>1, <3>1
    <3> QED
      BY <1>1, <3>1, <3>2
  <2>2. CASE Emit(r)
    <3>1. UNCHANGED <<closed, chanOpen, runOpen>> /\ ~crashed'
      BY <1>1, <2>2 DEF Emit, SendToRun, SendToGraph
    <3>2. \A t \in Runs : pc[t] = "returned" => pc'[t] = "returned"
      BY <1>1, <2>2 DEF Emit, Goto, Leave
    <3> QED
      BY <1>1, <3>1, <3>2
  <2>3. CASE ~Unwind(r) /\ ~Emit(r)
    <3>1. UNCHANGED <<closed, chanOpen, runOpen, crashed>>
      BY <1>6, <2>3 DEF Step, Snapshot, Register, Stop, HitLimit, PauseBefore, BeginNode,
         NodeReturns, NodeFails, NodeRetries, DelayEnds, Record, Apply, Save, Decide
    <3>2. \A t \in Runs : pc[t] = "returned" => pc'[t] = "returned"
      BY <1>1, <1>6, <2>3 DEF Step, Snapshot, Register, Stop, HitLimit, PauseBefore, GoesOn,
         BeginNode, NodeReturns, NodeFails, NodeRetries, DelayEnds, Record, Apply, Save, Decide,
         Follow, Goto, Leave, Return
    <3> QED
      BY <1>1, <1>2, <3>1, <3>2
  <2> QED
    BY <2>1, <2>2, <2>3
<1>7. CASE Environment
  <2>1. ASSUME NEW c \in Stoppers, CloseOnce(c) PROVE ChannelInv'
    BY <1>1, <2>1 DEF CloseOnce
  <2>2. CASE ~ \E c \in Stoppers : CloseOnce(c)
    BY <1>2, <1>7, <2>2 DEF Environment, Stopper, EndContext, Receive, EndRange, CopyHandles,
       Signal, EndInterrupt, ClearBreakpoints, Reset, DrainGraph
  <2> QED
    BY <2>1, <2>2
<1> QED
  BY <1>3, <1>4, <1>5, <1>6, <1>7, NextCases

(* No interleaving of runs, Close and the deferred close of a per-run       *)
(* stream sends on, or closes again, a channel that is already closed.      *)
THEOREM NoPanic == Spec => []NeverCrashes
<1>1. Init => TypeInv
  BY InitType DEF TypeInv, Init
<1>2. Init => ChannelInv
  BY EngineAssumption DEF Init, ChannelInv, NeverCrashes
<1>3. ChannelInv => NeverCrashes
  BY DEF ChannelInv
<1> QED
  BY <1>1, <1>2, <1>3, TypeInvStep, ChannelStep, PTL DEF Spec

-----------------------------------------------------------------------------
(* Only runs that registered are ever signaled, and a signaled run that is  *)
(* not in the middle of a node does not begin another one.                  *)
MidNode == {"attempt", "delay", "record", "emit", "apply"}

Prompt(r) ==
    /\ \A c \in Stoppers : r \in todo[c] => pc[r] \in InFlight \cup {"returned"}
    /\ signaled[r] >= 0 =>
         /\ pc[r] \in InFlight \cup {"returned"}
         /\ Len(trace[r]) <= signaled[r] + (IF pc[r] \in MidNode THEN 0 ELSE 1)

PromptInv == \A r \in Runs : Prompt(r)

LEMMA PromptStep ==
    TypeInv /\ HandlesMatchRuns /\ PromptInv /\ [Next]_vars => PromptInv'
<1> SUFFICES ASSUME TypeInv, HandlesMatchRuns, PromptInv, [Next]_vars, NEW t \in Runs
             PROVE  Prompt(t)'
  BY DEF PromptInv
<1>1. /\ pc \in [Runs -> Labels] /\ trace \in [Runs -> Seq(Places)]
      /\ todo \in [Stoppers -> SUBSET Runs] /\ signaled \in [Runs -> Nat \cup {-1}]
      /\ Len(trace[t]) \in Nat /\ signaled[t] \in Nat \cup {-1}
  BY DEF TypeInv, TypeOK, TypeRuns, TypeOthers
<1>2. Prompt(t)
  BY DEF PromptInv
<1>3. ASSUME UNCHANGED <<todo, signaled>>, trace'[t] = trace[t],
             pc[t] \in InFlight \cup {"returned"} => pc'[t] \in InFlight \cup {"returned"},
             signaled[t] >= 0 => (pc'[t] \in MidNode => pc[t] \in MidNode)
      PROVE  Prompt(t)'
  BY <1>1, <1>2, <1>3 DEF Prompt
<1>4. CASE UNCHANGED vars
  BY <1>3, <1>4 DEF vars, local, stoppers
<1>5. ASSUME NEW r \in Runs, Call(r) PROVE Prompt(t)'
  <2>1. UNCHANGED <<todo, signaled, trace>> /\ pc[r] = "idle"
    BY <1>5 DEF Call, stoppers
  <2>2. pc'[r] \in {"snapshot", "returned"} /\ \A q \in Runs \ {r} : pc'[q] = pc[q]
    BY <1>1, <1>5 DEF Call, Goto, Return
  <2> QED
    BY <1>1, <1>3, <2>1, <2>2 DEF InFlight, MidNode
<1>6. ASSUME NEW r \in Runs, NEW q \in Runs, Resume(r, q) PROVE Prompt(t)'
  <2>1. UNCHANGED <<todo, signaled>> /\ pc[r] = "idle" /\ trace' = [trace EXCEPT ![r] = trace[q]]
    BY <1>6 DEF Resume, stoppers
  <2>2. pc'[r] \in {"snapshot", "returned"} /\ \A u \in Runs \ {r} : pc'[u] = pc[u]
    BY <1>1, <1>6 DEF Resume, ResumeAt, ResumeAfter, Goto, Return
  <2>3. CASE t = r
    <3>1. ~(signaled[t] >= 0) /\ \A c \in Stoppers : t \notin todo[c]
      BY <1>2, <2>1, <2>3 DEF Prompt, InFlight
    <3> QED
      BY <2>1, <3>1 DEF Prompt
  <2>4. CASE t # r
    BY <1>1, <1>3, <2>1, <2>2, <2>4
  <2> QED
    BY <2>3, <2>4
<1>7. ASSUME NEW r \in Runs, Step(r) PROVE Prompt(t)'
  <2>1. UNCHANGED <<todo, signaled>>
    BY <1>7 DEF Step, Snapshot, Register, Stop, HitLimit, PauseBefore, BeginNode, NodeReturns,
       NodeFails, NodeRetries, DelayEnds, Record, Emit, Apply, Save, Decide, Unwind, stoppers
  <2>2. CASE Apply(r)
    <3>1. /\ pc[r] = "apply" /\ pc' = [pc EXCEPT ![r] = "save"]
          /\ trace' = [trace EXCEPT ![r] = Append(@, node[r])]
      BY <2>2 DEF Apply, Goto
    <3>2. CASE t = r
      <4>1. Len(trace'[t]) = Len(trace[t]) + 1 /\ pc[t] = "apply" /\ pc'[t] = "save"
        BY <1>1, <3>1, <3>2
      <4> QED
        BY <1>1, <1>2, <2>1, <4>1 DEF Prompt, InFlight, MidNode
    <3>3. CASE t # r
      BY <1>1, <1>3, <2>1, <3>1, <3>3
    <3> QED
      BY <3>2, <3>3
  <2>3. CASE BeginNode(r)
    <3>1. /\ UNCHANGED trace /\ pc[r] = "loop" /\ signaled[r] < 0
          /\ pc' = [pc EXCEPT ![r] = "attempt"] \/ pc' = [pc EXCEPT ![r] = "record"]
      BY <2>3 DEF BeginNode, GoesOn, Goto
    <3>2. signaled[r] >= 0 => FALSE
      <4>1. signaled[r] \in Nat \cup {-1} /\ signaled[r] < 0
        BY <1>1, <3>1
      <4> QED
        BY <4>1
    <3> QED
      BY <1>1, <1>3, <2>1, <3>1, <3>2 DEF InFlight
  <2>4. CASE ~Apply(r) /\ ~BeginNode(r)
    <3>1. UNCHANGED trace
      BY <1>7, <2>4 DEF Step, Snapshot, Register, Stop, HitLimit, PauseBefore, NodeReturns,
         NodeFails, NodeRetries, DelayEnds, Record, Emit, Save, Decide, Unwind, local
    <3>2. /\ pc[t] \in InFlight \cup {"returned"} => pc'[t] \in InFlight \cup {"returned"}
          /\ pc'[t] \in MidNode => pc[t] \in MidNode
      BY <1>1, <1>7, <2>4 DEF Step, Snapshot, Register, Stop, HitLimit, PauseBefore, GoesOn,
         NodeReturns, NodeFails, NodeRetries, DelayEnds, Record, Emit, Save, Decide, Follow,
         Unwind, Goto, Leave, Return, InFlight, MidNode
    <3> QED
      BY <1>3, <2>1, <3>1, <3>2
  <2> QED
    BY <2>2, <2>3, <2>4
<1>8. CASE Environment
  <2>1. UNCHANGED <<pc, trace>>
    BY <1>8 DEF Environment, Stopper, EndContext, Receive, EndRange, CopyHandles, Signal,
       EndInterrupt, CloseOnce, ClearBreakpoints, Reset, DrainGraph, local
  <2>2. ASSUME NEW c \in Stoppers, CopyHandles(c) PROVE Prompt(t)'
    <3>1. todo' = [todo EXCEPT ![c] = active] /\ UNCHANGED signaled
      BY <2>2 DEF CopyHandles
    <3>2. t \in active => pc[t] \in InFlight
      BY DEF HandlesMatchRuns
    <3> QED
      BY <1>1, <1>2, <2>1, <3>1, <3>2 DEF Prompt
  <2>3. ASSUME NEW c \in Stoppers, NEW r \in Runs, Signal(c, r) PROVE Prompt(t)'
    <3>1. /\ r \in todo[c] /\ todo' = [todo EXCEPT ![c] = @ \ {r}]
          /\ signaled' = IF signaled[r] < 0
                         THEN [signaled EXCEPT ![r] = Len(trace[r])] ELSE signaled
      BY <2>3 DEF Signal
    <3>2. \A d \in Stoppers : t \in todo'[d] => t \in todo[d]
      BY <1>1, <3>1
    <3>3. signaled'[t] = signaled[t] \/ (t = r /\ signaled'[t] = Len(trace[t]))
      BY <1>1, <3>1
    <3> QED
      BY <1>1, <1>2, <2>1, <3>1, <3>2, <3>3 DEF Prompt
  <2>4. CASE ~ \E c \in Stoppers : CopyHandles(c) \/ \E r \in Runs : Signal(c, r)
    <3>1. UNCHANGED <<todo, signaled>>
      BY <1>8, <2>4 DEF Environment, Stopper, EndContext, Receive, EndRange, EndInterrupt,
         CloseOnce, ClearBreakpoints, Reset, DrainGraph, stoppers
    <3> QED
      BY <1>3, <2>1, <3>1
  <2> QED
    BY <2>2, <2>3, <2>4
<1> QED
  BY <1>4, <1>5, <1>6, <1>7, <1>8, NextCases

(* Interrupt and Close stop every run they signal after one node at most.   *)
THEOREM InterruptsPrompt == Spec => []InterruptIsPrompt
<1>1. Init => TypeInv /\ HandlesMatchRuns
  BY InitType, FS_EmptySet DEF TypeInv, Init, HandlesMatchRuns, InFlight
<1>2. Init => PromptInv
  BY DEF Init, PromptInv, Prompt
<1>3. TypeInv /\ PromptInv => InterruptIsPrompt
  <2> SUFFICES ASSUME TypeInv, PromptInv, NEW r \in Runs, signaled[r] >= 0
               PROVE  Len(trace[r]) <= signaled[r] + 1
    BY DEF InterruptIsPrompt
  <2>1. Len(trace[r]) \in Nat /\ signaled[r] \in Nat \cup {-1}
    BY DEF TypeInv, TypeOK, TypeRuns, TypeOthers
  <2> QED
    BY <2>1 DEF PromptInv, Prompt
<1> QED
  BY <1>1, <1>2, <1>3, TypeInvStep, HandlesStep, PromptStep, PTL DEF Spec

------------------------------------------------------------------------------
(* The engine implements the run contract: whatever the interleaving of     *)
(* calls, retries, pauses, resumptions and interrupts, for every graph.     *)
(* Then what follows from where a run stands: the data of attempts and      *)
(* checkpoints, the results a reader of its stream receives, and the        *)
(* history of the most recent run.                                          *)

(* Between its call and the end of a node a run stands at node[r], having   *)
(* completed step[r] nodes, the last of which routes to node[r].            *)
Before == {"snapshot", "register", "loop", "attempt", "delay", "record", "emit", "apply"}

Last(r) == trace[r][Len(trace[r])]
NextIs(r, n) == n \in Graph.nodes => Contract!Follows(trace[r], n)

Standing(r) ==
    /\ pc[r] = "idle" => trace[r] = <<>> /\ step[r] = 0
    /\ pc[r] \in Before => step[r] = Len(trace[r]) /\ NextIs(r, node[r])
    /\ pc[r] \in {"attempt", "delay", "record", "emit", "apply"} =>
         (MaxIterations > 0 => step[r] < MaxIterations)
    /\ pc[r] \in {"attempt", "delay", "apply"} => node[r] \in Graph.nodes
    /\ pc[r] \in {"record", "emit"} /\ pending[r].ok => node[r] \in Graph.nodes
    /\ pc[r] \in {"save", "decide"} =>
         trace[r] # <<>> /\ node[r] = Last(r) /\ node[r] \in Graph.nodes
    /\ pc[r] = "save" => step[r] = Len(trace[r]) - 1
    /\ pc[r] = "decide" => step[r] = Len(trace[r])

(* What a call is about to return, or has returned, tells the truth, and a  *)
(* pause names the place at which to go on.                                 *)
TellsTruth(r) ==
    pc[r] \in {"unwind", "returned"} =>
        /\ out[r].kind # "none"
        /\ out[r].kind = "ok" => trace[r] # <<>> /\ Last(r) \in Exits
        /\ out[r].kind = "limit" => MaxIterations > 0 /\ Len(trace[r]) >= MaxIterations
        /\ out[r].kind \in {"noRoute", "condition"} => trace[r] # <<>>
        /\ out[r].kind = "pausedBefore" =>
             out[r].step = Len(trace[r]) /\ NextIs(r, out[r].node)
        /\ out[r].kind = "pausedAfter" =>
             /\ trace[r] # <<>> /\ out[r].node = Last(r) /\ out[r].node \in Graph.nodes
             /\ out[r].node \in PauseAfter
             /\ out[r].step = Len(trace[r]) - 1

RunInv == TypeInv /\ \A r \in Runs : Standing(r) /\ TellsTruth(r)

(* A step of one call leaves the others where they are. *)
Keeps(t) == UNCHANGED <<pc[t], node[t], step[t], trace[t], pending[t], out[t]>>

LEMMA KeptRun ==
    ASSUME NEW t \in Runs, Keeps(t), Standing(t), TellsTruth(t)
    PROVE  Standing(t)' /\ TellsTruth(t)'
  BY DEF Keeps, Standing, TellsTruth, NextIs, Last, Contract!Follows

LEMMA OthersKept ==
    ASSUME TypeOK, NEW r \in Runs, NEW t \in Runs, t # r,
           Call(r) \/ (\E q \in Runs : Resume(r, q)) \/ Step(r)
    PROVE  Keeps(t)
<1>1. /\ pc \in [Runs -> Labels] /\ node \in [Runs -> Places] /\ step \in [Runs -> Nat]
      /\ trace \in [Runs -> Seq(Places)]
      /\ pending \in [Runs -> [ok : BOOLEAN, state : SUBSET Writes]]
      /\ out \in [Runs -> [kind : Kinds, node : Places, step : Nat]]
  BY DEF TypeOK, TypeRuns
<1>2. CASE Call(r)
  BY <1>1, <1>2 DEF Call, Goto, Return, Keeps
<1>3. ASSUME NEW q \in Runs, Resume(r, q) PROVE Keeps(t)
  BY <1>1, <1>3 DEF Resume, ResumeAt, ResumeAfter, Goto, Return, Keeps
<1>4. CASE Step(r)
  <2>1. pc'[t] = pc[t] /\ out'[t] = out[t]
    BY <1>1, <1>4 DEF Step, Snapshot, Register, Stop, HitLimit, PauseBefore, BeginNode,
       NodeReturns, NodeFails, NodeRetries, DelayEnds, Record, Emit, Apply, Save, Decide, Follow,
       Unwind, Goto, Leave, Return
  <2>2. node'[t] = node[t] /\ step'[t] = step[t] /\ trace'[t] = trace[t]
    BY <1>1, <1>4 DEF Step, Snapshot, Register, Stop, HitLimit, PauseBefore, BeginNode,
       NodeReturns, NodeFails, NodeRetries, DelayEnds, Record, Emit, Apply, Save, Decide, Follow,
       Unwind, local
  <2>3. pending'[t] = pending[t]
    BY <1>1, <1>4 DEF Step, Snapshot, Register, Stop, HitLimit, PauseBefore, BeginNode,
       NodeReturns, NodeFails, NodeRetries, DelayEnds, Record, Emit, Apply, Save, Decide, Unwind,
       local
  <2> QED
    BY <2>1, <2>2, <2>3 DEF Keeps
<1> QED
  BY <1>2, <1>3, <1>4

(* The error of routeFrom is the only thing that distinguishes its results. *)
LEMMA RouteShape ==
    ASSUME NEW n, NEW ask, RouteFrom(Graph, n, ask).err = "none"
    PROVE  RouteFrom(Graph, n, ask) = Route(RouteFrom(Graph, n, ask).to)
  BY DEF RouteFrom, RouteByTable, RouteByEdges, Route, RouteErr

(* What follows a completed node is one of its arcs, or an exit. *)
LEMMA RouteIsArc ==
    ASSUME NEW n \in Graph.nodes, NEW ask \in Asks, RouteFrom(Graph, n, ask).err = "none",
           n \in Graph.ends => n \in PauseAfter
    PROVE  LET to == RouteFrom(Graph, n, ask).to
           IN  /\ to \in Graph.nodes => <<n, to>> \in Arcs
               /\ Terminal(to) => n \in Exits
<1> DEFINE to == RouteFrom(Graph, n, ask).to
<1>1. RouteFrom(Graph, n, ask) = Route(to)
  BY RouteShape
<1>2. to \in Graph.nodes => <<n, to>> \in Arcs
  BY <1>1 DEF Arcs
<1>3. Terminal(to) => n \in Exits
  BY DEF Exits
<1> QED
  BY <1>2, <1>3

(* A call that is about to return or has returned only has to tell the truth. *)
LEMMA OverStands ==
    ASSUME NEW r \in Runs, pc'[r] \in {"unwind", "returned"}
    PROVE  Standing(r)'
  BY DEF Standing, Before

LEMMA NotOverTells ==
    ASSUME NEW r \in Runs, pc'[r] \notin {"unwind", "returned"}
    PROVE  TellsTruth(r)'
  BY DEF TellsTruth

LEMMA CallStands ==
    ASSUME RunInv, NEW r \in Runs, Call(r)
    PROVE  Standing(r)' /\ TellsTruth(r)'
<1>1. /\ pc \in [Runs -> Labels] /\ node \in [Runs -> Places]
      /\ out \in [Runs -> [kind : Kinds, node : Places, step : Nat]]
  BY DEF RunInv, TypeInv, TypeOK, TypeRuns
<1>2. trace[r] = <<>> /\ step[r] = 0 /\ trace' = trace /\ step' = step
  BY DEF RunInv, Standing, Call
<1>3. CASE Valid(Graph)
  <2>1. pc'[r] = "snapshot" /\ node'[r] = Graph.start
    BY <1>1, <1>3 DEF Call, Goto
  <2>2. Standing(r)'
    BY <1>2, <2>1 DEF Standing, Before, NextIs, Contract!Follows
  <2> QED
    BY <2>1, <2>2, NotOverTells
<1>4. CASE ~Valid(Graph)
  <2>1. pc'[r] = "returned" /\ out'[r].kind = "refused"
    BY <1>1, <1>4 DEF Call, Goto, Return, Result
  <2>2. TellsTruth(r)'
    BY <2>1 DEF TellsTruth
  <2> QED
    BY <2>1, <2>2, OverStands
<1> QED
  BY <1>3, <1>4

LEMMA ResumeStands ==
    ASSUME RunInv, NEW r \in Runs, NEW q \in Runs, Resume(r, q)
    PROVE  Standing(r)' /\ TellsTruth(r)'
<1>1. /\ pc \in [Runs -> Labels] /\ node \in [Runs -> Places] /\ step \in [Runs -> Nat]
      /\ trace \in [Runs -> Seq(Places)]
      /\ out \in [Runs -> [kind : Kinds, node : Places, step : Nat]]
  BY DEF RunInv, TypeInv, TypeOK, TypeRuns
<1>2. trace'[r] = trace[q] /\ pc[q] = "returned" /\ TellsTruth(q)
  BY <1>1 DEF Resume, RunInv
<1>3. ASSUME NEW n, NEW s, ResumeAt(r, q, n, s), s = Len(trace[q]),
             n \in Graph.nodes => Contract!Follows(trace[q], n)
      PROVE  Standing(r)' /\ TellsTruth(r)'
  <2>1. pc'[r] = "snapshot" /\ node'[r] = n /\ step'[r] = s
    BY <1>1, <1>3 DEF ResumeAt, Goto
  <2>2. Standing(r)'
    BY <1>2, <1>3, <2>1 DEF Standing, Before, NextIs, Contract!Follows
  <2> QED
    BY <2>1, <2>2, NotOverTells
<1>4. CASE out[q].kind = "pausedBefore"
  <2>1. ResumeAt(r, q, out[q].node, out[q].step)
    BY <1>4 DEF Resume
  <2>2. out[q].step = Len(trace[q]) /\ NextIs(q, out[q].node)
    BY <1>2, <1>4 DEF TellsTruth
  <2> QED
    BY <1>3, <2>1, <2>2 DEF NextIs
<1>5. CASE out[q].kind # "pausedBefore"
  <2>1. /\ trace[q] # <<>> /\ out[q].node = Last(q) /\ out[q].node \in Graph.nodes
        /\ out[q].node \in PauseAfter /\ out[q].step = Len(trace[q]) - 1
    BY <1>2, <1>5 DEF Resume, Paused, TellsTruth
  <2>2. PICK ask \in Asks : ResumeAfter(r, q, RouteFrom(Graph, out[q].node, ask))
    BY <1>5 DEF Resume
  <2> DEFINE next == RouteFrom(Graph, out[q].node, ask)
  <2>3. next.err \in {"none", "condition", "noRoute"} /\ next.to \in Places
    BY RouteFromType
  <2>4. next.err = "none" => /\ next.to \in Graph.nodes => <<out[q].node, next.to>> \in Arcs
                             /\ Terminal(next.to) => out[q].node \in Exits
    BY <2>1, RouteIsArc
  <2>5. ResumeAfter(r, q, next)
    BY <2>2
  <2> HIDE DEF next
  <2>6. CASE next.err # "none" \/ Terminal(next.to)
    <3>1. \E k \in {"condition", "noRoute", "ok"} :
             /\ Return(r, Result(k, out[q].node, out[q].step))
             /\ k = "ok" => out[q].node \in Exits
      BY <2>3, <2>4, <2>5, <2>6 DEF ResumeAfter
    <3>2. pc'[r] = "returned" /\ out'[r].kind \in {"condition", "noRoute", "ok"}
          /\ (out'[r].kind = "ok" => Last(q) \in Exits)
      BY <1>1, <2>1, <3>1 DEF Return, Goto, Result
    <3>3. TellsTruth(r)'
      BY <1>2, <2>1, <3>2 DEF TellsTruth, Last
    <3> QED
      BY <3>2, <3>3, OverStands
  <2>7. CASE next.err = "none" /\ ~Terminal(next.to)
    <3>1. ResumeAt(r, q, next.to, out[q].step + 1)
      BY <2>5, <2>7 DEF ResumeAfter
    <3>2. out[q].step + 1 = Len(trace[q])
      BY <1>1, <2>1
    <3>3. next.to \in Graph.nodes => Contract!Follows(trace[q], next.to)
      BY <2>1, <2>4, <2>7 DEF Contract!Follows, Last
    <3> QED
      BY <1>3, <3>1, <3>2, <3>3
  <2> QED
    BY <2>6, <2>7
<1> QED
  BY <1>4, <1>5

LEMMA StepStands ==
    ASSUME RunInv, NEW r \in Runs, Step(r)
    PROVE  Standing(r)' /\ TellsTruth(r)'
<1>1. /\ pc \in [Runs -> Labels] /\ node \in [Runs -> Places] /\ step \in [Runs -> Nat]
      /\ trace \in [Runs -> Seq(Places)] /\ node[r] \in Places /\ step[r] \in Nat
      /\ pending \in [Runs -> [ok : BOOLEAN, state : SUBSET Writes]]
      /\ out \in [Runs -> [kind : Kinds, node : Places, step : Nat]]
      /\ MaxIterations \in Nat /\ Len(trace[r]) \in Nat
  BY EngineAssumption DEF RunInv, TypeInv, TypeOK, TypeRuns
<1>2. Standing(r) /\ TellsTruth(r)
  BY DEF RunInv
<1>3. CASE Snapshot(r)
  <2>1. UNCHANGED <<node, step, trace>> /\ pc[r] = "snapshot"
    BY <1>3 DEF Snapshot, local
  <2>2. CASE closed
    <3>1. pc'[r] = "returned" /\ out'[r].kind = "refused"
      BY <1>1, <1>3, <2>2 DEF Snapshot, Return, Goto, Result
    <3>2. TellsTruth(r)'
      BY <3>1 DEF TellsTruth
    <3> QED
      BY <3>1, <3>2, OverStands
  <2>3. CASE ~closed
    <3>1. pc'[r] = "register"
      BY <1>1, <1>3, <2>3 DEF Snapshot, Goto
    <3>2. Standing(r)'
      BY <1>2, <2>1, <3>1 DEF Standing, Before, NextIs, Contract!Follows
    <3> QED
      BY <3>1, <3>2, NotOverTells
  <2> QED
    BY <2>2, <2>3
<1>4. CASE Register(r)
  <2>1. UNCHANGED <<node, step, trace>> /\ pc[r] = "register" /\ pc'[r] = "loop"
    BY <1>1, <1>4 DEF Register, local, Goto
  <2>2. Standing(r)'
    BY <1>2, <2>1 DEF Standing, Before, NextIs, Contract!Follows
  <2> QED
    BY <2>1, <2>2, NotOverTells
<1>5. CASE Stop(r) \/ HitLimit(r) \/ PauseBefore(r)
  <2>1. UNCHANGED <<node, step, trace>> /\ pc[r] = "loop" /\ pc'[r] = "unwind"
    BY <1>1, <1>5 DEF Stop, HitLimit, PauseBefore, GoesOn, local, Leave, Goto
  <2>2. step[r] = Len(trace[r]) /\ NextIs(r, node[r])
    BY <1>2, <2>1 DEF Standing, Before
  <2>3. CASE Stop(r)
    <3>1. out'[r].kind \in {"context", "interrupted"}
      BY <1>1, <2>3 DEF Stop, Leave, Result
    <3>2. TellsTruth(r)'
      BY <3>1 DEF TellsTruth
    <3> QED
      BY <2>1, <3>2, OverStands
  <2>4. CASE HitLimit(r)
    <3>1. out'[r].kind = "limit" /\ MaxIterations > 0 /\ step[r] >= MaxIterations
      BY <1>1, <2>4 DEF HitLimit, AtLimit, Leave, Result
    <3>2. TellsTruth(r)'
      BY <2>1, <2>2, <3>1 DEF TellsTruth
    <3> QED
      BY <2>1, <3>2, OverStands
  <2>5. CASE PauseBefore(r)
    <3>1. out'[r].kind = "pausedBefore" /\ out'[r].node = node[r] /\ out'[r].step = step[r]
      BY <1>1, <2>5 DEF PauseBefore, Leave, Result
    <3>2. TellsTruth(r)'
      BY <2>1, <2>2, <3>1 DEF TellsTruth, NextIs, Contract!Follows
    <3> QED
      BY <2>1, <3>2, OverStands
  <2> QED
    BY <1>5, <2>3, <2>4, <2>5
<1>6. CASE BeginNode(r)
  <2>1. UNCHANGED <<node, step, trace>> /\ pc[r] = "loop"
    BY <1>6 DEF BeginNode, GoesOn
  <2>2. MaxIterations > 0 => step[r] < MaxIterations
    BY <1>1, <1>6 DEF BeginNode, AtLimit
  <2>3. \/ pc'[r] = "attempt" /\ node[r] \in Graph.nodes
        \/ pc'[r] = "record" /\ ~pending'[r].ok
    BY <1>1, <1>6 DEF BeginNode, Goto
  <2>4. Standing(r)'
    BY <1>2, <2>1, <2>2, <2>3 DEF Standing, Before, NextIs, Contract!Follows
  <2> QED
    BY <2>3, <2>4, NotOverTells
<1>7. CASE NodeReturns(r) \/ NodeFails(r) \/ NodeRetries(r) \/ DelayEnds(r)
  <2>1. UNCHANGED <<node, step, trace>> /\ pc[r] \in {"attempt", "delay"}
    BY <1>7 DEF NodeReturns, NodeFails, NodeRetries, DelayEnds
  <2>2. pc'[r] \in {"attempt", "delay", "record"}
    BY <1>1, <1>7 DEF NodeReturns, NodeFails, NodeRetries, DelayEnds, Goto
  <2>3. Standing(r)'
    BY <1>2, <2>1, <2>2 DEF Standing, Before, NextIs, Contract!Follows
  <2> QED
    BY <2>2, <2>3, NotOverTells
<1>8. CASE Record(r)
  <2>1. UNCHANGED <<node, step, trace, pending>> /\ pc[r] = "record" /\ pc'[r] = "emit"
    BY <1>1, <1>8 DEF Record, local, Goto
  <2>2. Standing(r)'
    BY <1>2, <2>1 DEF Standing, Before, NextIs, Contract!Follows
  <2> QED
    BY <2>1, <2>2, NotOverTells
<1>9. CASE Emit(r)
  <2>1. UNCHANGED <<node, step, trace, pending>> /\ pc[r] = "emit"
    BY <1>9 DEF Emit, local
  <2>2. CASE pending[r].ok
    <3>1. pc'[r] = "apply"
      BY <1>1, <1>9, <2>2 DEF Emit, Goto
    <3>2. Standing(r)'
      BY <1>2, <2>1, <2>2, <3>1 DEF Standing, Before, NextIs, Contract!Follows
    <3> QED
      BY <3>1, <3>2, NotOverTells
  <2>3. CASE ~pending[r].ok
    <3>1. pc'[r] = "unwind" /\ out'[r].kind = "failed"
      BY <1>1, <1>9, <2>3 DEF Emit, Leave, Goto, Result
    <3>2. TellsTruth(r)'
      BY <3>1 DEF TellsTruth
    <3> QED
      BY <3>1, <3>2, OverStands
  <2> QED
    BY <2>2, <2>3
<1>10. CASE Apply(r)
  <2>1. /\ UNCHANGED <<node, step>> /\ pc[r] = "apply" /\ pc'[r] = "save"
        /\ trace'[r] = Append(trace[r], node[r])
    BY <1>1, <1>10 DEF Apply, Goto
  <2>2. step[r] = Len(trace[r]) /\ node[r] \in Graph.nodes
    BY <1>2, <2>1 DEF Standing, Before
  <2>3. /\ trace'[r] # <<>> /\ Len(trace'[r]) = Len(trace[r]) + 1
        /\ trace'[r][Len(trace'[r])] = node[r]
    BY <1>1, <2>1
  <2>4. Standing(r)'
    BY <1>1, <2>1, <2>2, <2>3 DEF Standing, Before, Last
  <2> QED
    BY <2>1, <2>4, NotOverTells
<1>11. CASE Save(r)
  <2>1. /\ UNCHANGED <<node, trace>> /\ pc[r] = "save" /\ pc'[r] = "decide"
        /\ step'[r] = step[r] + 1
    BY <1>1, <1>11 DEF Save, Goto
  <2>2. step'[r] = Len(trace[r])
    BY <1>1, <1>2, <2>1 DEF Standing
  <2>3. Standing(r)'
    BY <1>2, <2>1, <2>2 DEF Standing, Before, Last
  <2> QED
    BY <2>1, <2>3, NotOverTells
<1>12. CASE Decide(r)
  <2>1. UNCHANGED <<step, trace>> /\ pc[r] = "decide"
    BY <1>12 DEF Decide
  <2>2. trace[r] # <<>> /\ node[r] = Last(r) /\ node[r] \in Graph.nodes /\ step[r] = Len(trace[r])
    BY <1>2, <2>1 DEF Standing
  <2>3. CASE node[r] \in PauseAfter
    <3>1. /\ pc'[r] = "unwind" /\ out'[r].kind = "pausedAfter"
          /\ out'[r].node = node[r] /\ out'[r].step = step[r] - 1
      BY <1>1, <1>12, <2>3 DEF Decide, Leave, Goto, Result
    <3>2. TellsTruth(r)'
      BY <2>1, <2>2, <2>3, <3>1 DEF TellsTruth, Last
    <3> QED
      BY <3>1, <3>2, OverStands
  <2>4. CASE node[r] \notin PauseAfter /\ node[r] \in Graph.ends
    <3>1. pc'[r] = "unwind" /\ out'[r].kind = "ok"
      BY <1>1, <1>12, <2>4 DEF Decide, Leave, Goto, Result
    <3>2. TellsTruth(r)'
      BY <2>1, <2>2, <2>4, <3>1 DEF TellsTruth, Last, Exits
    <3> QED
      BY <3>1, <3>2, OverStands
  <2>5. CASE node[r] \notin PauseAfter /\ node[r] \notin Graph.ends
    <3>1. PICK ask \in Asks : Follow(r, RouteFrom(Graph, node[r], ask))
      BY <1>12, <2>5 DEF Decide
    <3> DEFINE next == RouteFrom(Graph, node[r], ask)
    <3>2. next.err \in {"none", "condition", "noRoute"} /\ next.to \in Places
      BY RouteFromType
    <3>3. next.err = "none" => /\ next.to \in Graph.nodes => <<node[r], next.to>> \in Arcs
                               /\ Terminal(next.to) => node[r] \in Exits
      BY <2>2, <2>5, RouteIsArc
    <3>4. Follow(r, next)
      BY <3>1
    <3> HIDE DEF next
    <3>5. CASE next.err # "none" \/ Terminal(next.to)
      <4>1. \E k \in {"condition", "noRoute", "ok"} :
               /\ Leave(r, Result(k, node[r], step[r]))
               /\ k = "ok" => node[r] \in Exits
        BY <3>2, <3>3, <3>4, <3>5 DEF Follow
      <4>2. /\ pc'[r] = "unwind" /\ out'[r].kind \in {"condition", "noRoute", "ok"}
            /\ out'[r].kind = "ok" => node[r] \in Exits
        BY <1>1, <4>1 DEF Leave, Goto, Result
      <4>3. TellsTruth(r)'
        BY <2>1, <2>2, <4>2 DEF TellsTruth, Last
      <4> QED
        BY <4>2, <4>3, OverStands
    <3>6. CASE next.err = "none" /\ ~Terminal(next.to)
      <4>1. pc'[r] = "loop" /\ node'[r] = next.to
        BY <1>1, <3>4, <3>6 DEF Follow, Goto
      <4>2. next.to \in Graph.nodes => Contract!Follows(trace[r], next.to)
        BY <2>2, <3>3, <3>6 DEF Contract!Follows, Last
      <4>3. Standing(r)'
        BY <2>1, <2>2, <4>1, <4>2 DEF Standing, Before, NextIs, Contract!Follows
      <4> QED
        BY <4>1, <4>3, NotOverTells
    <3> QED
      BY <3>5, <3>6
  <2> QED
    BY <2>3, <2>4, <2>5
<1>13. CASE Unwind(r)
  <2>1. UNCHANGED <<trace, out>> /\ pc[r] = "unwind" /\ pc'[r] = "returned"
    BY <1>1, <1>13 DEF Unwind, local, Goto
  <2>2. TellsTruth(r)'
    BY <1>2, <2>1 DEF TellsTruth, Last, NextIs, Contract!Follows
  <2> QED
    BY <2>1, <2>2, OverStands
<1> QED
  BY <1>3, <1>4, <1>5, <1>6, <1>7, <1>8, <1>9, <1>10, <1>11, <1>12, <1>13 DEF Step

LEMMA RunInvInit == Init => RunInv
<1> SUFFICES ASSUME Init PROVE RunInv
  OBVIOUS
<1>1. TypeInv
  BY InitType DEF TypeInv, Init
<1>2. ASSUME NEW r \in Runs PROVE Standing(r) /\ TellsTruth(r)
  BY DEF Init, Standing, TellsTruth, Before
<1> QED
  BY <1>1, <1>2 DEF RunInv

LEMMA RunInvStep == RunInv /\ [Next]_vars => RunInv'
<1> SUFFICES ASSUME RunInv, [Next]_vars PROVE RunInv'
  OBVIOUS
<1>1. TypeInv'
  BY TypeInvStep DEF RunInv
<1>2. TypeOK
  BY DEF RunInv, TypeInv
<1>3. ASSUME NEW t \in Runs PROVE Standing(t)' /\ TellsTruth(t)'
  <2>1. Standing(t) /\ TellsTruth(t)
    BY DEF RunInv
  <2>2. CASE UNCHANGED vars \/ Environment
    <3>1. UNCHANGED <<pc, node, step, trace, pending, out>>
      BY <2>2 DEF vars, Environment, Stopper, EndContext, Receive, EndRange, CopyHandles, Signal,
         EndInterrupt, CloseOnce, ClearBreakpoints, Reset, DrainGraph, local
    <3>2. Keeps(t)
      BY <3>1 DEF Keeps
    <3> QED
      BY <2>1, <3>2, KeptRun
  <2>3. ASSUME NEW r \in Runs, Call(r) \/ (\E q \in Runs : Resume(r, q)) \/ Step(r), t # r
        PROVE  Standing(t)' /\ TellsTruth(t)'
    BY <1>2, <2>1, <2>3, OthersKept, KeptRun
  <2>4. CASE Call(t) \/ (\E q \in Runs : Resume(t, q)) \/ Step(t)
    BY <2>4, CallStands, ResumeStands, StepStands
  <2> QED
    BY <2>2, <2>3, <2>4, NextCases
<1> QED
  BY <1>1, <1>3 DEF RunInv

-----------------------------------------------------------------------------
(* The refinement. A call of the engine begins or answers a run of the      *)
(* contract, Apply advances it, the returns finish it, and every other step *)
(* stutters.                                                                *)
LEMMA OneRunMoves ==
    ASSUME TypeOK, TypeOK', NEW r \in Runs, \A t \in Runs \ {r} : Keeps(t)
    PROVE  /\ Phase' = [Phase EXCEPT ![r] = Phase'[r]]
           /\ End' = [End EXCEPT ![r] = End'[r]]
           /\ trace' = [trace EXCEPT ![r] = trace'[r]]
           /\ Phase'[r] = Phase[r] => Phase' = Phase
           /\ End'[r] = End[r] => End' = End
           /\ trace'[r] = trace[r] => trace' = trace
<1>1. ASSUME NEW t \in Runs, t # r
      PROVE  Phase'[t] = Phase[t] /\ End'[t] = End[t] /\ trace'[t] = trace[t]
  BY <1>1 DEF Keeps, Phase, End
<1>2. /\ Phase = [t \in Runs |-> Phase[t]] /\ Phase' = [t \in Runs |-> Phase'[t]]
      /\ End = [t \in Runs |-> End[t]] /\ End' = [t \in Runs |-> End'[t]]
  BY DEF Phase, End
<1>3. trace = [t \in Runs |-> trace[t]] /\ trace' = [t \in Runs |-> trace'[t]]
  BY DEF TypeOK, TypeRuns
<1>4. /\ Phase' = [Phase EXCEPT ![r] = Phase'[r]]
      /\ Phase'[r] = Phase[r] => Phase' = Phase
  BY <1>1, <1>2
<1>5. /\ End' = [End EXCEPT ![r] = End'[r]]
      /\ End'[r] = End[r] => End' = End
  BY <1>1, <1>2
<1>6. /\ trace' = [trace EXCEPT ![r] = trace'[r]]
      /\ trace'[r] = trace[r] => trace' = trace
  BY <1>1, <1>3
<1> QED
  BY <1>4, <1>5, <1>6

LEMMA Stutters ==
    ASSUME TypeOK, TypeOK', NEW r \in Runs, \A t \in Runs \ {r} : Keeps(t),
           pc[r] \notin {"idle", "returned"}, pc'[r] \notin {"idle", "returned"},
           trace'[r] = trace[r]
    PROVE  UNCHANGED Contract!vars
<1>1. Phase'[r] = Phase[r] /\ End'[r] = End[r]
  BY DEF Phase, End
<1> QED
  BY <1>1, OneRunMoves DEF Contract!vars

LEMMA HonestFinish ==
    ASSUME RunInv, RunInv', NEW r \in Runs, \A t \in Runs \ {r} : Keeps(t),
           pc[r] \notin {"idle", "returned"}, pc'[r] = "returned", trace'[r] = trace[r]
    PROVE  Contract!Next
<1>1. TypeOK /\ TypeOK' /\ TellsTruth(r)'
  BY DEF RunInv, TypeInv
<1> DEFINE why == out'[r].kind
<1>2. why \in Kinds /\ why # "none"
  BY <1>1 DEF TypeOK, TypeRuns, TellsTruth
<1>3. why \in Contract!Ends
  BY <1>2 DEF Kinds, Contract!Ends, Contract!Paused
<1>4. Phase[r] = "running" /\ Phase'[r] = "over" /\ End'[r] = why
  BY DEF Phase, End
<1>5. Contract!Honest(trace[r], why)
  BY <1>1 DEF TellsTruth, Last, Contract!Honest
<1>6. UNCHANGED trace
  BY <1>1, OneRunMoves
<1>7. Contract!Finish(r, why)
  BY <1>1, <1>4, <1>5, <1>6, OneRunMoves DEF Contract!Finish
<1> QED
  BY <1>3, <1>7 DEF Contract!Next

LEMMA CallRefines ==
    ASSUME RunInv, RunInv', NEW r \in Runs, Call(r)
    PROVE  Contract!Next
<1>1. /\ TypeOK /\ TypeOK' /\ pc \in [Runs -> Labels]
      /\ out \in [Runs -> [kind : Kinds, node : Places, step : Nat]]
  BY DEF RunInv, TypeInv, TypeOK, TypeRuns
<1>2. \A t \in Runs \ {r} : Keeps(t)
  BY <1>1, OthersKept
<1>3. pc[r] = "idle" /\ trace[r] = <<>> /\ trace' = trace
  BY DEF Call, RunInv, Standing
<1>4. trace' = [trace EXCEPT ![r] = <<>>] /\ Contract!From(<<>>)
  BY <1>1, <1>3 DEF TypeOK, TypeRuns, Contract!From
<1>5. CASE Valid(Graph)
  <2>1. pc'[r] = "snapshot"
    BY <1>1, <1>5 DEF Call, Goto
  <2>2. Phase[r] = "idle" /\ Phase'[r] = "running" /\ End'[r] = End[r]
    BY <1>3, <2>1 DEF Phase, End
  <2>3. UNCHANGED End
    BY <1>1, <1>2, <2>2, OneRunMoves
  <2>4. Contract!Begin(r)
    BY <1>1, <1>2, <1>4, <2>2, <2>3, OneRunMoves DEF Contract!Begin
  <2> QED
    BY <2>4 DEF Contract!Next
<1>6. CASE ~Valid(Graph)
  <2>1. pc'[r] = "returned" /\ out'[r].kind = "refused"
    BY <1>1, <1>6 DEF Call, Goto, Return, Result
  <2>2. Phase[r] = "idle" /\ Phase'[r] = "over" /\ End'[r] = "refused"
    BY <1>3, <2>1 DEF Phase, End
  <2>3. Contract!Honest(<<>>, "refused") /\ "refused" \in Contract!Ends
    BY DEF Contract!Honest, Contract!Ends
  <2>4. Contract!Answer(r, "refused")
    BY <1>1, <1>2, <1>4, <2>2, <2>3, OneRunMoves DEF Contract!Answer
  <2> QED
    BY <2>3, <2>4 DEF Contract!Next
<1> QED
  BY <1>5, <1>6

LEMMA ResumeRefines ==
    ASSUME RunInv, RunInv', NEW r \in Runs, NEW q \in Runs, Resume(r, q)
    PROVE  Contract!Next
<1>1. /\ TypeOK /\ TypeOK' /\ pc \in [Runs -> Labels] /\ trace \in [Runs -> Seq(Places)]
  BY DEF RunInv, TypeInv, TypeOK, TypeRuns
<1>2. \A t \in Runs \ {r} : Keeps(t)
  BY <1>1, OthersKept
<1>3. pc[r] = "idle" /\ trace' = [trace EXCEPT ![r] = trace[q]]
  BY DEF Resume
<1>4. Contract!From(trace[q])
  BY DEF Resume, Paused, End, Contract!From, Contract!Paused
<1>5. pc'[r] \in {"snapshot", "returned"}
  BY <1>1 DEF Resume, ResumeAt, ResumeAfter, Goto, Return
<1>6. CASE pc'[r] = "snapshot"
  <2>1. Phase[r] = "idle" /\ Phase'[r] = "running" /\ End'[r] = End[r]
    BY <1>3, <1>6 DEF Phase, End
  <2>2. UNCHANGED End
    BY <1>1, <1>2, <2>1, OneRunMoves
  <2>3. Contract!Begin(r)
    BY <1>1, <1>2, <1>3, <1>4, <2>1, <2>2, OneRunMoves DEF Contract!Begin
  <2> QED
    BY <2>3 DEF Contract!Next
<1>7. CASE pc'[r] = "returned"
  <2> DEFINE why == out'[r].kind
  <2>1. Phase[r] = "idle" /\ Phase'[r] = "over" /\ End'[r] = why
    BY <1>3, <1>7 DEF Phase, End
  <2>2. TellsTruth(r)' /\ why \in Kinds /\ why # "none"
    BY <1>1, <1>7 DEF RunInv, TypeOK, TypeRuns, TellsTruth
  <2>3. why \in Contract!Ends
    BY <2>2 DEF Kinds, Contract!Ends, Contract!Paused
  <2>4. trace'[r] = trace[q]
    BY <1>1, <1>3
  <2>5. Contract!Honest(trace[q], why)
    BY <1>7, <2>2, <2>4 DEF TellsTruth, Last, Contract!Honest
  <2>6. Contract!Answer(r, why)
    BY <1>1, <1>2, <1>3, <1>4, <2>1, <2>5, OneRunMoves DEF Contract!Answer
  <2> QED
    BY <2>3, <2>6 DEF Contract!Next
<1> QED
  BY <1>5, <1>6, <1>7

LEMMA StepRefines ==
    ASSUME RunInv, RunInv', NEW r \in Runs, Step(r)
    PROVE  Contract!Next \/ UNCHANGED Contract!vars
<1>1. /\ TypeOK /\ TypeOK' /\ pc \in [Runs -> Labels] /\ trace \in [Runs -> Seq(Places)]
      /\ Standing(r)
  BY DEF RunInv, TypeInv, TypeOK, TypeRuns
<1>2. \A t \in Runs \ {r} : Keeps(t)
  BY <1>1, OthersKept
<1>3. pc[r] \notin {"idle", "returned"} /\ pc'[r] # "idle"
  BY <1>1 DEF Step, Snapshot, Register, Stop, HitLimit, PauseBefore, GoesOn, BeginNode,
     NodeReturns, NodeFails, NodeRetries, DelayEnds, Record, Emit, Apply, Save, Decide, Follow,
     Unwind, Goto, Leave, Return
<1>4. CASE Apply(r)
  <2>1. /\ pc[r] = "apply" /\ pc'[r] = "save"
        /\ trace' = [trace EXCEPT ![r] = Append(@, node[r])]
    BY <1>1, <1>4 DEF Apply, Goto
  <2>2. /\ node[r] \in Graph.nodes /\ Contract!Follows(trace[r], node[r])
        /\ step[r] = Len(trace[r]) /\ (MaxIterations > 0 => step[r] < MaxIterations)
    BY <1>1, <2>1 DEF Standing, Before, NextIs
  <2>3. Phase[r] = "running" /\ Phase'[r] = "running" /\ End'[r] = End[r]
    BY <2>1 DEF Phase, End
  <2>4. UNCHANGED <<Phase, End>>
    BY <1>1, <1>2, <2>3, OneRunMoves
  <2>5. Contract!Advance(r)
    BY <2>1, <2>2, <2>3, <2>4 DEF Contract!Advance
  <2> QED
    BY <2>5 DEF Contract!Next
<1>5. CASE ~Apply(r)
  <2>1. trace' = trace
    BY <1>5 DEF Step, Snapshot, Register, Stop, HitLimit, PauseBefore, BeginNode,
       NodeReturns, NodeFails, NodeRetries, DelayEnds, Record, Emit, Save, Decide, Unwind, local
  <2>2. CASE pc'[r] = "returned"
    BY <1>2, <1>3, <2>1, <2>2, HonestFinish
  <2>3. CASE pc'[r] # "returned"
    BY <1>1, <1>2, <1>3, <2>1, <2>3, Stutters
  <2> QED
    BY <2>2, <2>3
<1> QED
  BY <1>4, <1>5

(* The engine refines the contract, for every graph, every number of calls *)
(* and stoppers, every retry policy and every bound.                       *)
THEOREM EngineImplementsContract == Spec => Implements
<1>1. Init => Contract!Init
  BY DEF Init, Contract!Init, Phase, End
<1>2. RunInv /\ RunInv' /\ [Next]_vars => [Contract!Next]_(Contract!vars)
  <2> SUFFICES ASSUME RunInv, RunInv', [Next]_vars
               PROVE  Contract!Next \/ UNCHANGED Contract!vars
    OBVIOUS
  <2>1. CASE UNCHANGED vars \/ Environment
    <3>1. UNCHANGED <<pc, trace, out>>
      BY <2>1 DEF vars, Environment, Stopper, EndContext, Receive, EndRange, CopyHandles, Signal,
         EndInterrupt, CloseOnce, ClearBreakpoints, Reset, DrainGraph, local
    <3> QED
      BY <3>1 DEF Contract!vars, Phase, End
  <2> QED
    BY <2>1, CallRefines, ResumeRefines, StepRefines, NextCases
<1> QED
  BY <1>1, <1>2, RunInvInit, RunInvStep, PTL DEF Spec, Implements, Contract!Spec

(* A logical run, resumptions included, never leaves the arcs of its graph. *)
THEOREM TracesAreWalks == Spec => []TraceIsWalk
<1>1. MaxIterations \in Nat
  BY EngineAssumption
<1>2. Contract!Spec => []TraceIsWalk
  BY <1>1, Contract!ContractWalks DEF TraceIsWalk
<1> QED
  BY <1>2, EngineImplementsContract, PTL DEF Implements

(* It never completes more nodes than the recursion limit allows one run.   *)
THEOREM LimitHolds == Spec => []WithinRecursionLimit
<1>1. MaxIterations \in Nat
  BY EngineAssumption
<1>2. Contract!Spec => []WithinRecursionLimit
  BY <1>1, Contract!ContractLimit DEF WithinRecursionLimit
<1> QED
  BY <1>2, EngineImplementsContract, PTL DEF Implements

(* Both together: what ExecuteWithOptions and Resume complete is a walk of  *)
(* the graph, no longer than MaxIterations.                                 *)
THEOREM WalksWithinLimit == Spec => []RunsAreWalks
  BY TracesAreWalks, LimitHolds, PTL DEF RunsAreWalks

-----------------------------------------------------------------------------
(* The data of a run: a successful attempt adds at most its own write, the  *)
(* writes of a state are those of the completed steps, and a checkpoint     *)
(* holds the state up to its step.                                          *)
Succeeded(r) == pc[r] = "apply" \/ (pc[r] \in {"record", "emit"} /\ pending[r].ok)

PendingWrite(r) ==
    Succeeded(r) => pending[r].state \in {state[r], state[r] \cup {Write(r)}}

Isolated(r) ==
    \A w \in state[r] :
        /\ w.step < Len(trace[r]) /\ trace[r][w.step + 1] = w.node
        /\ \A v \in state[r] : v.step = w.step => v = w

Replays(c) ==
    /\ c.step < Len(trace[c.run]) /\ c.node = trace[c.run][c.step + 1]
    /\ c.state = {w \in state[c.run] : w.step <= c.step}

DataInv ==
    /\ \A r \in Runs : PendingWrite(r) /\ Isolated(r)
    /\ \A c \in saved : Replays(c)

LEMMA DataUnchanged ==
    ASSUME TypeOK, DataInv, UNCHANGED <<state, trace, saved>>,
           \A r \in Runs : PendingWrite(r)'
    PROVE  DataInv'
  BY DEF DataInv, Isolated, Replays

(* The only step that makes a result a success is the return of a node.     *)
LEMMA PendingKept ==
    ASSUME RunInv, DataInv, NEW r \in Runs, NEW t \in Runs, Step(r), ~Apply(r), ~Save(r)
    PROVE  PendingWrite(t)'
<1>1. /\ pc \in [Runs -> Labels] /\ state \in [Runs -> SUBSET Writes]
      /\ pending \in [Runs -> [ok : BOOLEAN, state : SUBSET Writes]]
      /\ attempt \in [Runs -> Nat] /\ node \in [Runs -> Places] /\ step \in [Runs -> Nat]
  BY DEF RunInv, TypeInv, TypeOK, TypeRuns
<1>2. PendingWrite(t)
  BY DEF DataInv
<1>3. state' = state /\ step' = step
  BY DEF Step, Snapshot, Register, Stop, HitLimit, PauseBefore, BeginNode, NodeReturns, NodeFails,
     NodeRetries, DelayEnds, Record, Emit, Decide, Unwind, local
<1>4. CASE NodeReturns(r)
  <2>1. UNCHANGED <<node, attempt>>
    BY <1>4 DEF NodeReturns
  <2>2. Write(t)' = Write(t)
    BY <1>3, <2>1 DEF Write
  <2>3. CASE t = r
    <3>1. pending'[r].state \in {state[r], state[r] \cup {Write(r)}}
      BY <1>1, <1>4 DEF NodeReturns
    <3> QED
      BY <1>3, <2>2, <2>3, <3>1 DEF PendingWrite, Succeeded
  <2>4. CASE t # r
    <3>1. pc'[t] = pc[t] /\ pending'[t] = pending[t]
      BY <1>1, <1>4, <2>4 DEF NodeReturns, Goto
    <3> QED
      BY <1>2, <1>3, <2>2, <3>1 DEF PendingWrite, Succeeded
  <2> QED
    BY <2>3, <2>4
<1>5. CASE BeginNode(r) \/ NodeFails(r) \/ NodeRetries(r) \/ DelayEnds(r)
  <2>1. CASE t = r
    <3>1. pc'[r] \in {"attempt", "delay"} \/ (pc'[r] = "record" /\ ~pending'[r].ok)
      BY <1>1, <1>5 DEF BeginNode, NodeFails, NodeRetries, DelayEnds, Goto
    <3> QED
      BY <2>1, <3>1 DEF PendingWrite, Succeeded
  <2>2. CASE t # r
    <3>1. pc'[t] = pc[t] /\ pending'[t] = pending[t]
      BY <1>1, <1>5, <2>2 DEF BeginNode, NodeFails, NodeRetries, DelayEnds, Goto
    <3>2. node'[t] = node[t] /\ attempt'[t] = attempt[t]
      BY <1>1, <1>5, <2>2 DEF BeginNode, NodeFails, NodeRetries, DelayEnds
    <3> QED
      BY <1>2, <1>3, <3>1, <3>2 DEF PendingWrite, Succeeded, Write
  <2> QED
    BY <2>1, <2>2
<1>6. CASE Record(r) \/ Emit(r)
  <2>1. UNCHANGED <<pending, attempt, node>>
    BY <1>6 DEF Record, Emit, local
  <2>2. Succeeded(t)' => Succeeded(t)
    BY <1>1, <1>6, <2>1 DEF Record, Emit, Goto, Leave, Succeeded
  <2> QED
    BY <1>2, <1>3, <2>1, <2>2 DEF PendingWrite, Write
<1>7. CASE Snapshot(r) \/ Register(r) \/ Stop(r) \/ HitLimit(r) \/ PauseBefore(r) \/ Unwind(r)
  <2>1. UNCHANGED <<pending, attempt, node>>
    BY <1>7 DEF Snapshot, Register, Stop, HitLimit, PauseBefore, Unwind, local
  <2>2. pc'[t] \in {"record", "emit", "apply"} => pc'[t] = pc[t]
    BY <1>1, <1>7 DEF Snapshot, Register, Stop, HitLimit, PauseBefore, Unwind, Goto, Leave, Return
  <2> QED
    BY <1>2, <1>3, <2>1, <2>2 DEF PendingWrite, Succeeded, Write
<1>8. CASE Decide(r)
  <2>1. UNCHANGED <<pending, attempt>>
    BY <1>8 DEF Decide
  <2>2. t = r => pc'[t] \in {"unwind", "loop"}
    BY <1>1, <1>8 DEF Decide, Follow, Goto, Leave
  <2>3. t # r => pc'[t] = pc[t] /\ node'[t] = node[t]
    BY <1>1, <1>8 DEF Decide, Follow, Goto, Leave
  <2> QED
    BY <1>2, <1>3, <2>1, <2>2, <2>3 DEF PendingWrite, Succeeded, Write
<1> QED
  BY <1>4, <1>5, <1>6, <1>7, <1>8 DEF Step

(* A node that completes adds a write of a step that nothing holds yet.     *)
LEMMA ApplyData ==
    ASSUME RunInv, DataInv, NEW r \in Runs, Apply(r)
    PROVE  DataInv'
<1>1. /\ pc \in [Runs -> Labels] /\ state \in [Runs -> SUBSET Writes]
      /\ trace \in [Runs -> Seq(Places)] /\ node \in [Runs -> Places] /\ step \in [Runs -> Nat]
      /\ saved \subseteq [run : Runs, node : Places, step : Nat, state : SUBSET Writes]
      /\ attempt \in [Runs -> Nat]
  BY DEF RunInv, TypeInv, TypeOK, TypeRuns, TypeGraph
<1>2. /\ pc[r] = "apply" /\ pc' = [pc EXCEPT ![r] = "save"]
      /\ state' = [state EXCEPT ![r] = pending[r].state]
      /\ trace' = [trace EXCEPT ![r] = Append(@, node[r])]
      /\ UNCHANGED <<saved, pending, node, step, attempt>>
  BY DEF Apply, Goto
<1>3. step[r] = Len(trace[r])
  BY <1>2 DEF RunInv, Standing, Before
<1>4. /\ Len(trace'[r]) = Len(trace[r]) + 1 /\ trace'[r][Len(trace[r]) + 1] = node[r]
      /\ \A i \in 1 .. Len(trace[r]) : trace'[r][i] = trace[r][i]
  BY <1>1, <1>2
<1>5. state'[r] \in {state[r], state[r] \cup {Write(r)}}
  <2>1. pending[r].state \in {state[r], state[r] \cup {Write(r)}}
    <3>1. PendingWrite(r) /\ Succeeded(r)
      BY <1>2 DEF DataInv, Succeeded
    <3> QED
      BY <3>1 DEF PendingWrite
  <2>2. state'[r] = pending[r].state
    BY <1>1, <1>2
  <2> QED
    BY <2>1, <2>2
<1>6. Write(r).step = Len(trace[r]) /\ Write(r).node = node[r]
  BY <1>3 DEF Write
<1>7. \A w \in state[r] : w.step < Len(trace[r]) /\ w.step \in Nat
  BY <1>1 DEF DataInv, Isolated, Writes
<1>8. ASSUME NEW t \in Runs, t # r PROVE PendingWrite(t)' /\ Isolated(t)'
  <2>1. /\ pc'[t] = pc[t] /\ state'[t] = state[t] /\ trace'[t] = trace[t]
        /\ Write(t)' = Write(t) /\ pending' = pending
    BY <1>1, <1>2, <1>8 DEF Write
  <2> QED
    BY <2>1 DEF DataInv, PendingWrite, Succeeded, Isolated
<1>9. PendingWrite(r)'
  BY <1>1, <1>2 DEF PendingWrite, Succeeded
<1>10. Isolated(r)'
  <2>1. ASSUME NEW w \in state'[r]
        PROVE  w.step < Len(trace'[r]) /\ trace'[r][w.step + 1] = w.node
    <3>1. CASE w = Write(r)
      BY <1>1, <1>4, <1>6, <3>1
    <3>2. CASE w # Write(r)
      <4>1. w \in state[r]
        BY <1>5, <3>2
      <4>2. trace[r][w.step + 1] = w.node /\ w.step + 1 \in 1 .. Len(trace[r])
        BY <1>1, <1>7, <4>1 DEF DataInv, Isolated
      <4> QED
        BY <1>1, <1>4, <1>7, <4>1, <4>2
    <3> QED
      BY <3>1, <3>2
  <2>2. ASSUME NEW w \in state'[r], NEW v \in state'[r], v.step = w.step PROVE v = w
    <3>1. CASE v \in state[r] /\ w \in state[r]
      BY <2>2, <3>1 DEF DataInv, Isolated
    <3>2. CASE v \notin state[r] \/ w \notin state[r]
      <4>1. v \in state[r] \cup {Write(r)} /\ w \in state[r] \cup {Write(r)}
        BY <1>5
      <4> QED
        BY <1>1, <1>6, <1>7, <2>2, <3>2, <4>1
    <3> QED
      BY <3>1, <3>2
  <2> QED
    BY <2>1, <2>2 DEF Isolated
<1>11. ASSUME NEW c \in saved PROVE Replays(c)'
  <2>1. Replays(c) /\ c.run \in Runs /\ c.step \in Nat
    BY <1>1 DEF DataInv
  <2>2. CASE c.run # r
    BY <1>1, <1>2, <2>1, <2>2 DEF Replays
  <2>3. CASE c.run = r
    <3>1. c.step < Len(trace[r]) /\ c.step + 1 \in 1 .. Len(trace[r])
      BY <1>1, <2>1, <2>3 DEF Replays
    <3>2. {w \in state'[r] : w.step <= c.step} = {w \in state[r] : w.step <= c.step}
      BY <1>1, <1>5, <1>6, <2>1, <3>1
    <3>3. c.step < Len(trace'[r]) /\ trace'[r][c.step + 1] = trace[r][c.step + 1]
      BY <1>1, <1>4, <2>1, <3>1
    <3> QED
      BY <2>1, <2>3, <3>2, <3>3 DEF Replays
  <2> QED
    BY <2>2, <2>3
<1> QED
  BY <1>2, <1>8, <1>9, <1>10, <1>11 DEF DataInv

(* A checkpoint is taken with everything up to its step in the state.       *)
LEMMA SaveData ==
    ASSUME RunInv, DataInv, NEW r \in Runs, Save(r)
    PROVE  DataInv'
<1>1. /\ pc \in [Runs -> Labels] /\ state \in [Runs -> SUBSET Writes]
      /\ trace \in [Runs -> Seq(Places)] /\ step \in [Runs -> Nat]
  BY DEF RunInv, TypeInv, TypeOK, TypeRuns
<1> DEFINE new == [run |-> r, node |-> node[r], step |-> step[r], state |-> state[r]]
<1>2. /\ pc[r] = "save" /\ pc' = [pc EXCEPT ![r] = "decide"] /\ step' = [step EXCEPT ![r] = @ + 1]
      /\ UNCHANGED <<state, trace, pending, node, attempt>> /\ saved' \subseteq saved \cup {new}
  BY DEF Save, Goto
<1>3. step[r] = Len(trace[r]) - 1 /\ node[r] = Last(r) /\ trace[r] # <<>>
  BY <1>2 DEF RunInv, Standing
<1>4. Replays(new)
  <2>1. \A w \in state[r] : w.step < Len(trace[r]) /\ w.step \in Nat
    BY <1>1 DEF DataInv, Isolated, Writes
  <2>2. state[r] = {w \in state[r] : w.step <= step[r]}
    BY <1>1, <1>3, <2>1
  <2>3. step[r] < Len(trace[r]) /\ node[r] = trace[r][step[r] + 1]
    BY <1>1, <1>3 DEF Last
  <2> QED
    BY <2>2, <2>3 DEF Replays
<1>5. \A c \in saved' : Replays(c)
  BY <1>2, <1>4 DEF DataInv
<1>6. \A c \in saved' : Replays(c)'
  BY <1>2, <1>5 DEF Replays
<1>7. ASSUME NEW t \in Runs PROVE PendingWrite(t)' /\ Isolated(t)'
  <2>1. Isolated(t)'
    BY <1>2 DEF DataInv, Isolated
  <2>2. CASE t = r
    BY <1>1, <1>2, <2>1, <2>2 DEF PendingWrite, Succeeded
  <2>3. CASE t # r
    <3>1. pc'[t] = pc[t] /\ step'[t] = step[t]
      BY <1>1, <1>2, <2>3
    <3> QED
      BY <1>2, <2>1, <3>1 DEF DataInv, PendingWrite, Succeeded, Write
  <2> QED
    BY <2>2, <2>3
<1> QED
  BY <1>6, <1>7 DEF DataInv

(* A call that resumes takes over state and trace together; it has saved    *)
(* nothing of its own yet.                                                  *)
LEMMA ResumeData ==
    ASSUME RunInv, DataInv, NEW r \in Runs, NEW q \in Runs, Resume(r, q)
    PROVE  DataInv'
<1>1. /\ pc \in [Runs -> Labels] /\ state \in [Runs -> SUBSET Writes]
      /\ trace \in [Runs -> Seq(Places)] /\ step \in [Runs -> Nat] /\ node \in [Runs -> Places]
      /\ saved \subseteq [run : Runs, node : Places, step : Nat, state : SUBSET Writes]
  BY DEF RunInv, TypeInv, TypeOK, TypeRuns, TypeGraph
<1>2. /\ pc[r] = "idle" /\ trace[r] = <<>>
      /\ state' = [state EXCEPT ![r] = state[q]] /\ trace' = [trace EXCEPT ![r] = trace[q]]
      /\ UNCHANGED <<saved, pending, attempt>>
  BY DEF Resume, RunInv, Standing
<1>3. pc'[r] \in {"snapshot", "returned"} /\ \A t \in Runs \ {r} : pc'[t] = pc[t]
  BY <1>1 DEF Resume, ResumeAt, ResumeAfter, Goto, Return
<1>4. \A t \in Runs \ {r} : step'[t] = step[t] /\ node'[t] = node[t]
  BY <1>1 DEF Resume, ResumeAt, ResumeAfter
<1>5. ASSUME NEW t \in Runs PROVE PendingWrite(t)' /\ Isolated(t)'
  <2>1. CASE t = r
    BY <1>1, <1>2, <1>3, <2>1 DEF DataInv, PendingWrite, Succeeded, Isolated
  <2>2. CASE t # r
    <3>1. state'[t] = state[t] /\ trace'[t] = trace[t] /\ Write(t)' = Write(t)
      BY <1>1, <1>2, <1>4, <2>2 DEF Write
    <3> QED
      BY <1>2, <1>3, <2>2, <3>1 DEF DataInv, PendingWrite, Succeeded, Isolated
  <2> QED
    BY <2>1, <2>2
<1>6. ASSUME NEW c \in saved PROVE Replays(c)'
  <2>1. c.run \in Runs /\ c.step \in Nat /\ Replays(c)
    BY <1>1 DEF DataInv
  <2>2. c.run # r
    BY <1>1, <1>2, <2>1 DEF Replays
  <2> QED
    BY <1>1, <1>2, <2>1, <2>2 DEF Replays
<1> QED
  BY <1>2, <1>5, <1>6 DEF DataInv

LEMMA DataStep == RunInv /\ DataInv /\ [Next]_vars => DataInv'
<1> SUFFICES ASSUME RunInv, DataInv, [Next]_vars PROVE DataInv'
  OBVIOUS
<1>1. TypeOK
  BY DEF RunInv, TypeInv
<1>2. CASE UNCHANGED vars \/ Environment
  <2>1. UNCHANGED <<pc, state, trace, saved, pending, node, step, attempt>>
    BY <1>2 DEF vars, Environment, Stopper, EndContext, Receive, EndRange, CopyHandles, Signal,
       EndInterrupt, CloseOnce, ClearBreakpoints, Reset, DrainGraph, local
  <2>2. \A r \in Runs : PendingWrite(r)'
    BY <2>1 DEF DataInv, PendingWrite, Succeeded, Write
  <2> QED
    BY <1>1, <2>1, <2>2, DataUnchanged
<1>3. ASSUME NEW r \in Runs, Call(r) PROVE DataInv'
  <2>1. UNCHANGED <<state, trace, saved, pending, step, attempt>> /\ pc \in [Runs -> Labels]
        /\ node \in [Runs -> Places]
    BY <1>1, <1>3 DEF Call, TypeOK, TypeRuns
  <2>2. pc'[r] \in {"snapshot", "returned"} /\ \A t \in Runs \ {r} : pc'[t] = pc[t] /\ node'[t] = node[t]
    BY <1>3, <2>1 DEF Call, Goto, Return
  <2>3. ASSUME NEW t \in Runs PROVE PendingWrite(t)'
    BY <2>1, <2>2 DEF DataInv, PendingWrite, Succeeded, Write
  <2> QED
    BY <1>1, <2>1, <2>3, DataUnchanged
<1>4. ASSUME NEW r \in Runs, Step(r), ~Apply(r), ~Save(r) PROVE DataInv'
  <2>1. UNCHANGED <<state, trace, saved>>
    BY <1>4 DEF Step, Snapshot, Register, Stop, HitLimit, PauseBefore, BeginNode, NodeReturns,
       NodeFails, NodeRetries, DelayEnds, Record, Emit, Decide, Unwind, local
  <2>2. \A t \in Runs : PendingWrite(t)'
    BY <1>4, PendingKept
  <2> QED
    BY <1>1, <2>1, <2>2, DataUnchanged
<1> QED
  BY <1>2, <1>3, <1>4, ApplyData, SaveData, ResumeData, NextCases

LEMMA DataInit == Init => DataInv
  BY DEF Init, DataInv, PendingWrite, Succeeded, Isolated, Replays

(* A failed attempt leaves nothing in the state, however often a node is    *)
(* retried and whatever else runs.                                          *)
THEOREM AttemptsIsolated == Spec => []IsolatedAttempts
<1>1. DataInv => IsolatedAttempts
  BY DEF DataInv, Isolated, IsolatedAttempts
<1> QED
  BY <1>1, RunInvInit, RunInvStep, DataInit, DataStep, PTL DEF Spec

(* Every checkpoint holds the run as it was at the end of the step it names.*)
THEOREM CheckpointsFaithful == Spec => []CheckpointsReplay
<1>1. DataInv => CheckpointsReplay
  BY DEF DataInv, Replays, CheckpointsReplay
<1> QED
  BY <1>1, RunInvInit, RunInvStep, DataInit, DataStep, PTL DEF Spec

-----------------------------------------------------------------------------
(* What a run leaves behind. A run resumed at a step has no results before  *)
(* it; a result is recorded in the history, then sent to the stream, before *)
(* its node counts as completed.                                            *)
FailedAt(r) == pc[r] \in {"unwind", "returned"} /\ out[r].kind = "failed"

Starts(r) ==
    /\ base[r] <= Len(trace[r]) /\ (r \in Streamed => base[r] = 0)
    /\ pc[r] \in {"idle", "snapshot", "register"} => base[r] = Len(trace[r])
    /\ pc[r] = "apply" => pending[r].ok

StartInv == \A r \in Runs : Starts(r)

(* The results a run has sent are what its reader has and what is waiting.  *)
Sent(r) == Len(trace[r]) + (IF pc[r] = "apply" \/ FailedAt(r) THEN 1 ELSE 0)

StreamOf(r) ==
    /\ Len(got[r]) + Len(runBuf[r]) = Sent(r)
    /\ \A i \in 1 .. Len(got[r]) : got[r][i] = i - 1
    /\ \A i \in 1 .. Len(runBuf[r]) : runBuf[r][i] = Len(got[r]) + i - 1
    /\ consumed[r] => pc[r] = "returned" /\ runBuf[r] = <<>>

StreamInv == \A r \in Streamed : StreamOf(r)

(* The history has an entry for every result of the most recent run; that   *)
(* of the node in flight, or of the one that failed, comes after the others.*)
Noted(r) == Len(trace[r]) + (IF pc[r] \in {"emit", "apply"} \/ FailedAt(r) THEN 1 ELSE 0)

Tells(r, e) ==
    /\ e.step < Len(trace[r]) => e.ok /\ e.node = trace[r][e.step + 1]
    /\ e.step >= Len(trace[r]) =>
         IF pc[r] \in {"emit", "apply"} THEN e.ok = pending[r].ok /\ e.node = node[r] ELSE ~e.ok

HistoryOf(r) ==
    /\ pc[r] \in InFlight \cup {"returned"}
    /\ {history[i].step : i \in EntriesOf(r)} = base[r] .. (Noted(r) - 1)
    /\ \A i, j \in EntriesOf(r) : i < j => history[i].step < history[j].step
    /\ \A i \in EntriesOf(r) : Tells(r, history[i])

HistoryInv == \A r \in Runs : latest = r => HistoryOf(r)

LEMMA BaseKept ==
    ASSUME TypeOK, NEW r \in Runs, NEW t \in Runs
    PROVE  /\ Call(r) \/ Step(r) => base' = base
           /\ t # r /\ (\E q \in Runs : Resume(r, q)) => base'[t] = base[t]
<1>1. Call(r) \/ Step(r) => base' = base
  BY DEF Call, Step, Snapshot, Register, Stop, HitLimit, PauseBefore, BeginNode, NodeReturns,
     NodeFails, NodeRetries, DelayEnds, Record, Emit, Apply, Save, Decide, Unwind, local
<1>2. ASSUME t # r, NEW q \in Runs, Resume(r, q) PROVE base'[t] = base[t]
  <2>1. base \in [Runs -> Nat]
    BY DEF TypeOK, TypeRuns
  <2> QED
    BY <1>2, <2>1 DEF Resume, ResumeAt, ResumeAfter
<1> QED
  BY <1>1, <1>2

LEMMA StartKept ==
    ASSUME NEW t \in Runs, Keeps(t), base'[t] = base[t], Starts(t)
    PROVE  Starts(t)'
  BY DEF Keeps, Starts

(* A pause left the run at the step its resumption starts from. *)
LEMMA ResumeStarts ==
    ASSUME RunInv, NEW r \in Runs, NEW q \in Runs, Resume(r, q), Starts(r)
    PROVE  Starts(r)'
<1>0. /\ pc \in [Runs -> Labels] /\ base \in [Runs -> Nat] /\ trace \in [Runs -> Seq(Places)]
      /\ pc[r] = "idle" /\ pc[q] = "returned" /\ Paused(q) /\ r \notin Streamed
      /\ trace'[r] = trace[q] /\ Len(trace[q]) \in Nat
  BY DEF RunInv, TypeInv, TypeOK, TypeRuns, Resume
<1>1. /\ out[q].kind = "pausedBefore" => out[q].step = Len(trace[q])
      /\ out[q].kind = "pausedAfter" => out[q].step + 1 = Len(trace[q])
  BY <1>0 DEF RunInv, TellsTruth, Paused
<1>2. \/ pc'[r] = "snapshot" /\ base'[r] = Len(trace[q])
      \/ pc'[r] = "returned" /\ base'[r] = base[r]
  <2>1. CASE out[q].kind = "pausedBefore"
    BY <1>0, <1>1, <2>1 DEF Resume, ResumeAt, Goto
  <2>2. CASE out[q].kind # "pausedBefore"
    <3>1. PICK ask \in Asks : ResumeAfter(r, q, RouteFrom(Graph, out[q].node, ask))
      BY <2>2 DEF Resume
    <3> QED
      BY <1>0, <1>1, <2>2, <3>1 DEF ResumeAfter, ResumeAt, Goto, Return, Paused
  <2> QED
    BY <2>1, <2>2
<1>3. base[r] = 0
  BY <1>0 DEF Starts, RunInv, Standing
<1> QED
  BY <1>0, <1>2, <1>3 DEF Starts

LEMMA StepStarts ==
    ASSUME RunInv, NEW r \in Runs, Call(r) \/ Step(r), Starts(r)
    PROVE  Starts(r)'
<1>0. /\ pc \in [Runs -> Labels] /\ base \in [Runs -> Nat] /\ trace \in [Runs -> Seq(Places)]
      /\ TypeOK /\ Len(trace[r]) \in Nat
  BY DEF RunInv, TypeInv, TypeOK, TypeRuns
<1>1. base' = base
  BY <1>0, BaseKept
<1>2. CASE Apply(r)
  <2>1. Len(trace'[r]) = Len(trace[r]) + 1 /\ pc'[r] = "save"
    BY <1>0, <1>2 DEF Apply, Goto
  <2> QED
    BY <1>0, <1>1, <2>1 DEF Starts
<1>3. CASE Emit(r)
  <2>1. UNCHANGED <<trace, pending>> /\ (pc'[r] = "apply" => pending[r].ok)
        /\ pc'[r] \in {"apply", "unwind"}
    BY <1>0, <1>3 DEF Emit, Goto, Leave, local
  <2> QED
    BY <1>1, <2>1 DEF Starts
<1>4. ASSUME ~Apply(r), ~Emit(r) PROVE Starts(r)'
  <2>1. trace' = trace
    BY <1>4 DEF Call, Step, Snapshot, Register, Stop, HitLimit, PauseBefore, BeginNode,
       NodeReturns, NodeFails, NodeRetries, DelayEnds, Record, Save, Decide, Unwind, local
  <2>2. /\ pc'[r] \in {"idle", "snapshot", "register"} => pc[r] \in {"idle", "snapshot"}
        /\ pc'[r] # "apply"
    BY <1>0, <1>4 DEF Call, Step, Snapshot, Register, Stop, HitLimit, PauseBefore, GoesOn,
       BeginNode, NodeReturns, NodeFails, NodeRetries, DelayEnds, Record, Save, Decide, Follow,
       Unwind, Goto, Leave, Return
  <2> QED
    BY <1>1, <2>1, <2>2 DEF Starts
<1> QED
  BY <1>2, <1>3, <1>4

LEMMA StartStep == RunInv /\ StartInv /\ [Next]_vars => StartInv'
<1> SUFFICES ASSUME RunInv, StartInv, [Next]_vars, NEW t \in Runs PROVE Starts(t)'
  BY DEF StartInv
<1>0. TypeOK /\ Starts(t)
  BY DEF RunInv, TypeInv, StartInv
<1>1. CASE UNCHANGED vars \/ Environment
  <2>1. UNCHANGED <<pc, node, step, trace, pending, out, base>>
    BY <1>1 DEF vars, Environment, Stopper, EndContext, Receive, EndRange, CopyHandles, Signal,
       EndInterrupt, CloseOnce, ClearBreakpoints, Reset, DrainGraph, local
  <2> QED
    BY <1>0, <2>1, StartKept DEF Keeps
<1>2. ASSUME NEW r \in Runs, Call(r) \/ (\E q \in Runs : Resume(r, q)) \/ Step(r), t # r
      PROVE  Starts(t)'
  BY <1>0, <1>2, OthersKept, BaseKept, StartKept
<1>3. CASE Call(t) \/ (\E q \in Runs : Resume(t, q)) \/ Step(t)
  BY <1>0, <1>3, ResumeStarts, StepStarts
<1> QED
  BY <1>1, <1>2, <1>3, NextCases

-----------------------------------------------------------------------------
(* A result goes to the stream where a node ends, and nowhere else. *)
LEMMA SentOnce ==
    ASSUME RunInv, NEW r \in Runs, Call(r) \/ Step(r), ~Emit(r), pc[r] # "returned"
    PROVE  Sent(r)' = Sent(r) /\ UNCHANGED runBuf
<1>0. /\ pc \in [Runs -> Labels] /\ trace \in [Runs -> Seq(Places)]
      /\ out \in [Runs -> [kind : Kinds, node : Places, step : Nat]]
      /\ TypeOK /\ Len(trace[r]) \in Nat
  BY DEF RunInv, TypeInv, TypeOK, TypeRuns
<1>1. UNCHANGED runBuf
  BY DEF Call, Step, Snapshot, Register, Stop, HitLimit, PauseBefore, BeginNode, NodeReturns,
     NodeFails, NodeRetries, DelayEnds, Record, Apply, Save, Decide, Unwind, streams
<1>2. CASE Apply(r)
  <2>1. Len(trace'[r]) = Len(trace[r]) + 1 /\ pc[r] = "apply" /\ pc'[r] = "save"
    BY <1>0, <1>2 DEF Apply, Goto
  <2> QED
    BY <1>0, <1>1, <2>1 DEF Sent, FailedAt
<1>3. CASE Unwind(r)
  <2>1. pc[r] = "unwind" /\ pc'[r] = "returned" /\ UNCHANGED <<out, trace>>
    BY <1>0, <1>3 DEF Unwind, Goto, local
  <2> QED
    BY <1>1, <2>1 DEF Sent, FailedAt
<1>4. CASE Decide(r)
  <2>1. pc[r] = "decide" /\ trace' = trace
    BY <1>4 DEF Decide, local
  <2>2. pc'[r] = "loop" \/ (pc'[r] = "unwind" /\ out'[r].kind # "failed")
    <3>1. CASE node[r] \in PauseAfter \/ node[r] \in Graph.ends
      BY <1>0, <1>4, <3>1 DEF Decide, Leave, Goto, Result
    <3>2. ASSUME NEW ask \in Asks, Follow(r, RouteFrom(Graph, node[r], ask))
          PROVE  pc'[r] = "loop" \/ (pc'[r] = "unwind" /\ out'[r].kind # "failed")
      <4>1. RouteFrom(Graph, node[r], ask).err \in {"none", "condition", "noRoute"}
        BY RouteFromType
      <4> QED
        BY <1>0, <3>2, <4>1 DEF Follow, Leave, Goto, Result
    <3> QED
      BY <1>4, <3>1, <3>2 DEF Decide
  <2> QED
    BY <1>1, <2>1, <2>2 DEF Sent, FailedAt
<1>5. ASSUME ~Apply(r), ~Unwind(r), ~Decide(r) PROVE Sent(r)' = Sent(r)
  <2>1. trace' = trace
    BY <1>5 DEF Call, Step, Snapshot, Register, Stop, HitLimit, PauseBefore, BeginNode,
       NodeReturns, NodeFails, NodeRetries, DelayEnds, Record, Save, local
  <2>2. /\ pc[r] \notin {"apply", "unwind", "returned"} /\ pc'[r] # "apply"
        /\ pc'[r] \in {"unwind", "returned"} => out'[r].kind # "failed"
    BY <1>0, <1>5 DEF Call, Step, Snapshot, Register, Stop, HitLimit, PauseBefore, GoesOn,
       BeginNode, NodeReturns, NodeFails, NodeRetries, DelayEnds, Record, Save, Goto, Leave,
       Return, Result
  <2> QED
    BY <2>1, <2>2 DEF Sent, FailedAt
<1> QED
  BY <1>1, <1>2, <1>3, <1>4, <1>5

(* A returned call takes no step. *)
LEMMA ReturnedIsOver ==
    ASSUME NEW r \in Runs, Call(r) \/ (\E q \in Runs : Resume(r, q)) \/ Step(r)
    PROVE  pc[r] # "returned"
  BY DEF Call, Resume, Step, Snapshot, Register, Stop, HitLimit, PauseBefore, GoesOn, BeginNode,
     NodeReturns, NodeFails, NodeRetries, DelayEnds, Record, Emit, Apply, Save, Decide, Unwind

(* There is room for the result of a node that began below the limit. *)
LEMMA EmitStreams ==
    ASSUME MaxIterations > 0, RunCap >= MaxIterations, RunInv, NEW r \in Streamed, StreamOf(r),
           Emit(r)
    PROVE  StreamOf(r)'
<1>0. /\ r \in Runs /\ pc \in [Runs -> Labels] /\ trace \in [Runs -> Seq(Places)]
      /\ out \in [Runs -> [kind : Kinds, node : Places, step : Nat]]
      /\ runBuf \in [Runs -> Seq(Nat)] /\ got \in [Runs -> Seq(Nat)] /\ step[r] \in Nat
      /\ Len(trace[r]) \in Nat /\ Len(runBuf[r]) \in Nat /\ Len(got[r]) \in Nat
      /\ MaxIterations \in Nat /\ RunCap \in Nat
  BY EngineAssumption DEF RunInv, TypeInv, TypeOK, TypeRuns, TypeOthers
<1>1. /\ pc[r] = "emit" /\ UNCHANGED <<trace, got, consumed>>
      /\ runBuf' = IF r \in Streamed /\ Len(runBuf[r]) < RunCap
                   THEN [runBuf EXCEPT ![r] = Append(@, step[r])] ELSE runBuf
  BY DEF Emit, SendToRun, local, readers
<1>2. Sent(r) = Len(trace[r]) /\ step[r] = Len(trace[r]) /\ step[r] < MaxIterations
  BY <1>0, <1>1 DEF Sent, FailedAt, RunInv, Standing, Before
<1>3. Sent(r)' = Len(trace[r]) + 1
  <2>1. pc'[r] = "apply" \/ (pc'[r] = "unwind" /\ out'[r].kind = "failed")
    BY <1>0 DEF Emit, Goto, Leave, Result
  <2> QED
    BY <1>1, <2>1 DEF Sent, FailedAt
<1>4. runBuf'[r] = Append(runBuf[r], step[r])
  <2>1. Len(runBuf[r]) < RunCap
    BY <1>0, <1>2 DEF StreamOf
  <2> QED
    BY <1>0, <1>1, <2>1
<1>5. /\ Len(runBuf'[r]) = Len(runBuf[r]) + 1
      /\ \A i \in 1 .. Len(runBuf[r]) : runBuf'[r][i] = runBuf[r][i]
      /\ runBuf'[r][Len(runBuf[r]) + 1] = step[r]
  BY <1>0, <1>4
<1>6. ~consumed[r]
  BY <1>1 DEF StreamOf
<1>7. Len(got[r]) + Len(runBuf[r]) = step[r]
  BY <1>2 DEF StreamOf
<1>8. \A i \in 1 .. Len(runBuf'[r]) : runBuf'[r][i] = Len(got[r]) + i - 1
  <2>1. ASSUME NEW i \in 1 .. Len(runBuf[r]) + 1 PROVE runBuf'[r][i] = Len(got[r]) + i - 1
    <3>1. CASE i \in 1 .. Len(runBuf[r])
      BY <1>5, <3>1 DEF StreamOf
    <3>2. CASE i = Len(runBuf[r]) + 1
      <4>1. runBuf'[r][i] = step[r]
        BY <1>5, <3>2
      <4> QED
        BY <1>0, <1>7, <3>2, <4>1
    <3> QED
      BY <1>0, <3>1, <3>2
  <2> QED
    BY <1>5, <2>1
<1> QED
  <2>1. Len(got'[r]) + Len(runBuf'[r]) = Sent(r)'
    BY <1>0, <1>1, <1>2, <1>3, <1>5, <1>7
  <2>2. \A i \in 1 .. Len(got'[r]) : got'[r][i] = i - 1
    BY <1>1 DEF StreamOf
  <2>3. \A i \in 1 .. Len(runBuf'[r]) : runBuf'[r][i] = Len(got'[r]) + i - 1
    BY <1>1, <1>8
  <2> QED
    BY <1>1, <1>6, <2>1, <2>2, <2>3 DEF StreamOf

LEMMA ReceiveStreams ==
    ASSUME RunInv, NEW r \in Streamed, StreamOf(r), Receive(r)
    PROVE  StreamOf(r)'
<1>0. /\ r \in Runs /\ runBuf \in [Runs -> Seq(Nat)] /\ got \in [Runs -> Seq(Nat)]
      /\ runBuf[r] \in Seq(Nat) /\ runBuf[r] # <<>> /\ got[r] \in Seq(Nat)
      /\ UNCHANGED <<trace, pc, out, consumed>>
  BY EngineAssumption DEF Receive, RunInv, TypeInv, TypeOK, TypeOthers, local
<1>1. got'[r] = Append(got[r], Head(runBuf[r])) /\ runBuf'[r] = Tail(runBuf[r])
  BY <1>0 DEF Receive
<1>2. /\ Len(got'[r]) = Len(got[r]) + 1 /\ Len(runBuf'[r]) = Len(runBuf[r]) - 1
      /\ \A i \in 1 .. Len(got[r]) : got'[r][i] = got[r][i]
      /\ got'[r][Len(got[r]) + 1] = runBuf[r][1]
      /\ \A i \in 1 .. Len(runBuf'[r]) : runBuf'[r][i] = runBuf[r][i + 1]
      /\ Len(runBuf[r]) \in Nat /\ Len(runBuf[r]) >= 1 /\ Len(got[r]) \in Nat
  BY <1>0, <1>1
<1>3. Sent(r)' = Sent(r) /\ ~consumed[r]
  BY <1>0 DEF Sent, FailedAt, StreamOf
<1>4. ASSUME NEW i \in 1 .. Len(got'[r]) PROVE got'[r][i] = i - 1
  <2>1. CASE i \in 1 .. Len(got[r])
    BY <1>2, <2>1 DEF StreamOf
  <2>2. CASE i = Len(got[r]) + 1
    BY <1>2, <2>2 DEF StreamOf
  <2> QED
    BY <1>2, <2>1, <2>2
<1>5. ASSUME NEW i \in 1 .. Len(runBuf'[r]) PROVE runBuf'[r][i] = Len(got'[r]) + i - 1
  <2>1. i + 1 \in 1 .. Len(runBuf[r]) /\ i \in Nat
    BY <1>2
  <2>2. runBuf[r][i + 1] = Len(got[r]) + (i + 1) - 1
    BY <2>1 DEF StreamOf
  <2> QED
    BY <1>2, <2>1, <2>2
<1> QED
  BY <1>0, <1>2, <1>3, <1>4, <1>5 DEF StreamOf

LEMMA StreamKept ==
    ASSUME NEW t \in Runs, StreamOf(t), Sent(t)' = Sent(t),
           UNCHANGED <<got[t], runBuf[t], consumed[t]>>,
           pc[t] = "returned" => pc'[t] = "returned"
    PROVE  StreamOf(t)'
  BY DEF StreamOf

LEMMA StreamStep ==
    ASSUME MaxIterations > 0, RunCap >= MaxIterations
    PROVE  RunInv /\ ChannelInv /\ StreamInv /\ [Next]_vars => StreamInv'
<1> SUFFICES ASSUME RunInv, ChannelInv, StreamInv, [Next]_vars, NEW t \in Streamed
             PROVE  StreamOf(t)'
  BY DEF StreamInv
<1>0. /\ t \in Runs /\ TypeOK /\ StreamOf(t) /\ Streamed \subseteq Runs
      /\ runBuf \in [Runs -> Seq(Nat)] /\ got \in [Runs -> Seq(Nat)]
      /\ consumed \in [Runs -> BOOLEAN] /\ pc \in [Runs -> Labels]
  BY EngineAssumption DEF RunInv, TypeInv, StreamInv, TypeOK, TypeOthers, TypeRuns
<1>1. ASSUME NEW r \in Runs, Receive(r) PROVE StreamOf(t)'
  <2>1. CASE r = t
    BY <1>0, <1>1, <2>1, ReceiveStreams
  <2>2. CASE r # t
    <3>1. /\ UNCHANGED <<trace, pc, out, consumed>>
          /\ got'[t] = got[t] /\ runBuf'[t] = runBuf[t]
      BY <1>0, <1>1, <2>2 DEF Receive, local
    <3> QED
      BY <1>0, <3>1, StreamKept DEF Sent, FailedAt
  <2> QED
    BY <2>1, <2>2
<1>2. ASSUME NEW r \in Runs, EndRange(r) PROVE StreamOf(t)'
  <2>1. /\ UNCHANGED <<trace, pc, out, got, runBuf>> /\ runBuf[r] = <<>> /\ ~runOpen[r]
        /\ r \in Consumers /\ consumed' = [consumed EXCEPT ![r] = TRUE]
    BY <1>2 DEF EndRange, local, streams
  <2>2. pc[r] = "returned"
    BY <2>1, EngineAssumption DEF ChannelInv
  <2>3. Sent(t)' = Sent(t) /\ consumed'[t] = (t = r \/ consumed[t])
    BY <1>0, <2>1 DEF Sent, FailedAt
  <2> QED
    BY <1>0, <2>1, <2>2, <2>3 DEF StreamOf
<1>3. CASE UNCHANGED vars \/ Environment
  <2>1. UNCHANGED <<pc, trace, out>>
    BY <1>3 DEF vars, Environment, Stopper, EndContext, Receive, EndRange, CopyHandles, Signal,
       EndInterrupt, CloseOnce, ClearBreakpoints, Reset, DrainGraph, local
  <2>2. CASE UNCHANGED <<got, runBuf, consumed>>
    BY <1>0, <2>1, <2>2, StreamKept DEF Sent, FailedAt
  <2>3. UNCHANGED <<got, runBuf, consumed>> \/ \E r \in Runs : Receive(r) \/ EndRange(r)
    BY <1>3 DEF vars, Environment, Stopper, EndContext, CopyHandles, Signal, EndInterrupt,
       CloseOnce, ClearBreakpoints, Reset, DrainGraph, streams, readers
  <2> QED
    BY <1>1, <1>2, <2>2, <2>3
<1>4. ASSUME NEW r \in Runs, Call(r) \/ (\E q \in Runs : Resume(r, q)) \/ Step(r)
      PROVE  StreamOf(t)'
  <2>0. /\ UNCHANGED <<got, consumed>>
        /\ (\E q \in Runs : Resume(r, q)) => r # t /\ UNCHANGED runBuf
    BY <1>4 DEF Call, Resume, Step, Snapshot, Register, Stop, HitLimit, PauseBefore, BeginNode,
       NodeReturns, NodeFails, NodeRetries, DelayEnds, Record, Emit, Apply, Save, Decide, Unwind,
       readers, streams
  <2>1. CASE r = t
    <3>1. CASE Emit(t)
      BY <1>0, <3>1, EmitStreams
    <3>2. CASE ~Emit(t)
      BY <1>0, <1>4, <2>0, <2>1, <3>2, SentOnce, StreamKept, ReturnedIsOver
    <3> QED
      BY <3>1, <3>2
  <2>2. CASE r # t
    <3>1. Keeps(t)
      BY <1>0, <1>4, <2>2, OthersKept
    <3>2. runBuf'[t] = runBuf[t]
      <4>1. CASE Emit(r)
        BY <1>0, <2>2, <4>1 DEF Emit, SendToRun
      <4>2. CASE ~Emit(r)
        BY <1>4, <2>0, <4>2 DEF Call, Step, Snapshot, Register, Stop, HitLimit, PauseBefore,
           BeginNode, NodeReturns, NodeFails, NodeRetries, DelayEnds, Record, Apply, Save, Decide,
           Unwind, streams
      <4> QED
        BY <4>1, <4>2
    <3>3. Sent(t)' = Sent(t)
      BY <3>1 DEF Keeps, Sent, FailedAt
    <3> QED
      BY <1>0, <2>0, <3>1, <3>2, <3>3, StreamKept DEF Keeps
  <2> QED
    BY <2>1, <2>2
<1> QED
  BY <1>3, <1>4, NextCases

(* A caller that gives its stream room for the recursion limit receives     *)
(* every step of its run, the failing one included, once and in order, even *)
(* if it reads only after the run is over: the sends that do not wait for   *)
(* it lose nothing.                                                         *)
THEOREM StreamsDeliver ==
    ASSUME MaxIterations > 0, RunCap >= MaxIterations
    PROVE  Spec => []DeliveredInFull
<1>1. Init => StreamInv /\ StartInv
  <2> SUFFICES ASSUME Init PROVE StreamInv /\ StartInv
    OBVIOUS
  <2>1. ASSUME NEW r \in Runs PROVE StreamOf(r) /\ Starts(r)
    <3>1. /\ pc[r] = "idle" /\ trace[r] = <<>> /\ got[r] = <<>> /\ runBuf[r] = <<>>
          /\ base[r] = 0 /\ consumed[r] = FALSE
      BY DEF Init
    <3>2. Len(trace[r]) = 0 /\ Len(got[r]) = 0 /\ Len(runBuf[r]) = 0
      BY <3>1
    <3>3. Sent(r) = 0
      BY <3>1, <3>2 DEF Sent, FailedAt
    <3> QED
      BY <3>1, <3>2, <3>3 DEF StreamOf, Starts
  <2> QED
    BY <2>1, EngineAssumption DEF StreamInv, StartInv
<1>2. Init => TypeInv /\ ChannelInv
  BY InitType, EngineAssumption DEF TypeInv, Init, ChannelInv, NeverCrashes
<1>3. RunInv /\ StartInv /\ StreamInv => DeliveredInFull
  <2> SUFFICES ASSUME RunInv, StartInv, StreamInv, NEW r \in Consumers, consumed[r]
               PROVE  got[r] = [i \in 1 .. ResultCount(r) |-> base[r] + i - 1]
    BY DEF DeliveredInFull
  <2>1. r \in Streamed /\ r \in Runs /\ base[r] = 0
    BY EngineAssumption DEF StartInv, Starts
  <2>2. got[r] \in Seq(Nat) /\ runBuf[r] \in Seq(Nat) /\ Len(trace[r]) \in Nat
    BY <2>1 DEF RunInv, TypeInv, TypeOK, TypeOthers, TypeRuns
  <2>3. StreamOf(r) /\ pc[r] = "returned" /\ runBuf[r] = <<>>
    BY <2>1 DEF StreamInv, StreamOf
  <2>4. Len(got[r]) = ResultCount(r)
    <3>1. Len(got[r]) + Len(runBuf[r]) = Sent(r) /\ Len(runBuf[r]) = 0 /\ Len(got[r]) \in Nat
      BY <2>2, <2>3 DEF StreamOf
    <3>2. Sent(r) = ResultCount(r)
      BY <2>1, <2>2, <2>3 DEF Sent, FailedAt, ResultCount
    <3> QED
      BY <3>1, <3>2
  <2>5. got[r] = [i \in 1 .. Len(got[r]) |-> got[r][i]]
    BY <2>2
  <2>6. \A i \in 1 .. Len(got[r]) : got[r][i] = base[r] + i - 1
    BY <2>1, <2>3 DEF StreamOf
  <2> QED
    BY <2>4, <2>5, <2>6
<1>4. RunInv /\ ChannelInv /\ [Next]_vars => ChannelInv'
  BY ChannelStep DEF RunInv
<1> QED
  BY <1>1, <1>2, <1>3, <1>4, RunInvInit, RunInvStep, StartStep, StreamStep, PTL DEF Spec

-----------------------------------------------------------------------------
(* A result is recorded once, when its node has returned. *)
LEMMA NotedOnce ==
    ASSUME RunInv, NEW r \in Runs, Step(r), ~Register(r), ~Snapshot(r), ~Record(r), ~Emit(r), ~Apply(r)
    PROVE  /\ Noted(r)' = Noted(r) /\ UNCHANGED <<history, latest, trace, base>>
           /\ pc[r] \notin {"emit", "apply"} /\ pc'[r] \notin {"emit", "apply"}
           /\ pc'[r] \in InFlight \cup {"returned"}
<1>0. /\ pc \in [Runs -> Labels] /\ trace \in [Runs -> Seq(Places)]
      /\ out \in [Runs -> [kind : Kinds, node : Places, step : Nat]]
      /\ TypeOK /\ Len(trace[r]) \in Nat
  BY DEF RunInv, TypeInv, TypeOK, TypeRuns
<1>1. UNCHANGED <<history, latest, trace, base>>
  BY DEF Step, Stop, HitLimit, PauseBefore, BeginNode, NodeReturns, NodeFails, NodeRetries,
     DelayEnds, Save, Decide, Unwind, mirror, local
<1>2. /\ pc[r] \notin {"emit", "apply"} /\ pc'[r] \notin {"emit", "apply"}
      /\ pc'[r] \in InFlight \cup {"returned"}
  BY <1>0 DEF Step, Stop, HitLimit, PauseBefore, GoesOn, BeginNode, NodeReturns, NodeFails,
     NodeRetries, DelayEnds, Save, Decide, Follow, Unwind, Goto, Leave, InFlight
<1>3. pc[r] # "returned"
  BY ReturnedIsOver
<1>4. Sent(r)' = Sent(r)
  BY <1>3, SentOnce
<1>5. Noted(r) = Sent(r) /\ Noted(r)' = Sent(r)'
  BY <1>2 DEF Noted, Sent
<1> QED
  BY <1>1, <1>2, <1>4, <1>5

LEMMA HistoryKept ==
    ASSUME NEW l \in Runs, HistoryOf(l), Noted(l)' = Noted(l),
           UNCHANGED <<history, trace[l], base[l]>>,
           pc'[l] \in InFlight \cup {"returned"},
           \/ pc[l] \notin {"emit", "apply"} /\ pc'[l] \notin {"emit", "apply"}
           \/ UNCHANGED <<pc[l], pending[l], node[l]>>
    PROVE  HistoryOf(l)'
<1>1. EntriesOf(l)' = EntriesOf(l)
  BY DEF EntriesOf
<1>2. ASSUME NEW i \in EntriesOf(l) PROVE Tells(l, history[i])'
  <2>1. Tells(l, history[i])
    BY DEF HistoryOf
  <2> QED
    BY <2>1 DEF Tells
<1> QED
  BY <1>1, <1>2 DEF HistoryOf

LEMMA OthersNoted ==
    ASSUME NEW l \in Runs, Keeps(l)
    PROVE  Noted(l)' = Noted(l)
  BY DEF Keeps, Noted, FailedAt

(* Registering starts the history afresh. *)
LEMMA RegisterNotes ==
    ASSUME RunInv, StartInv, NEW l \in Runs, Register(l)
    PROVE  HistoryOf(l)'
<1>1. /\ pc[l] = "register" /\ pc'[l] = "loop" /\ history' = <<>> /\ UNCHANGED <<trace, base>>
  BY DEF Register, Goto, RunInv, TypeInv, TypeOK, TypeRuns, local
<1>2. base[l] = Len(trace[l]) /\ Len(trace[l]) \in Nat
  BY <1>1 DEF StartInv, Starts, RunInv, TypeInv, TypeOK, TypeRuns
<1>3. EntriesOf(l)' = {}
  BY <1>1 DEF EntriesOf
<1>4. Noted(l)' = Len(trace[l])
  BY <1>1, <1>2 DEF Noted, FailedAt
<1>5. base'[l] .. (Noted(l)' - 1) = {}
  BY <1>1, <1>2, <1>4
<1> QED
  BY <1>1, <1>3, <1>5 DEF HistoryOf, InFlight

(* What another run appends is not an entry of this one. *)
LEMMA OthersRecord ==
    ASSUME RunInv, NEW l \in Runs, NEW r \in Runs, r # l, HistoryOf(l), Record(r)
    PROVE  HistoryOf(l)'
<1> DEFINE e == [run |-> r, node |-> node[r], step |-> step[r], ok |-> pending[r].ok]
<1>0. /\ TypeOK /\ history \in Seq(Entries) /\ history' = Append(history, e) /\ e.run = r
      /\ UNCHANGED base
  BY DEF RunInv, TypeInv, TypeOK, TypeGraph, Record, local
<1>1. Keeps(l)
  BY <1>0, OthersKept DEF Step
<1> HIDE DEF e
<1>2. /\ DOMAIN history' = 1 .. Len(history) + 1 /\ DOMAIN history = 1 .. Len(history)
      /\ Len(history) \in Nat
      /\ \A i \in 1 .. Len(history) : history'[i] = history[i]
      /\ history'[Len(history) + 1] = e
  BY <1>0
<1>3. EntriesOf(l)' = EntriesOf(l) /\ \A i \in EntriesOf(l) : history'[i] = history[i]
  BY <1>0, <1>2 DEF EntriesOf
<1>4. Noted(l)' = Noted(l)
  BY <1>1, OthersNoted
<1>5. ASSUME NEW i \in EntriesOf(l) PROVE Tells(l, history[i])'
  <2>1. Tells(l, history[i]) /\ history'[i] = history[i]
    BY <1>3 DEF HistoryOf
  <2> QED
    BY <1>1, <2>1 DEF Tells, Keeps
<1>6. {history'[i].step : i \in EntriesOf(l)} = {history[i].step : i \in EntriesOf(l)}
  BY <1>3
<1> QED
  BY <1>0, <1>1, <1>3, <1>4, <1>5, <1>6 DEF HistoryOf, Keeps

(* The entry of the node in flight comes after those of the completed ones. *)
LEMMA RecordNotes ==
    ASSUME RunInv, StartInv, NEW l \in Runs, HistoryOf(l), Record(l)
    PROVE  HistoryOf(l)'
<1> DEFINE e == [run |-> l, node |-> node[l], step |-> step[l], ok |-> pending[l].ok]
           n == Len(history) + 1
<1>0. /\ history \in Seq(Entries) /\ history' = Append(history, e)
      /\ pc[l] = "record" /\ pc'[l] = "emit" /\ UNCHANGED <<trace, base, pending, node>>
  BY DEF RunInv, TypeInv, TypeOK, TypeGraph, TypeRuns, Record, Goto, local
<1>1. /\ step[l] = Len(trace[l]) /\ Len(trace[l]) \in Nat /\ base[l] \in Nat
      /\ base[l] <= Len(trace[l])
  BY <1>0 DEF RunInv, Standing, Before, StartInv, Starts, TypeInv, TypeOK, TypeRuns
<1>2. e.run = l /\ e.node = node[l] /\ e.step = Len(trace[l]) /\ e.ok = pending[l].ok
  BY <1>1
<1> HIDE DEF e
<1>3. /\ DOMAIN history' = 1 .. n /\ DOMAIN history = 1 .. Len(history)
      /\ Len(history) \in Nat /\ n \notin DOMAIN history
      /\ \A i \in 1 .. Len(history) : history'[i] = history[i] /\ i < n
      /\ history'[n] = e
  BY <1>0
<1>4. /\ EntriesOf(l)' = EntriesOf(l) \cup {n} /\ n \notin EntriesOf(l)
      /\ \A i \in EntriesOf(l) : history'[i] = history[i] /\ i < n /\ i \in Nat
  BY <1>2, <1>3 DEF EntriesOf
<1> HIDE DEF n
<1>5. Noted(l) = Len(trace[l]) /\ Noted(l)' = Len(trace[l]) + 1
  BY <1>0, <1>1 DEF Noted, FailedAt
<1>6. \A i \in EntriesOf(l) : history[i].step \in base[l] .. (Len(trace[l]) - 1)
  <2>1. {history[i].step : i \in EntriesOf(l)} = base[l] .. (Len(trace[l]) - 1)
    BY <1>5 DEF HistoryOf
  <2> QED
    BY <2>1
<1>7. {history'[i].step : i \in EntriesOf(l)'} = base[l] .. Len(trace[l])
  <2>1. {history'[i].step : i \in EntriesOf(l)'}
          = {history[i].step : i \in EntriesOf(l)} \cup {Len(trace[l])}
    BY <1>2, <1>3, <1>4
  <2>2. {history[i].step : i \in EntriesOf(l)} = base[l] .. (Len(trace[l]) - 1)
    BY <1>5 DEF HistoryOf
  <2>3. base[l] .. Len(trace[l]) = (base[l] .. (Len(trace[l]) - 1)) \cup {Len(trace[l])}
    BY <1>1
  <2> QED
    BY <2>1, <2>2, <2>3
<1>8. ASSUME NEW i \in EntriesOf(l)', NEW j \in EntriesOf(l)', i < j
      PROVE  history'[i].step < history'[j].step
  <2>1. i # n
    BY <1>3, <1>4, <1>8 DEF n
  <2>2. i \in EntriesOf(l) /\ history'[i] = history[i]
    BY <1>4, <2>1
  <2>3. CASE j = n
    BY <1>1, <1>2, <1>3, <1>6, <2>2, <2>3
  <2>4. CASE j # n
    BY <1>4, <1>8, <2>2, <2>4 DEF HistoryOf
  <2> QED
    BY <2>3, <2>4
<1>9. ASSUME NEW i \in EntriesOf(l)' PROVE Tells(l, history[i])'
  <2>1. CASE i = n
    <3>1. history'[i] = e
      BY <1>3, <2>1
    <3>2. e.step >= Len(trace'[l]) /\ ~(e.step < Len(trace'[l]))
      BY <1>0, <1>1, <1>2
    <3>3. e.ok = pending'[l].ok /\ e.node = node'[l] /\ pc'[l] = "emit"
      BY <1>0, <1>2
    <3> QED
      BY <3>1, <3>2, <3>3 DEF Tells
  <2>2. CASE i # n
    <3>1. i \in EntriesOf(l) /\ history'[i] = history[i]
      BY <1>4, <2>2
    <3>2. Tells(l, history[i]) /\ history[i].step < Len(trace[l])
      BY <1>1, <1>6, <3>1 DEF HistoryOf
    <3>3. ~(history[i].step >= Len(trace[l]))
      BY <1>1, <1>6, <3>1
    <3> QED
      BY <1>0, <3>1, <3>2, <3>3 DEF Tells
  <2> QED
    BY <2>1, <2>2
<1>10. {history'[i].step : i \in EntriesOf(l)'} = base'[l] .. (Noted(l)' - 1)
  <2>1. Noted(l)' - 1 = Len(trace[l]) /\ base'[l] = base[l]
    BY <1>0, <1>1, <1>5
  <2> QED
    BY <1>7, <2>1
<1>11. \A i, j \in EntriesOf(l)' : i < j => history'[i].step < history'[j].step
  BY <1>8
<1>12. \A i \in EntriesOf(l)' : Tells(l, history[i])'
  BY <1>9
<1>13. pc'[l] \in InFlight
  BY <1>0 DEF InFlight
<1> QED
  BY <1>10, <1>11, <1>12, <1>13, Zenon DEF HistoryOf

LEMMA EmitNotes ==
    ASSUME RunInv, NEW l \in Runs, HistoryOf(l), Emit(l)
    PROVE  HistoryOf(l)'
<1>0. /\ pc \in [Runs -> Labels] /\ out \in [Runs -> [kind : Kinds, node : Places, step : Nat]]
      /\ pc[l] = "emit" /\ UNCHANGED <<trace, base, pending, node, history>>
  BY DEF RunInv, TypeInv, TypeOK, TypeRuns, Emit, local, mirror
<1>1. \/ pending[l].ok /\ pc'[l] = "apply"
      \/ ~pending[l].ok /\ pc'[l] = "unwind" /\ out'[l].kind = "failed"
  BY <1>0 DEF Emit, Goto, Leave, Result
<1>2. Noted(l)' = Noted(l)
  BY <1>0, <1>1 DEF Noted, FailedAt
<1>3. EntriesOf(l)' = EntriesOf(l)
  BY <1>0 DEF EntriesOf
<1>4. ASSUME NEW i \in EntriesOf(l) PROVE Tells(l, history[i])'
  <2>1. Tells(l, history[i])
    BY DEF HistoryOf
  <2> QED
    BY <1>0, <1>1, <2>1 DEF Tells
<1> QED
  BY <1>0, <1>1, <1>2, <1>3, <1>4 DEF HistoryOf, InFlight

LEMMA ApplyNotes ==
    ASSUME RunInv, StartInv, NEW l \in Runs, HistoryOf(l), Apply(l)
    PROVE  HistoryOf(l)'
<1>0. /\ trace \in [Runs -> Seq(Places)] /\ pc[l] = "apply" /\ pc'[l] = "save"
      /\ trace'[l] = Append(trace[l], node[l]) /\ UNCHANGED <<base, history>>
      /\ pending[l].ok /\ trace[l] \in Seq(Places) /\ node[l] \in Places /\ base[l] \in Nat
  BY DEF RunInv, TypeInv, TypeOK, TypeRuns, Apply, Goto, StartInv, Starts, mirror
<1>1. /\ Len(trace'[l]) = Len(trace[l]) + 1 /\ Len(trace[l]) \in Nat
      /\ trace'[l][Len(trace[l]) + 1] = node[l]
      /\ \A i \in 1 .. Len(trace[l]) : trace'[l][i] = trace[l][i]
  BY <1>0
<1>2. Noted(l) = Len(trace[l]) + 1 /\ Noted(l)' = Noted(l)
  BY <1>0, <1>1 DEF Noted, FailedAt
<1>3. EntriesOf(l)' = EntriesOf(l)
  BY <1>0 DEF EntriesOf
<1>4. ASSUME NEW i \in EntriesOf(l) PROVE Tells(l, history[i])'
  <2>1. Tells(l, history[i])
    BY DEF HistoryOf
  <2>2. history[i].step \in base[l] .. Len(trace[l])
    <3>1. {history[j].step : j \in EntriesOf(l)} = base[l] .. (Noted(l) - 1)
      BY DEF HistoryOf
    <3> QED
      BY <1>1, <1>2, <3>1
  <2> DEFINE k == history[i].step
  <2>3. k \in Nat /\ k <= Len(trace[l])
    BY <1>0, <1>1, <2>2
  <2> HIDE DEF k
  <2>4. history[i].ok /\ history[i].node = trace'[l][k + 1]
    <3>1. CASE k < Len(trace[l])
      <4>1. history[i].ok /\ history[i].node = trace[l][k + 1]
        BY <2>1, <3>1 DEF Tells, k
      <4>2. k + 1 \in 1 .. Len(trace[l])
        BY <1>1, <2>3, <3>1
      <4> QED
        BY <1>1, <4>1, <4>2
    <3>2. CASE k = Len(trace[l])
      <4>1. history[i].step >= Len(trace[l])
        BY <1>1, <3>2 DEF k
      <4>2. history[i].ok = pending[l].ok /\ history[i].node = node[l]
        BY <1>0, <2>1, <4>1 DEF Tells
      <4> QED
        BY <1>0, <1>1, <3>2, <4>2
    <3> QED
      BY <1>1, <2>3, <3>1, <3>2
  <2>5. ~(k >= Len(trace'[l])) /\ k < Len(trace'[l])
    BY <1>1, <2>3
  <2> QED
    BY <1>0, <2>4, <2>5 DEF Tells, k
<1> QED
  BY <1>0, <1>2, <1>3, <1>4 DEF HistoryOf, InFlight

LEMMA HistoryStep == RunInv /\ StartInv /\ HistoryInv /\ [Next]_vars => HistoryInv'
<1> SUFFICES ASSUME RunInv, StartInv, HistoryInv, [Next]_vars, NEW l \in Runs, latest' = l
             PROVE  HistoryOf(l)'
  BY DEF HistoryInv
<1>0. /\ TypeOK /\ NoRun \notin Runs /\ (latest = l => HistoryOf(l))
  BY EngineAssumption DEF RunInv, TypeInv, HistoryInv
<1>1. CASE UNCHANGED vars \/ Environment
  <2>1. CASE Reset
    BY <1>0, <2>1 DEF Reset
  <2>2. CASE ~Reset
    <3>1. UNCHANGED <<pc, node, trace, pending, out, base, history, latest>>
      BY <1>1, <2>2 DEF vars, Environment, Stopper, EndContext, Receive, EndRange, CopyHandles,
         Signal, EndInterrupt, CloseOnce, ClearBreakpoints, DrainGraph, local, mirror
    <3>2. Noted(l)' = Noted(l)
      BY <3>1 DEF Noted, FailedAt
    <3> QED
      BY <1>0, <3>1, <3>2, HistoryKept DEF HistoryOf
  <2> QED
    BY <2>1, <2>2
<1>2. ASSUME NEW r \in Runs, Register(r) PROVE HistoryOf(l)'
  <2>1. r = l
    BY <1>2 DEF Register
  <2> QED
    BY <1>2, <2>1, RegisterNotes
<1>3. ASSUME NEW r \in Runs, Call(r) \/ (\E q \in Runs : Resume(r, q)) \/ Step(r), ~Register(r)
      PROVE  HistoryOf(l)'
  <2>0. latest = l /\ HistoryOf(l)
    <3>1. latest' = latest
      BY <1>3 DEF Call, Resume, Step, Snapshot, Stop, HitLimit, PauseBefore, BeginNode,
         NodeReturns, NodeFails, NodeRetries, DelayEnds, Record, Emit, Apply, Save, Decide,
         Unwind, mirror
    <3> QED
      BY <1>0, <3>1
  <2>1. CASE r = l
    <3>1. pc[l] \in InFlight \cup {"returned"}
      BY <2>0 DEF HistoryOf
    <3>2. Step(l) /\ ~Snapshot(l) /\ ~Register(l)
      BY <1>3, <2>1, <3>1 DEF Call, Resume, Snapshot, InFlight
    <3>3. CASE Record(l)
      BY <2>0, <3>3, RecordNotes
    <3>4. CASE Emit(l)
      BY <2>0, <3>4, EmitNotes
    <3>5. CASE Apply(l)
      BY <2>0, <3>5, ApplyNotes
    <3>6. CASE ~Record(l) /\ ~Emit(l) /\ ~Apply(l)
      BY <2>0, <3>2, <3>6, NotedOnce, HistoryKept
    <3> QED
      BY <3>3, <3>4, <3>5, <3>6
  <2>2. CASE r # l
    <3>1. Keeps(l) /\ base'[l] = base[l]
      BY <1>0, <1>3, <2>2, OthersKept, BaseKept
    <3>2. CASE Record(r)
      BY <2>0, <2>2, <3>2, OthersRecord
    <3>3. CASE ~Record(r)
      <4>1. history' = history
        BY <1>3, <3>3 DEF Call, Resume, Step, Snapshot, Stop, HitLimit, PauseBefore, BeginNode,
           NodeReturns, NodeFails, NodeRetries, DelayEnds, Emit, Apply, Save, Decide, Unwind,
           mirror
      <4> QED
        BY <2>0, <3>1, <4>1, OthersNoted, HistoryKept DEF Keeps, HistoryOf
    <3> QED
      BY <3>2, <3>3
  <2> QED
    BY <2>1, <2>2
<1> QED
  BY <1>1, <1>2, <1>3, NextCases

(* However many calls share the history of a graph, and whatever they were  *)
(* when the most recent one registered, its own steps are all there when it *)
(* is over: once each, in order, and with the outcome they had.             *)
THEOREM HistoryComplete == Spec => []LatestRunRecorded
<1>1. Init => StartInv
  <2> SUFFICES ASSUME Init, NEW r \in Runs PROVE Starts(r)
    BY DEF StartInv
  <2>1. pc[r] = "idle" /\ trace[r] = <<>> /\ base[r] = 0
    BY DEF Init
  <2>2. Len(trace[r]) = 0
    BY <2>1
  <2> QED
    BY <2>1, <2>2 DEF Starts
<1>2. Init => HistoryInv
  BY EngineAssumption DEF Init, HistoryInv
<1>3. RunInv /\ HistoryInv => LatestRunRecorded
  <2> SUFFICES ASSUME RunInv, HistoryInv, latest # NoRun, pc[latest] = "returned"
               PROVE  /\ {history[i].step : i \in EntriesOf(latest)}
                            = base[latest] .. (base[latest] + ResultCount(latest) - 1)
                      /\ \A i, j \in EntriesOf(latest) : i < j => history[i].step < history[j].step
                      /\ \A i \in EntriesOf(latest) :
                           /\ history[i].ok <=> history[i].step < Len(trace[latest])
                           /\ history[i].ok =>
                                history[i].node = trace[latest][history[i].step + 1]
    BY DEF LatestRunRecorded
  <2>1. PICK l \in Runs : l = latest
    BY DEF RunInv, TypeInv, TypeOK, TypeGraph
  <2>2. HistoryOf(l) /\ base[l] \in Nat /\ Len(trace[l]) \in Nat
    BY <2>1 DEF HistoryInv, RunInv, TypeInv, TypeOK, TypeRuns
  <2>3. Noted(l) - 1 = base[l] + ResultCount(l) - 1
    <3>1. pc[l] = "returned"
      BY <2>1
    <3>2. CASE out[l].kind = "failed"
      BY <2>2, <3>1, <3>2 DEF Noted, FailedAt, ResultCount
    <3>3. CASE out[l].kind # "failed"
      BY <2>2, <3>1, <3>3 DEF Noted, FailedAt, ResultCount
    <3> QED
      BY <3>2, <3>3
  <2>4. ASSUME NEW i \in EntriesOf(l)
        PROVE  /\ history[i].ok <=> history[i].step < Len(trace[l])
               /\ history[i].ok => history[i].node = trace[l][history[i].step + 1]
    <3>1. history[i].step \in Nat
      <4>1. history \in Seq(Entries) /\ i \in DOMAIN history
        BY DEF EntriesOf, RunInv, TypeInv, TypeOK, TypeGraph
      <4>2. history[i] \in Entries
        BY <4>1
      <4> QED
        BY <4>2 DEF Entries
    <3>2. Tells(l, history[i])
      BY <2>2 DEF HistoryOf
    <3> QED
      BY <2>1, <2>2, <3>1, <3>2 DEF Tells
  <2> QED
    BY <2>1, <2>2, <2>3, <2>4 DEF HistoryOf
<1> QED
  BY <1>1, <1>2, <1>3, RunInvInit, RunInvStep, StartStep, HistoryStep, PTL DEF Spec

==============================================================================
