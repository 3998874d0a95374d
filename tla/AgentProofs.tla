------------------------------ MODULE AgentProofs ------------------------------
(***************************************************************************)
(* Proofs about ReActAgent, for any number of callers, any replies of the  *)
(* LLM, conversations of any length and any number of iterations; and      *)
(* about HumanDecisions, for any number of people, interrupts and          *)
(* decisions.                                                              *)
(***************************************************************************)
EXTENDS ReActAgent, HumanDecisions, RoutingProofs, SequenceTheorems

-----------------------------------------------------------------------------
(* The agent is busy exactly while a run is under way. *)

BusyInv == pc \in [Runs -> Labels] /\ BusyWhileRunning

(* A label of the run that has the agent is replaced by another such. *)
LEMMA Carries ==
    ASSUME BusyInv, NEW r \in Runs, pc[r] \in InFlight,
           NEW l \in InFlight, Goto(r, l), isRunning' = isRunning
    PROVE  BusyInv'
  BY DEF BusyInv, BusyWhileRunning, Goto, InFlight, Labels

(* It gives the agent back. *)
LEMMA GivesBack ==
    ASSUME BusyInv, NEW r \in Runs, pc[r] \in InFlight, Return(r)
    PROVE  BusyInv'
  BY DEF BusyInv, BusyWhileRunning, Return, Forget, Goto, InFlight, Labels

LEMMA NodeStays ==
    ASSUME BusyInv, NEW r \in Runs, pc[r] \in InFlight, NEW s,
           NodeReturns(r, s), isRunning' = isRunning
    PROVE  BusyInv'
<1>1. Goto(r, "collect") \/ Goto(r, "node")
  BY DEF NodeReturns, EngineReturns
<1> QED BY <1>1, Carries DEF InFlight, Labels

LEMMA BusyStep == BusyInv /\ [Next]_vars => BusyInv'
<1> SUFFICES ASSUME BusyInv, [Next]_vars PROVE BusyInv'
  OBVIOUS
<1>1. CASE UNCHANGED vars
  BY <1>1 DEF BusyInv, BusyWhileRunning, vars, agentVars
<1>2. CASE SeedResumeState \/ ClearConversation \/ CloseGraph
  <2>1. UNCHANGED <<pc, isRunning>>
    BY <1>2 DEF SeedResumeState, ClearConversation, CloseGraph, agentVars
  <2> QED BY <2>1 DEF BusyInv, BusyWhileRunning
<1>3. ASSUME NEW r \in Runs, Begin(r) PROVE BusyInv'
  BY <1>3 DEF Begin, Goto, BusyInv, BusyWhileRunning, InFlight, Labels, agentVars
<1>4. ASSUME NEW r \in Runs, Run(r) PROVE BusyInv'
  <2>1. CASE BeforeRunFails(r)
    BY <2>1, GivesBack DEF BeforeRunFails, InFlight, Labels
  <2>2. CASE BeforeRun(r)
    BY <2>2, Carries DEF BeforeRun, InFlight, Labels, agentVars
  <2>3. CASE Prepare(r)
    BY <2>3, Carries DEF Prepare, InFlight, Labels
  <2>4. CASE Start(r)
    BY <2>4, Carries DEF Start, InFlight, Labels, agentVars
  <2>5. CASE Stops(r)
    BY <2>5, Carries DEF Stops, EngineReturns, InFlight, Labels, agentVars
  <2>6. CASE LLMFails(r)
    BY <2>6, Carries DEF LLMFails, At, EngineReturns, InFlight, Labels, agentVars
  <2>7. CASE Reason(r)
    BY <2>7, NodeStays DEF Reason, At, InFlight, Labels, agentVars
  <2>8. CASE ActInterrupts(r)
    BY <2>8, NodeStays DEF ActInterrupts, At, InFlight, Labels, agentVars
  <2>9. CASE ActRunsTools(r)
    BY <2>9, Carries DEF ActRunsTools, At, InFlight, Labels, agentVars
  <2>10. ASSUME NEW i \in 1 .. MaxCalls, ToolReturns(r, i) PROVE BusyInv'
    <3>1. UNCHANGED <<pc, isRunning>>
      BY <2>10 DEF ToolReturns, agentVars
    <3> QED BY <3>1 DEF BusyInv, BusyWhileRunning
  <2>11. CASE ActAnswers(r)
    BY <2>11, NodeStays DEF ActAnswers, InFlight, Labels, agentVars
  <2>12. CASE Observe(r)
    BY <2>12, NodeStays DEF Observe, At, InFlight, Labels, agentVars
  <2>13. CASE Finalize(r)
    BY <2>13, NodeStays DEF Finalize, At, InFlight, Labels, agentVars
  <2>14. CASE Finish(r)
    BY <2>14, GivesBack DEF Finish, InFlight, Labels
  <2> QED
    BY <1>4, <2>1, <2>2, <2>3, <2>4, <2>5, <2>6, <2>7, <2>8, <2>9, <2>10, <2>11, <2>12, <2>13,
       <2>14 DEF Run
<1> QED BY <1>1, <1>2, <1>3, <1>4 DEF Next

LEMMA BusyHolds == Spec => []BusyInv
<1>1. Init => BusyInv
  BY DEF Init, BusyInv, BusyWhileRunning, Labels, InFlight
<1> QED BY <1>1, BusyStep, PTL DEF Spec

(* isRunning says the truth, whatever ends a run: middleware that refuses, *)
(* a failing node, an ended context.                                       *)
THEOREM OneRunAtATime == Spec => []BusyWhileRunning
<1>1. BusyInv => BusyWhileRunning
  BY DEF BusyInv
<1> QED BY <1>1, BusyHolds, PTL

-----------------------------------------------------------------------------
(* The iterations of the agent end a run before the limit of its graph.    *)

(* A graph state has the five keys, whatever calls are pending. *)
States(P) ==
    [iteration : Nat, pending : P, interrupt : BOOLEAN, answered : BOOLEAN, done : SUBSET Nat]
Shape(s) == \E P : s \in States(P)

BudgetTypes ==
    /\ pc \in [Runs -> Labels] /\ out \in [Runs -> Outcomes]
    /\ node \in [Runs -> ReActGraph.nodes] /\ path \in [Runs -> Seq(ReActGraph.nodes)]
    /\ start \in [Runs -> 0 .. MaxIterations] /\ currentIteration \in 0 .. MaxIterations
    /\ DOMAIN state = Runs /\ state = [r \in Runs |-> state[r]]
    /\ \A r \in Runs : Shape(state[r])

(* A run at node n that took len steps in i iterations since it began at b. *)
Paced(n, len, i, b) ==
    /\ i >= b
    /\ n \in {"reason", "act", "observe"} => i < MaxIterations \/ i = b
    /\ n = "reason"   => len = 3 * (i - b)
    /\ n = "act"      => len = 3 * (i - b) + 1
    /\ n = "observe"  => len = 3 * (i - b) + 2
    /\ n = "finalize" => len <= 3 * MaxIterations

Place(r) ==
    /\ pc[r] \in {"idle", "before", "prepare", "start"} => path[r] = <<>> /\ node[r] = "reason"
    /\ pc[r] = "start" => state[r].iteration = start[r]
    /\ pc[r] = "tools" => node[r] = "act"
    /\ pc[r] \in {"node", "tools"} =>
          Paced(node[r], Len(path[r]), state[r].iteration, start[r])

BudgetInv == BudgetTypes /\ (\A r \in Runs : Place(r)) /\ NeverAtLimit

LEMMA PendingChanges ==
    ASSUME NEW s, Shape(s), NEW p
    PROVE  /\ Shape([s EXCEPT !.pending = p])
           /\ [s EXCEPT !.pending = p].iteration = s.iteration
<1>1. PICK P : s \in States(P)
  BY DEF Shape
<1>2. [s EXCEPT !.pending = p] \in States({p})
  BY <1>1 DEF States
<1> QED BY <1>1, <1>2 DEF Shape, States

LEMMA InterruptChanges ==
    ASSUME NEW s, Shape(s)
    PROVE  /\ Shape([s EXCEPT !.interrupt = TRUE])
           /\ [s EXCEPT !.interrupt = TRUE].iteration = s.iteration
<1>1. PICK P : s \in States(P)
  BY DEF Shape
<1>2. [s EXCEPT !.interrupt = TRUE] \in States(P)
  BY <1>1 DEF States
<1> QED BY <1>1, <1>2 DEF Shape, States

LEMMA AnswersChange ==
    ASSUME NEW s, Shape(s), NEW p
    PROVE  /\ Shape([s EXCEPT !.pending = p, !.answered = TRUE])
           /\ [s EXCEPT !.pending = p, !.answered = TRUE].iteration = s.iteration
<1>1. PICK P : s \in States(P)
  BY DEF Shape
<1>2. [s EXCEPT !.pending = p, !.answered = TRUE] \in States({p})
  BY <1>1 DEF States
<1> QED BY <1>1, <1>2 DEF Shape, States

LEMMA IterationCounts ==
    ASSUME NEW s, Shape(s)
    PROVE  Shape(NextRound(s)) /\ NextRound(s).iteration = s.iteration + 1
<1>1. PICK P : s \in States(P)
  BY DEF Shape
<1>2. s.iteration + 1 \in Nat
  BY <1>1 DEF States
<1>3. ASSUME NEW k \in Nat
      PROVE  /\ [s EXCEPT !.answered = FALSE, !.iteration = k] \in States(P)
             /\ [s EXCEPT !.answered = FALSE, !.iteration = k].iteration = k
  BY <1>1 DEF States
<1> QED BY <1>2, <1>3 DEF Shape, NextRound

LEMMA DoneChanges ==
    ASSUME NEW s, Shape(s), NEW D \in SUBSET Nat
    PROVE  /\ Shape([s EXCEPT !.done = D])
           /\ [s EXCEPT !.done = D].iteration = s.iteration
<1>1. PICK P : s \in States(P)
  BY DEF Shape
<1>2. [s EXCEPT !.done = D] \in States(P)
  BY <1>1 DEF States
<1> QED BY <1>1, <1>2 DEF Shape, States

LEMMA NewShape ==
    ASSUME NEW i \in Nat, NEW p
    PROVE  Shape(NewState(i, p)) /\ NewState(i, p).iteration = i
<1>1. NewState(i, p) \in States({p})
  BY DEF NewState, States
<1> QED BY <1>1 DEF Shape, NewState

LEMMA Iterates == ASSUME NEW s, Shape(s) PROVE s.iteration \in Nat
  BY DEF Shape, States

(* Where the router leads, by the condition of the node. *)
LEMMA Routed ==
    ASSUME NEW n \in {"reason", "act", "observe"}, NEW s, NextNode(n, s).err = "none"
    PROVE  NextNode(n, s).to = Answer(n, s) /\ Answer(n, s) \in ReActGraph.nodes
<1> DEFINE g       == ReActGraph
           ask     == [i \in 0 .. 5 |-> Answer(n, s)]
           leaving     == Outgoing(g, n)
           decided == {i \in leaving : ask[i] \in {Failure, g.edges[i].to}}
<1>1. Answer(n, s) \in {"reason", "act", "observe", "finalize", NoName}
  BY DEF Answer
<1>2. DOMAIN g.edges = 1 .. 5 /\ \A i \in 1 .. 5 : g.edges[i].cond /\ g.edges[i].to \in g.nodes
  BY DEF ReActGraph, Edge
<1>3. leaving \subseteq 1 .. 5 /\ leaving # {}
  BY DEF ReActGraph, Edge, Outgoing
<1>4. \A i \in leaving : ask[i] = Answer(n, s)
  BY <1>3
<1>5. \A i \in decided : i \in 1 .. 5 /\ g.edges[i].to = Answer(n, s)
  BY <1>1, <1>3, <1>4 DEF Failure, NoName
<1>6. NextNode(n, s) = RouteByEdges(g, n, ask)
  BY DEF NextNode, RouteFrom, ReActGraph
<1>7. CASE decided = {}
  <2>1. {i \in leaving : ~g.edges[i].cond} = {}
    BY <1>2, <1>3
  <2>2. RouteByEdges(g, n, ask) = RouteErr("noRoute")
    BY <1>3, <1>7, <2>1 DEF RouteByEdges
  <2> QED BY <1>6, <2>2 DEF RouteErr
<1>8. CASE decided # {}
  <2>1. FirstOf(decided) \in decided
    <3>1. decided \subseteq 1 .. 5
      BY <1>3
    <3> QED BY <1>8, <3>1, FirstOfIsFirst
  <2>2. {i \in leaving : ~g.edges[i].cond} = {}
    BY <1>2, <1>3
  <2>3. RouteByEdges(g, n, ask) = Route(g.edges[FirstOf(decided)].to)
    <3>1. leaving \ {i \in leaving : ~g.edges[i].cond} = leaving
      BY <2>2
    <3>2. ask[FirstOf(decided)] # Failure
      BY <1>1, <1>4, <2>1 DEF Failure, NoName
    <3> QED BY <1>3, <1>8, <3>1, <3>2 DEF RouteByEdges
  <2>4. PICK k \in 1 .. 5 : k = FirstOf(decided) /\ g.edges[k].to = Answer(n, s)
    BY <1>5, <2>1
  <2>5. NextNode(n, s).to = g.edges[k].to
    BY SMTT(20), <1>6, <2>3, <2>4 DEF Route
  <2>6. g.edges[k].to \in g.nodes
    BY <1>2
  <2> QED BY <2>4, <2>5, <2>6
<1> QED BY <1>7, <1>8

LEMMA Longer ==
    ASSUME NEW S, NEW q \in Seq(S), NEW x \in S
    PROVE  Append(q, x) \in Seq(S) /\ Len(Append(q, x)) = Len(q) + 1
  BY AppendProperties

(* One step of the loop keeps the pace. *)
LEMMA Paces ==
    ASSUME AgentAssumption, NEW len \in Nat, NEW i \in Nat, NEW b \in Nat, b <= MaxIterations
    PROVE  /\ Paced("reason", len, i, b) => /\ Paced("act", len + 1, i, b)
                                            /\ Paced("finalize", len + 1, i, b)
           /\ Paced("act", len, i, b) => Paced("observe", len + 1, i, b)
           /\ Paced("observe", len, i, b) =>
                 /\ i + 1 >= MaxIterations => Paced("finalize", len + 1, i + 1, b)
                 /\ ~(i + 1 >= MaxIterations) => Paced("reason", len + 1, i + 1, b)
<1>1. Paced("reason", len, i, b) => Paced("act", len + 1, i, b)
  BY DEF Paced, AgentAssumption
<1>2. Paced("reason", len, i, b) => Paced("finalize", len + 1, i, b)
  BY DEF Paced, AgentAssumption
<1>3. Paced("act", len, i, b) => Paced("observe", len + 1, i, b)
  BY DEF Paced, AgentAssumption
<1>4. Paced("observe", len, i, b) /\ i + 1 >= MaxIterations => Paced("finalize", len + 1, i + 1, b)
  BY DEF Paced, AgentAssumption
<1>5. Paced("observe", len, i, b) /\ ~(i + 1 >= MaxIterations) => Paced("reason", len + 1, i + 1, b)
  BY DEF Paced, AgentAssumption
<1> QED BY <1>1, <1>2, <1>3, <1>4, <1>5

(* A node that returned leaves its run in place, or ends it short of the   *)
(* limit.                                                                  *)
LEMMA Moves ==
    ASSUME AgentAssumption, BudgetInv, NEW r \in Runs, pc[r] \in {"node", "tools"},
           NEW s, Shape(s), NodeReturns(r, s),
           s.iteration = state[r].iteration + (IF node[r] = "observe" THEN 1 ELSE 0),
           UNCHANGED <<start, currentIteration>>
    PROVE  BudgetInv'
<1> DEFINE i == state[r].iteration
           b == start[r]
           len == Len(path[r])
<1>1. /\ i \in Nat /\ b \in 0 .. MaxIterations /\ MaxIterations \in Nat \ {0} /\ len \in Nat
      /\ path[r] \in Seq(ReActGraph.nodes) /\ node[r] \in ReActGraph.nodes
  BY Iterates, LenProperties DEF BudgetInv, BudgetTypes, AgentAssumption
<1>2. Paced(node[r], len, i, b)
  BY DEF BudgetInv, Place
<1>3. /\ path' = [path EXCEPT ![r] = Append(path[r], node[r])]
      /\ path'[r] = Append(path[r], node[r]) /\ Len(path'[r]) = len + 1
      /\ path' \in [Runs -> Seq(ReActGraph.nodes)]
  <2>1. path' = [path EXCEPT ![r] = Append(path[r], node[r])]
    BY DEF NodeReturns
  <2>2. Append(path[r], node[r]) \in Seq(ReActGraph.nodes) /\ Len(Append(path[r], node[r])) = len + 1
    BY <1>1, Longer
  <2> QED BY <2>1, <2>2 DEF BudgetInv, BudgetTypes
<1>4. /\ DOMAIN state' = Runs /\ state' = [q \in Runs |-> state'[q]]
      /\ \A q \in Runs : Shape(state'[q])
      /\ \A q \in Runs \ {r} : state'[q] = state[q]
  BY DEF NodeReturns, BudgetInv, BudgetTypes
<1>5. CASE \E kind \in {"ok", "noRoute"} : EngineReturns(r, kind) /\ UNCHANGED node
  <2>1. PICK kind \in {"ok", "noRoute"} : EngineReturns(r, kind) /\ UNCHANGED node
    BY <1>5
  <2>2. pc' = [pc EXCEPT ![r] = "collect"] /\ out' = [out EXCEPT ![r] = kind]
    BY <2>1 DEF EngineReturns, Goto
  <2>3. BudgetTypes'
    BY <1>3, <1>4, <2>1, <2>2 DEF BudgetInv, BudgetTypes, Labels, Outcomes
  <2>4. ASSUME NEW q \in Runs PROVE Place(q)'
    BY <1>3, <1>4, <2>1, <2>2 DEF BudgetInv, BudgetTypes, Place, Paced
  <2>5. NeverAtLimit'
    BY <2>2 DEF BudgetInv, BudgetTypes, NeverAtLimit
  <2> QED BY <2>3, <2>4, <2>5 DEF BudgetInv
<1>6. CASE /\ state' = [state EXCEPT ![r] = s] /\ node[r] \notin ReActGraph.ends
           /\ NextNode(node[r], s).err = "none"
           /\ node' = [node EXCEPT ![r] = NextNode(node[r], s).to]
           /\ Goto(r, "node") /\ UNCHANGED out
  <2>1. node[r] \in {"reason", "act", "observe"}
    BY <1>1, <1>6 DEF ReActGraph
  <2>2. NextNode(node[r], s).to = Answer(node[r], s) /\ Answer(node[r], s) \in ReActGraph.nodes
    BY <1>6, <2>1, Routed
  <2>3. state'[r] = s /\ s.iteration \in Nat
    BY <1>6, Iterates DEF BudgetInv, BudgetTypes
  <2>4. Paced(Answer(node[r], s), len + 1, s.iteration, b)
    <3>0. len \in Nat /\ i \in Nat /\ b \in Nat /\ b <= MaxIterations
      BY <1>1
    <3>1. CASE node[r] = "reason"
      <4>1. Answer(node[r], s) \in {"act", "finalize"} /\ s.iteration = i
        BY <1>1, <3>1 DEF Answer
      <4>2. Paced("act", len + 1, i, b) /\ Paced("finalize", len + 1, i, b)
        BY <1>2, <3>0, <3>1, Paces
      <4> QED BY <4>1, <4>2
    <3>2. CASE node[r] = "act"
      <4>1. Answer(node[r], s) \in {NoName, "observe"} /\ s.iteration = i
        BY <1>1, <3>2 DEF Answer
      <4>2. Answer(node[r], s) = "observe"
        BY <2>2, <4>1 DEF ReActGraph, NoName
      <4>3. Paced("observe", len + 1, i, b)
        BY <1>2, <3>0, <3>2, Paces
      <4> QED BY <4>1, <4>2, <4>3
    <3>3. CASE node[r] = "observe"
      <4>1. /\ s.iteration = i + 1
            /\ Answer(node[r], s) = IF i + 1 >= MaxIterations THEN "finalize" ELSE "reason"
        BY <1>1, <3>3 DEF Answer
      <4>2. /\ i + 1 >= MaxIterations => Paced("finalize", len + 1, i + 1, b)
            /\ ~(i + 1 >= MaxIterations) => Paced("reason", len + 1, i + 1, b)
        BY <1>2, <3>0, <3>3, Paces
      <4> QED BY <4>1, <4>2
    <3> QED BY <2>1, <3>1, <3>2, <3>3
  <2>5. pc' = [pc EXCEPT ![r] = "node"] /\ node' = [node EXCEPT ![r] = Answer(node[r], s)]
    BY <1>6, <2>2 DEF Goto
  <2>6. BudgetTypes'
    BY <1>3, <1>4, <1>6, <2>2, <2>5 DEF BudgetInv, BudgetTypes, Labels
  <2>7. Place(r)'
    BY <1>3, <2>3, <2>4, <2>5 DEF BudgetInv, BudgetTypes, Place
  <2>8. ASSUME NEW q \in Runs \ {r} PROVE Place(q)'
    <3>1. /\ pc'[q] = pc[q] /\ node'[q] = node[q] /\ path'[q] = path[q]
          /\ state'[q] = state[q] /\ start'[q] = start[q]
      BY <1>3, <1>4, <2>5 DEF BudgetInv, BudgetTypes
    <3> QED BY <3>1 DEF BudgetInv, Place
  <2>9. NeverAtLimit'
    BY <1>6 DEF BudgetInv, NeverAtLimit
  <2> QED BY <2>6, <2>7, <2>8, <2>9 DEF BudgetInv
<1> QED BY <1>5, <1>6 DEF NodeReturns

(* Where the graph allows the rounds of the agent, no run is at its limit. *)
LEMMA BelowLimit ==
    ASSUME AgentAssumption, BudgetInv, NEW r \in Runs, pc[r] = "node"
    PROVE  Len(path[r]) <= 3 * MaxIterations
<1>1. /\ state[r].iteration \in Nat /\ start[r] \in 0 .. MaxIterations
      /\ MaxIterations \in Nat \ {0} /\ Len(path[r]) \in Nat
      /\ node[r] \in {"reason", "act", "observe", "finalize"}
  BY Iterates, LenProperties DEF BudgetInv, BudgetTypes, AgentAssumption, ReActGraph
<1>2. Paced(node[r], Len(path[r]), state[r].iteration, start[r])
  BY DEF BudgetInv, Place
<1> QED BY <1>1, <1>2 DEF Paced

(* A run that ends keeps nothing. *)
LEMMA Forgets ==
    ASSUME AgentAssumption, BudgetInv, NEW r \in Runs, Forget(r),
           out' = out \/ out' = [out EXCEPT ![r] = "middleware"], UNCHANGED currentIteration
    PROVE  BudgetInv'
<1>1. Shape(NewState(0, <<>>))
  BY NewShape
<1>2. <<>> \in Seq(ReActGraph.nodes) /\ "reason" \in ReActGraph.nodes
  BY EmptySeq DEF ReActGraph
<1>3. /\ node' = [node EXCEPT ![r] = "reason"] /\ path' = [path EXCEPT ![r] = <<>>]
      /\ state' = [state EXCEPT ![r] = NewState(0, <<>>)]
      /\ start' = [start EXCEPT ![r] = 0] /\ pc' = [pc EXCEPT ![r] = "returned"]
  BY DEF Forget, Goto
<1>4. BudgetTypes'
  <2>1. pc' \in [Runs -> Labels] /\ out' \in [Runs -> Outcomes]
    BY <1>3 DEF BudgetInv, BudgetTypes, Labels, Outcomes
  <2>2. node' \in [Runs -> ReActGraph.nodes] /\ path' \in [Runs -> Seq(ReActGraph.nodes)]
    BY <1>2, <1>3 DEF BudgetInv, BudgetTypes
  <2>3. start' \in [Runs -> 0 .. MaxIterations] /\ currentIteration' \in 0 .. MaxIterations
    BY <1>3 DEF BudgetInv, BudgetTypes, AgentAssumption
  <2>4. /\ DOMAIN state' = Runs /\ state' = [q \in Runs |-> state'[q]]
        /\ \A q \in Runs : Shape(state'[q])
    BY <1>1, <1>3 DEF BudgetInv, BudgetTypes
  <2> QED BY <2>1, <2>2, <2>3, <2>4 DEF BudgetTypes
<1>5. ASSUME NEW q \in Runs PROVE Place(q)'
  BY <1>3 DEF BudgetInv, BudgetTypes, Place, Paced
<1>6. NeverAtLimit'
  BY DEF BudgetInv, BudgetTypes, NeverAtLimit
<1> QED BY <1>4, <1>5, <1>6 DEF BudgetInv

(* The tools of a reply run at the node that asked for them. *)
LEMMA ToolsRun ==
    ASSUME BudgetInv, NEW r \in Runs, pc[r] \in {"node", "tools"}, node[r] = "act",
           NEW D \in SUBSET Nat, state' = [state EXCEPT ![r].done = D],
           pc' = [pc EXCEPT ![r] = "tools"],
           UNCHANGED <<out, node, path, start, currentIteration>>
    PROVE  BudgetInv'
<1> DEFINE s == [state[r] EXCEPT !.done = D]
<1>1. Shape(s) /\ s.iteration = state[r].iteration
  BY DoneChanges DEF BudgetInv, BudgetTypes
<1>2. state' = [state EXCEPT ![r] = s]
  OBVIOUS
<1> HIDE DEF s
<1>3. BudgetTypes'
  BY <1>1, <1>2 DEF BudgetInv, BudgetTypes, Labels
<1>4. ASSUME NEW q \in Runs PROVE Place(q)'
  BY <1>1, <1>2 DEF BudgetInv, BudgetTypes, Place
<1> QED BY <1>3, <1>4 DEF BudgetInv, NeverAtLimit

LEMMA BudgetStep ==
    ASSUME AgentAssumption, BudgetInv, [Next]_vars
    PROVE  BudgetInv'
<1>1. CASE UNCHANGED <<pc, out, node, path, start, currentIteration, state>>
  BY <1>1 DEF BudgetInv, BudgetTypes, Place, Paced, NeverAtLimit
<1>2. CASE SeedResumeState
  <2>1. UNCHANGED <<pc, out, node, path, start, state>> /\ currentIteration' \in 0 .. MaxIterations
    BY <1>2 DEF SeedResumeState, runVars
  <2> QED BY <2>1 DEF BudgetInv, BudgetTypes, Place, Paced, NeverAtLimit
<1>3. ASSUME NEW r \in Runs, Begin(r) PROVE BudgetInv'
  <2>1. CASE isRunning
    <3>1. /\ out' = [out EXCEPT ![r] = "busy"] /\ pc' = [pc EXCEPT ![r] = "returned"]
          /\ UNCHANGED <<node, path, start, currentIteration, state>>
      BY <1>3, <2>1 DEF Begin, agentVars, Goto
    <3> QED BY <3>1 DEF BudgetInv, BudgetTypes, Place, Paced, NeverAtLimit, Labels, Outcomes
  <2>2. CASE ~isRunning
    <3>1. /\ pc[r] = "idle" /\ pc' = [pc EXCEPT ![r] = "before"]
          /\ currentIteration' \in {0, currentIteration}
          /\ start' = [start EXCEPT ![r] = currentIteration']
          /\ UNCHANGED <<node, path, out, state>>
      BY <1>3, <2>2 DEF Begin, Goto
    <3>2. currentIteration' \in 0 .. MaxIterations
      BY <3>1 DEF BudgetInv, BudgetTypes, AgentAssumption
    <3> QED BY <3>1, <3>2 DEF BudgetInv, BudgetTypes, Place, Paced, NeverAtLimit, Labels
  <2> QED BY <2>1, <2>2
<1>4. ASSUME NEW r \in Runs, Run(r) PROVE BudgetInv'
  <2>1. CASE BeforeRunFails(r)
    BY <2>1, Forgets DEF BeforeRunFails, Return
  <2>2. CASE Finish(r)
    BY <2>2, Forgets DEF Finish, Return
  <2>3. CASE BeforeRun(r)
    <3>1. /\ pc[r] = "before" /\ pc' = [pc EXCEPT ![r] = "prepare"]
          /\ UNCHANGED <<node, path, start, currentIteration, state, out>>
      BY <2>3 DEF BeforeRun, Goto, runVars, agentVars
    <3> QED BY <3>1 DEF BudgetInv, BudgetTypes, Place, NeverAtLimit, Labels
  <2>4. CASE Prepare(r)
    <3> DEFINE s == NewState(start[r], pendingToolCalls)
    <3>1. /\ pc[r] = "prepare" /\ pc' = [pc EXCEPT ![r] = "start"]
          /\ state' = [state EXCEPT ![r] = s]
          /\ UNCHANGED <<node, path, start, currentIteration, out>>
      BY <2>4 DEF Prepare, Goto
    <3>2. Shape(s) /\ s.iteration = start[r]
      BY NewShape DEF BudgetInv, BudgetTypes, AgentAssumption
    <3> HIDE DEF s
    <3>3. BudgetTypes'
      BY <3>1, <3>2 DEF BudgetInv, BudgetTypes, Labels
    <3>4. ASSUME NEW q \in Runs PROVE Place(q)'
      BY <3>1, <3>2 DEF BudgetInv, BudgetTypes, Place
    <3> QED BY <3>1, <3>3, <3>4 DEF BudgetInv, NeverAtLimit
  <2>5. CASE Start(r)
    <3>1. /\ pc[r] = "start"
          /\ \/ pc' = [pc EXCEPT ![r] = "waiting"]
             \/ pc' = [pc EXCEPT ![r] = "node"]
          /\ UNCHANGED <<node, path, start, currentIteration, state, out>>
      BY <2>5 DEF Start, Goto, runVars, agentVars
    <3>2. node[r] = "reason" /\ path[r] = <<>> /\ state[r].iteration = start[r]
      BY <3>1 DEF BudgetInv, Place
    <3>3. Paced(node[r], Len(path[r]), state[r].iteration, start[r])
      BY <3>2 DEF Paced, BudgetInv, BudgetTypes, AgentAssumption
    <3>4. BudgetTypes'
      BY <3>1 DEF BudgetInv, BudgetTypes, Labels
    <3>5. ASSUME NEW q \in Runs PROVE Place(q)'
      BY <3>1, <3>3 DEF BudgetInv, BudgetTypes, Place
    <3> QED BY <3>1, <3>4, <3>5 DEF BudgetInv, NeverAtLimit
  <2>6. CASE Stops(r)
    <3>1. pc[r] = "node" /\ pc' = [pc EXCEPT ![r] = "collect"]
          /\ UNCHANGED <<node, path, start, currentIteration, state>>
      BY <2>6 DEF Stops, EngineReturns, Goto, runVars, agentVars
    <3>2. \/ out' = [out EXCEPT ![r] = "failed"]
          \/ Len(path[r]) >= RecursionLimit /\ out' = [out EXCEPT ![r] = "limit"]
      BY <2>6 DEF Stops, EngineReturns
    <3>3. BudgetTypes'
      BY <3>1, <3>2 DEF BudgetInv, BudgetTypes, Labels, Outcomes
    <3>4. ASSUME NEW q \in Runs PROVE Place(q)'
      BY <3>1 DEF BudgetInv, BudgetTypes, Place
    <3>5. NeverAtLimit'
      <4>1. CASE out' = [out EXCEPT ![r] = "failed"]
        BY <4>1 DEF BudgetInv, BudgetTypes, NeverAtLimit
      <4>2. CASE Len(path[r]) >= RecursionLimit
        <5>1. Len(path[r]) <= 3 * MaxIterations
          BY <3>1, BelowLimit
        <5>2. Len(path[r]) \in Nat
          BY LenProperties DEF BudgetInv, BudgetTypes
        <5> QED BY <4>2, <5>1, <5>2 DEF NeverAtLimit, AgentAssumption
      <4> QED BY <3>2, <4>1, <4>2
    <3> QED BY <3>3, <3>4, <3>5 DEF BudgetInv
  <2>7. CASE LLMFails(r)
    <3>1. /\ pc' = [pc EXCEPT ![r] = "collect"] /\ out' = [out EXCEPT ![r] = "failed"]
          /\ path' = [path EXCEPT ![r] = Append(path[r], node[r])]
          /\ UNCHANGED <<node, start, currentIteration, state>>
      BY <2>7 DEF LLMFails, EngineReturns, Goto, agentVars
    <3>2. Append(path[r], node[r]) \in Seq(ReActGraph.nodes)
      BY Longer DEF BudgetInv, BudgetTypes
    <3>3. BudgetTypes'
      BY <3>1, <3>2 DEF BudgetInv, BudgetTypes, Labels, Outcomes
    <3>4. ASSUME NEW q \in Runs PROVE Place(q)'
      BY <3>1 DEF BudgetInv, BudgetTypes, Place
    <3> QED BY <3>1, <3>3, <3>4 DEF BudgetInv, BudgetTypes, NeverAtLimit
  <2>8. CASE Reason(r)
    <3>1. PICK cs : NodeReturns(r, [state[r] EXCEPT !.pending = cs])
      BY <2>8 DEF Reason
    <3>2. pc[r] = "node" /\ node[r] = "reason" /\ UNCHANGED <<start, currentIteration>>
      BY <2>8 DEF Reason, At, agentVars
    <3> DEFINE s == [state[r] EXCEPT !.pending = cs]
    <3>3. Shape(s) /\ s.iteration = state[r].iteration /\ state[r].iteration \in Nat
      BY PendingChanges, Iterates DEF BudgetInv, BudgetTypes
    <3> HIDE DEF s
    <3>4. s.iteration = state[r].iteration + (IF node[r] = "observe" THEN 1 ELSE 0)
      BY <3>2, <3>3
    <3>5. NodeReturns(r, s)
      BY <3>1 DEF s
    <3> QED BY <3>2, <3>3, <3>4, <3>5, Moves
  <2>9. CASE ActInterrupts(r)
    <3> DEFINE s == [state[r] EXCEPT !.interrupt = TRUE]
    <3>1. NodeReturns(r, s)
      BY <2>9 DEF ActInterrupts
    <3>2. pc[r] = "node" /\ node[r] = "act" /\ UNCHANGED <<start, currentIteration>>
      BY <2>9 DEF ActInterrupts, At, agentVars
    <3>3. Shape(s) /\ s.iteration = state[r].iteration /\ state[r].iteration \in Nat
      BY InterruptChanges, Iterates DEF BudgetInv, BudgetTypes
    <3> HIDE DEF s
    <3>4. s.iteration = state[r].iteration + (IF node[r] = "observe" THEN 1 ELSE 0)
      BY <3>2, <3>3
    <3> QED BY <3>1, <3>2, <3>3, <3>4, Moves
  <2>10. CASE ActRunsTools(r)
    <3>1. /\ pc[r] = "node" /\ node[r] = "act" /\ state' = [state EXCEPT ![r].done = {}]
          /\ pc' = [pc EXCEPT ![r] = "tools"]
          /\ UNCHANGED <<out, node, path, start, currentIteration>>
      BY <2>10 DEF ActRunsTools, At, Goto, agentVars
    <3>2. {} \in SUBSET Nat
      OBVIOUS
    <3> QED BY <3>1, <3>2, ToolsRun
  <2>11. ASSUME NEW i \in 1 .. MaxCalls, ToolReturns(r, i) PROVE BudgetInv'
    <3> DEFINE D == state[r].done \cup {i}
    <3>1. /\ pc[r] = "tools" /\ pc' = pc /\ UNCHANGED <<out, node, path, start, currentIteration>>
          /\ state' = [state EXCEPT ![r].done = D]
      BY <2>11 DEF ToolReturns, agentVars
    <3>2. D \in SUBSET Nat
      BY DEF BudgetInv, BudgetTypes, Shape, States, AgentAssumption
    <3>3. node[r] = "act" /\ pc' = [pc EXCEPT ![r] = "tools"]
      BY <3>1 DEF BudgetInv, BudgetTypes, Place
    <3> HIDE DEF D
    <3> QED BY <3>1, <3>2, <3>3, ToolsRun
  <2>12. CASE ActAnswers(r)
    <3>1. PICK cs : NodeReturns(r, [state[r] EXCEPT !.pending = cs, !.answered = TRUE])
      BY <2>12 DEF ActAnswers
    <3>2. pc[r] = "tools" /\ node[r] = "act" /\ UNCHANGED <<start, currentIteration>>
      BY <2>12 DEF ActAnswers, agentVars, BudgetInv, Place
    <3> DEFINE s == [state[r] EXCEPT !.pending = cs, !.answered = TRUE]
    <3>3. Shape(s) /\ s.iteration = state[r].iteration /\ state[r].iteration \in Nat
      BY AnswersChange, Iterates DEF BudgetInv, BudgetTypes
    <3> HIDE DEF s
    <3>4. s.iteration = state[r].iteration + (IF node[r] = "observe" THEN 1 ELSE 0)
      BY <3>2, <3>3
    <3>5. NodeReturns(r, s)
      BY <3>1 DEF s
    <3> QED BY <3>2, <3>3, <3>4, <3>5, Moves
  <2>13. CASE Observe(r)
    <3>1. NodeReturns(r, NextRound(state[r]))
      BY <2>13 DEF Observe
    <3>2. pc[r] = "node" /\ node[r] = "observe" /\ UNCHANGED <<start, currentIteration>>
      BY <2>13 DEF Observe, At, agentVars
    <3>3. Shape(NextRound(state[r])) /\ NextRound(state[r]).iteration = state[r].iteration + 1
      BY IterationCounts DEF BudgetInv, BudgetTypes
    <3> QED BY <3>1, <3>2, <3>3, Moves
  <2>14. CASE Finalize(r)
    <3>1. NodeReturns(r, state[r])
      BY <2>14 DEF Finalize
    <3>2. pc[r] = "node" /\ node[r] = "finalize" /\ UNCHANGED <<start, currentIteration>>
      BY <2>14 DEF Finalize, At, agentVars
    <3>3. Shape(state[r]) /\ state[r].iteration \in Nat
      BY Iterates DEF BudgetInv, BudgetTypes
    <3>4. state[r].iteration = state[r].iteration + (IF node[r] = "observe" THEN 1 ELSE 0)
      BY <3>2, <3>3
    <3> QED BY <3>1, <3>2, <3>3, <3>4, Moves
  <2> QED
    BY <1>4, <2>1, <2>2, <2>3, <2>4, <2>5, <2>6, <2>7, <2>8, <2>9, <2>10, <2>11, <2>12, <2>13,
       <2>14 DEF Run
<1> QED BY <1>1, <1>2, <1>3, <1>4 DEF Next, vars, runVars, agentVars, ClearConversation, CloseGraph

LEMMA BudgetHolds == Spec => []BudgetInv
<1>1. Init => BudgetInv
  <2> SUFFICES ASSUME Init PROVE BudgetInv
    OBVIOUS
  <2>1. Shape(NewState(0, <<>>))
    BY NewShape
  <2>2. <<>> \in Seq(ReActGraph.nodes) /\ "reason" \in ReActGraph.nodes
    BY EmptySeq DEF ReActGraph
  <2>3. BudgetTypes
    BY <2>1, <2>2, AgentAssumption DEF Init, BudgetTypes, Labels, Outcomes, AgentAssumption
  <2>4. ASSUME NEW r \in Runs PROVE Place(r)
    BY DEF Init, Place
  <2>5. NeverAtLimit
    BY DEF Init, NeverAtLimit
  <2> QED BY <2>3, <2>4, <2>5 DEF BudgetInv
<1>2. BudgetInv /\ [Next]_vars => BudgetInv'
  BY AgentAssumption, BudgetStep
<1> QED BY <1>1, <1>2, PTL DEF Spec

(* An agent whose graph allows three steps for each of its iterations, and *)
(* one more, never has a run cut off at the limit: however the LLM         *)
(* answers, whatever was seeded, and with any number of callers.           *)
THEOREM IterationsEndRuns == Spec => []NeverAtLimit
<1>1. BudgetInv => NeverAtLimit
  BY DEF BudgetInv
<1> QED BY <1>1, BudgetHolds, PTL

-----------------------------------------------------------------------------
(* A tool that waits for a person never runs, and no call is run twice.    *)

(* The calls of one reply, none made before `last`, those in todo not run. *)
Fresh(cs, last, todo, executed) ==
    /\ DOMAIN cs \subseteq Nat
    /\ \A i \in DOMAIN cs : cs[i].key \in 1 .. last
    /\ \A i, j \in DOMAIN cs : cs[i].key = cs[j].key => i = j
    /\ \A i \in DOMAIN cs \cap todo : \A c \in executed : c.key # cs[i].key

(* What the run that has the agent still has to do. *)
Todo(r) ==
    /\ pc[r] = "node" /\ node[r] = "act" => Fresh(state[r].pending, calls, Nat, ran)
    /\ pc[r] = "tools" =>
          /\ Fresh(state[r].pending, calls, Nat \ state[r].done, ran)
          /\ ~Guarded(state[r].pending)

CallsInv ==
    /\ calls \in Nat /\ ~rerun
    /\ \A c \in ran : c.key \in 1 .. calls /\ c.tool \notin InterruptOn
    /\ \A r \in Runs : Todo(r)

ToolsInv == BusyInv /\ BudgetInv /\ CallsInv
(* The runs that do not have the agent have nothing to do. *)
LEMMA OthersWait ==
    ASSUME BusyInv, NEW r \in Runs, pc[r] \in InFlight, NEW q \in Runs \ {r}, pc'[q] = pc[q]
    PROVE  Todo(q)'
  BY DEF BusyInv, BusyWhileRunning, Todo, InFlight, Labels

(* Nor has a run that is not between two nodes or among tools. *)
LEMMA Leaves ==
    ASSUME BusyInv, CallsInv, NEW r \in Runs, pc[r] \in InFlight,
           NEW l \in Labels \ {"node", "tools"}, Goto(r, l), UNCHANGED <<ran, rerun, calls>>
    PROVE  CallsInv'
<1>1. \A q \in Runs \ {r} : pc'[q] = pc[q]
  BY DEF Goto, BusyInv
<1>2. Todo(r)'
  BY DEF Goto, BusyInv, Todo
<1> QED BY <1>1, <1>2, OthersWait DEF CallsInv

(* Only the LLM's answer leads to the node that runs tools. *)
LEMMA Enters ==
    ASSUME BusyInv, BudgetInv, NEW r \in Runs, NEW s, NodeReturns(r, s)
    PROVE  /\ \A q \in Runs \ {r} : pc'[q] = pc[q]
           /\ \/ pc'[r] = "collect"
              \/ pc'[r] = "node" /\ (node'[r] = "act" => node[r] = "reason")
<1>1. node \in [Runs -> ReActGraph.nodes] /\ pc \in [Runs -> Labels]
  BY DEF BudgetInv, BudgetTypes
<1>2. CASE \E kind \in {"ok", "noRoute"} : EngineReturns(r, kind)
  BY <1>1, <1>2 DEF EngineReturns, Goto
<1>3. CASE /\ node[r] \notin ReActGraph.ends /\ NextNode(node[r], s).err = "none"
           /\ node' = [node EXCEPT ![r] = NextNode(node[r], s).to] /\ Goto(r, "node")
  <2>1. node[r] \in {"reason", "act", "observe"}
    BY <1>1, <1>3 DEF ReActGraph
  <2>2. NextNode(node[r], s).to = Answer(node[r], s)
    BY <1>3, <2>1, Routed
  <2>3. Answer(node[r], s) = "act" => node[r] = "reason"
    BY <2>1 DEF Answer, NoName
  <2> QED BY <1>1, <1>3, <2>2, <2>3 DEF Goto
<1> QED BY <1>2, <1>3 DEF NodeReturns

(* A node that is not the LLM's leaves nothing to do. *)
LEMMA NothingAsked ==
    ASSUME BusyInv, BudgetInv, CallsInv, NEW r \in Runs, pc[r] \in InFlight, node[r] # "reason",
           NEW s, NodeReturns(r, s), calls' \in Nat, calls' >= calls, UNCHANGED <<ran, rerun>>
    PROVE  CallsInv'
<1>1. \A q \in Runs \ {r} : Todo(q)'
  BY Enters, OthersWait
<1>2. Todo(r)'
  BY Enters DEF Todo
<1>3. \A c \in ran : c.key \in 1 .. calls' /\ c.tool \notin InterruptOn
  BY DEF CallsInv
<1> QED BY <1>1, <1>2, <1>3 DEF CallsInv

(* The calls of a reply have keys of their own. *)
LEMMA CallsAreFresh ==
    ASSUME calls \in Nat, NEW reply \in Seq(STRING), NEW given \in BOOLEAN,
           \A c \in ran : c.key \in 1 .. calls
    PROVE  Fresh(CallsOf(reply, given), calls + Len(reply), Nat, ran)
<1>1. DOMAIN reply = 1 .. Len(reply) /\ Len(reply) \in Nat
  BY LenProperties
<1>2. /\ DOMAIN CallsOf(reply, given) = 1 .. Len(reply)
      /\ \A i \in 1 .. Len(reply) : CallsOf(reply, given)[i].key = calls + i
  BY <1>1 DEF CallsOf
<1> QED BY <1>1, <1>2 DEF Fresh

LEMMA PendingIs ==
    ASSUME NEW s, Shape(s), NEW p
    PROVE  [s EXCEPT !.pending = p].pending = p
  BY DEF Shape, States

LEMMA DoneIs ==
    ASSUME NEW s, Shape(s), NEW D
    PROVE  /\ [s EXCEPT !.done = D].done = D
           /\ [s EXCEPT !.done = D].pending = s.pending
  BY DEF Shape, States
LEMMA CallsStep ==
    ASSUME AgentAssumption, BusyInv, BudgetInv, CallsInv, [Next]_vars
    PROVE  CallsInv'
<1>0. DOMAIN state = Runs /\ pc \in [Runs -> Labels] /\ \A q \in Runs : Shape(state[q])
  BY DEF BudgetInv, BudgetTypes
<1>1. CASE UNCHANGED <<pc, node, state, ran, rerun, calls>>
  BY <1>1 DEF CallsInv, Todo
<1>2. ASSUME NEW r \in Runs, Begin(r) PROVE CallsInv'
  <2>1. /\ UNCHANGED <<node, state, ran, rerun, calls>>
        /\ \E l \in {"returned", "before"} : pc' = [pc EXCEPT ![r] = l]
    BY <1>2 DEF Begin, Goto
  <2> QED BY <1>0, <2>1 DEF CallsInv, Todo
<1>3. ASSUME NEW r \in Runs, Run(r) PROVE CallsInv'
  <2>1. CASE BeforeRunFails(r) \/ Finish(r)
    <3>1. pc[r] \in InFlight /\ Goto(r, "returned") /\ UNCHANGED <<ran, rerun, calls>>
      BY <2>1 DEF BeforeRunFails, Finish, Return, Forget, ghosts, InFlight, Labels
    <3> QED BY <3>1, Leaves DEF Labels
  <2>2. CASE BeforeRun(r)
    <3>1. pc[r] \in InFlight /\ Goto(r, "prepare") /\ UNCHANGED <<ran, rerun, calls>>
      BY <2>2 DEF BeforeRun, ghosts, InFlight, Labels
    <3> QED BY <3>1, Leaves DEF Labels
  <2>3. CASE Prepare(r)
    <3>1. pc[r] \in InFlight /\ Goto(r, "start") /\ UNCHANGED <<ran, rerun, calls>>
      BY <2>3 DEF Prepare, ghosts, InFlight, Labels
    <3> QED BY <3>1, Leaves DEF Labels
  <2>4. CASE Start(r)
    <3>1. /\ pc[r] = "start" /\ UNCHANGED <<node, ran, rerun, calls>>
          /\ \E l \in {"waiting", "node"} : pc' = [pc EXCEPT ![r] = l]
      BY <2>4 DEF Start, Goto, ghosts, runVars
    <3>2. node[r] = "reason" /\ pc[r] \in InFlight
      BY <3>1 DEF BudgetInv, Place, InFlight, Labels
    <3>3. \A q \in Runs \ {r} : Todo(q)'
      BY <1>0, <3>1, <3>2, OthersWait
    <3>4. Todo(r)'
      BY <1>0, <3>1, <3>2 DEF Todo
    <3> QED BY <3>1, <3>3, <3>4 DEF CallsInv
  <2>5. CASE Stops(r)
    <3>1. pc[r] \in InFlight /\ Goto(r, "collect") /\ UNCHANGED <<ran, rerun, calls>>
      BY <2>5 DEF Stops, EngineReturns, ghosts, InFlight, Labels
    <3> QED BY <3>1, Leaves DEF Labels
  <2>6. CASE LLMFails(r)
    <3>1. pc[r] \in InFlight /\ Goto(r, "collect") /\ UNCHANGED <<ran, rerun, calls>>
      BY <2>6 DEF LLMFails, At, EngineReturns, ghosts, InFlight, Labels
    <3> QED BY <3>1, Leaves DEF Labels
  <2>7. CASE Reason(r)
    <3>1. pc[r] = "node" /\ node[r] = "reason" /\ pc[r] \in InFlight /\ UNCHANGED <<ran, rerun>>
      BY <2>7 DEF Reason, At, InFlight, Labels
    <3>2. PICK reply \in Replies, given \in BOOLEAN :
             /\ calls' = calls + Len(reply)
             /\ NodeReturns(r, [state[r] EXCEPT !.pending = CallsOf(reply, given)])
      BY <2>7 DEF Reason
    <3> DEFINE cs == CallsOf(reply, given)
    <3>3. reply \in Seq(STRING) /\ Len(reply) \in Nat /\ calls \in Nat
      BY LenProperties DEF AgentAssumption, CallsInv
    <3>4. Fresh(cs, calls', Nat, ran)
      BY <3>2, <3>3, CallsAreFresh DEF CallsInv
    <3>5. state'[r].pending = cs
      BY <1>0, <3>2, PendingIs DEF NodeReturns
    <3> HIDE DEF cs
    <3>6. \A q \in Runs \ {r} : Todo(q)'
      BY <3>1, <3>2, Enters, OthersWait
    <3>7. Todo(r)'
      BY <3>1, <3>2, <3>4, <3>5, Enters DEF Todo
    <3>8. /\ calls' \in Nat /\ calls' >= calls
          /\ \A c \in ran : c.key \in 1 .. calls' /\ c.tool \notin InterruptOn
      BY <3>2, <3>3 DEF CallsInv
    <3> QED BY <3>1, <3>6, <3>7, <3>8 DEF CallsInv
  <2>8. CASE ActInterrupts(r)
    <3>1. /\ pc[r] \in InFlight /\ node[r] # "reason" /\ UNCHANGED <<ran, rerun, calls>>
          /\ \E s : NodeReturns(r, s)
      BY <2>8 DEF ActInterrupts, At, ghosts, InFlight, Labels
    <3> QED BY <3>1, NothingAsked DEF CallsInv
  <2>9. CASE ActRunsTools(r)
    <3>1. /\ pc[r] = "node" /\ node[r] = "act" /\ ~Guarded(state[r].pending)
          /\ state' = [state EXCEPT ![r] = [state[r] EXCEPT !.done = {}]]
          /\ pc' = [pc EXCEPT ![r] = "tools"] /\ UNCHANGED <<ran, rerun, calls>>
      BY <2>9 DEF ActRunsTools, At, Goto, ghosts
    <3>2. state'[r].pending = state[r].pending /\ state'[r].done = {}
      BY <1>0, <3>1, DoneIs
    <3>3. pc'[r] = "tools" /\ pc[r] \in InFlight /\ \A q \in Runs \ {r} : pc'[q] = pc[q]
      BY <1>0, <3>1 DEF InFlight, Labels
    <3>4. Fresh(state[r].pending, calls, Nat, ran) /\ Nat \ {} = Nat
      BY <3>1 DEF CallsInv, Todo
    <3>5. Todo(r)'
      BY <3>1, <3>2, <3>3, <3>4 DEF Todo
    <3> QED BY <3>1, <3>3, <3>5, OthersWait DEF CallsInv
  <2>10. ASSUME NEW i \in 1 .. MaxCalls, ToolReturns(r, i) PROVE CallsInv'
    <3> DEFINE cs   == state[r].pending
               D    == state[r].done
               call == [key |-> cs[i].key, tool |-> cs[i].tool]
    <3>1. /\ pc[r] = "tools" /\ i \in DOMAIN cs \ D /\ UNCHANGED <<pc, calls>>
          /\ ran' = ran \cup {call} /\ rerun' = (rerun \/ call \in ran)
          /\ state' = [state EXCEPT ![r] = [state[r] EXCEPT !.done = D \cup {i}]]
      BY <2>10 DEF ToolReturns
    <3>2. state'[r].pending = cs /\ state'[r].done = D \cup {i}
      BY <1>0, <3>1, DoneIs
    <3>3. Fresh(cs, calls, Nat \ D, ran) /\ ~Guarded(cs)
      BY <3>1 DEF CallsInv, Todo
    <3> HIDE DEF cs, D
    <3>4. call.key \in 1 .. calls /\ call.tool \notin InterruptOn /\ call \notin ran
      BY <3>1, <3>3 DEF Fresh, Guarded
    <3>5. Fresh(cs, calls, Nat \ (D \cup {i}), ran')
      <4>1. \A j \in DOMAIN cs : j # i => cs[j].key # call.key
        BY <3>1, <3>3 DEF Fresh
      <4> HIDE DEF call
      <4> QED BY <3>1, <3>3, <4>1 DEF Fresh
    <3>6. Todo(r)'
      BY <3>1, <3>2, <3>3, <3>5 DEF Todo
    <3>7. \A q \in Runs \ {r} : Todo(q)'
      BY <3>1, OthersWait DEF InFlight, Labels
    <3>8. ~rerun' /\ calls' \in Nat
      BY <3>1, <3>4 DEF CallsInv
    <3>9. \A c \in ran' : c.key \in 1 .. calls' /\ c.tool \notin InterruptOn
      BY <3>1, <3>4 DEF CallsInv
    <3> QED BY <3>6, <3>7, <3>8, <3>9 DEF CallsInv
  <2>11. CASE ActAnswers(r)
    <3>1. /\ pc[r] = "tools" /\ UNCHANGED <<ran, rerun, calls>> /\ \E s : NodeReturns(r, s)
      BY <2>11 DEF ActAnswers, ghosts
    <3>2. pc[r] \in InFlight /\ node[r] # "reason"
      BY <3>1 DEF BudgetInv, Place, InFlight, Labels
    <3> QED BY <3>1, <3>2, NothingAsked DEF CallsInv
  <2>12. CASE Observe(r)
    <3>1. /\ pc[r] \in InFlight /\ node[r] # "reason" /\ UNCHANGED <<ran, rerun, calls>>
          /\ \E s : NodeReturns(r, s)
      BY <2>12 DEF Observe, At, ghosts, InFlight, Labels
    <3> QED BY <3>1, NothingAsked DEF CallsInv
  <2>13. CASE Finalize(r)
    <3>1. /\ pc[r] \in InFlight /\ node[r] # "reason" /\ UNCHANGED <<ran, rerun>>
          /\ NodeReturns(r, state[r])
      BY <2>13 DEF Finalize, At, InFlight, Labels
    <3>2. PICK reply \in Replies : calls' = calls + Len(reply)
      BY <2>13 DEF Finalize
    <3>3. Len(reply) \in Nat
      BY LenProperties DEF AgentAssumption
    <3>4. calls' \in Nat /\ calls' >= calls
      BY <3>2, <3>3 DEF CallsInv
    <3> QED BY <3>1, <3>4, NothingAsked
  <2> QED
    BY <1>3, <2>1, <2>2, <2>3, <2>4, <2>5, <2>6, <2>7, <2>8, <2>9, <2>10, <2>11, <2>12, <2>13
    DEF Run
<1> QED
  BY <1>1, <1>2, <1>3
  DEF Next, vars, runVars, agentVars, ghosts, SeedResumeState, ClearConversation, CloseGraph

(* Whatever the LLM asks for in one reply, whoever seeds or clears between *)
(* the turns: a tool that waits for a person is not run, neither are the   *)
(* other calls of its reply, and no call is run twice.                     *)
THEOREM ToolsWaitForPeople == Spec => []GuardedToolsWait
<1>1. Init => CallsInv
  BY DEF Init, CallsInv, Todo
<1>2. CallsInv => GuardedToolsWait
  BY DEF CallsInv, Todo, GuardedToolsWait, Guarded
<1>3. CallsInv /\ BusyInv /\ BudgetInv /\ [Next]_vars => CallsInv'
  BY AgentAssumption, CallsStep
<1> QED BY <1>1, <1>2, <1>3, BusyHolds, BudgetHolds, PTL DEF Spec

-----------------------------------------------------------------------------
(* A request answers each call where it was made, and ends with what the   *)
(* caller of the run asked.                                                *)

(* Induction over an interval: what no least number misses, none misses.    *)
LEMMA ReachesAll ==
    ASSUME NEW n \in Nat, NEW S, 1 \in S, \A m \in 2 .. n : m - 1 \in S => m \in S
    PROVE  \A m \in 1 .. n : m \in S
<1> DEFINE missed == (1 .. n) \ S
<1> SUFFICES ASSUME missed # {} PROVE FALSE
  OBVIOUS
<1>1. missed \in SUBSET Nat
  OBVIOUS
<1>2. PICK m \in missed : \A j \in missed : m <= j
  <2> HIDE DEF missed
  <2> QED BY <1>1, FirstOfIsFirst
<1>3. m \in 2 .. n /\ m - 1 \in S
  <2>1. m \in 1 .. n /\ m # 1
    BY <1>2
  <2>2. m - 1 \in 1 .. n /\ m - 1 < m
    BY <2>1
  <2> QED BY <1>2, <2>1, <2>2
<1> QED BY <1>2, <1>3

(* Sequences of sequences, laid end to end.                                 *)
LEMMA FlattenIs ==
    ASSUME NEW S, NEW seqs \in Seq(Seq(S)), seqs # <<>>
    PROVE  \E f : /\ FlattenSeq(seqs) = f[Len(seqs)] /\ f[1] = seqs[1]
                  /\ \A i \in 2 .. Len(seqs) : f[i] = f[i - 1] \o seqs[i]
<1>1. PICK n \in Nat \ {0} : n = Len(seqs)
  BY EmptySeq
<1> DEFINE Laid(f, m) == f = [i \in 1 .. m |-> IF i = 1 THEN seqs[i] ELSE f[i - 1] \o seqs[i]]
           done == {m \in 1 .. n : \E f : Laid(f, m)}
<1>2. 1 \in done
  <2>1. Laid([i \in 1 .. 1 |-> seqs[1]], 1)
    OBVIOUS
  <2> HIDE DEF Laid
  <2> QED BY <2>1
<1>3. ASSUME NEW m \in 2 .. n, m - 1 \in done PROVE m \in done
  <2>1. PICK g : Laid(g, m - 1)
    <3> HIDE DEF Laid
    <3> QED BY <1>3
  <2> DEFINE h == [i \in 1 .. m |-> IF i < m THEN g[i] ELSE g[m - 1] \o seqs[m]]
  <2>2. \A i \in 1 .. m - 1 : g[i] = IF i = 1 THEN seqs[i] ELSE g[i - 1] \o seqs[i]
    BY <2>1
  <2>3. \A i \in 1 .. m : h[i] = IF i = 1 THEN seqs[i] ELSE h[i - 1] \o seqs[i]
    BY <2>2
  <2>4. h = [i \in 1 .. m |-> h[i]]
    OBVIOUS
  <2>5. Laid(h, m)
    <3> HIDE DEF h
    <3> QED BY <2>3, <2>4
  <2> HIDE DEF Laid, h
  <2> QED BY <2>5
<1>4. \E f : Laid(f, n)
  <2> HIDE DEF Laid, done
  <2>1. \A m \in 2 .. n : m - 1 \in done => m \in done
    BY <1>3
  <2>2. n \in 1 .. n /\ n \in Nat
    OBVIOUS
  <2>3. \A m \in 1 .. n : m \in done
    BY <1>2, <2>1, <2>2, ReachesAll
  <2>4. n \in done
    BY <2>2, <2>3
  <2> USE DEF done
  <2> QED BY <2>4
<1>5. PICK f : f = (CHOOSE g : Laid(g, n))
  OBVIOUS
<1>6. Laid(f, n)
  <2> HIDE DEF Laid
  <2> QED BY <1>4, <1>5
<1>7. FlattenSeq(seqs) = f[n]
  BY <1>1, <1>5 DEF FlattenSeq
<1>8. \A i \in 1 .. n : f[i] = IF i = 1 THEN seqs[i] ELSE f[i - 1] \o seqs[i]
  BY <1>6
<1>9. f[1] = seqs[1] /\ \A i \in 2 .. n : f[i] = f[i - 1] \o seqs[i]
  <2> HIDE DEF Laid, done
  <2>1. 1 \in 1 .. n /\ \A i \in 2 .. n : i \in 1 .. n /\ i # 1
    OBVIOUS
  <2> QED BY <1>8, <2>1
<1> QED
  BY <1>1, <1>7, <1>9

(* Where the sequences begin in their concatenation R, and to which of     *)
(* them each place of R belongs.                                           *)
Placed(R, seqs, n, p, b) ==
    /\ p \in [1 .. n -> 1 .. Len(R)] /\ b \in [1 .. Len(R) -> 1 .. n]
    /\ \A i \in 1 .. n : b[p[i]] = i /\ R[p[i]] = seqs[i][1]
    /\ \A x \in 1 .. Len(R) : p[b[x]] <= x
    /\ \A x, y \in 1 .. Len(R) : x <= y => b[x] <= b[y]
    /\ \A x \in 1 .. Len(R) :
          x = p[b[x]] \/ \E k \in 2 .. Len(seqs[b[x]]) : R[x] = seqs[b[x]][k]
    /\ \A i \in 1 .. n : \A k \in 2 .. Len(seqs[i]) :
          \E x \in 1 .. Len(R) : b[x] = i /\ x # p[i] /\ R[x] = seqs[i][k]

LEMMA OneBlock ==
    ASSUME NEW S, NEW seqs \in Seq(Seq(S)), seqs # <<>>, seqs[1] # <<>>
    PROVE  \E p, b : Placed(seqs[1], seqs, 1, p, b)
<1>1. seqs[1] \in Seq(S) /\ Len(seqs[1]) \in Nat \ {0}
  BY EmptySeq, LenProperties, ElementOfSeq
<1> DEFINE s == seqs[1]
           p == [i \in 1 .. 1 |-> 1]
           b == [x \in 1 .. Len(s) |-> 1]
<1> HIDE DEF s
<1>2. /\ p \in [1 .. 1 -> 1 .. Len(s)] /\ b \in [1 .. Len(s) -> 1 .. 1]
      /\ p[1] = 1 /\ \A x \in 1 .. Len(s) : b[x] = 1
      /\ \A i \in 1 .. 1 : i = 1
  BY <1>1 DEF s
<1> HIDE DEF p, b
<1>3. \A x \in 1 .. Len(s) : x = 1 \/ x \in 2 .. Len(s)
  BY <1>1 DEF s
<1>4. 1 \in 1 .. Len(s) /\ \A k \in 2 .. Len(s) : k \in 1 .. Len(s) /\ k # 1
  BY <1>1 DEF s
<1>5. Placed(s, seqs, 1, p, b)
  BY SMTT(30), <1>2, <1>3, <1>4 DEF Placed, s
<1> QED BY <1>5 DEF s

LEMMA NextBlock ==
    ASSUME NEW S, NEW R \in Seq(S), NEW seqs, NEW n \in Nat \ {0}, NEW p, NEW b,
           Placed(R, seqs, n, p, b), seqs[n + 1] \in Seq(S), seqs[n + 1] # <<>>
    PROVE  \E q, c : Placed(R \o seqs[n + 1], seqs, n + 1, q, c)
<1> DEFINE s == seqs[n + 1]
           T == R \o s
           l == Len(R)
           q == [i \in 1 .. n + 1 |-> IF i <= n THEN p[i] ELSE l + 1]
           c == [x \in 1 .. Len(T) |-> IF x <= l THEN b[x] ELSE n + 1]
<1>1. l \in Nat /\ Len(s) \in Nat \ {0} /\ Len(T) = l + Len(s)
  BY EmptySeq, LenProperties, ConcatProperties
<1>2. /\ \A x \in 1 .. l : T[x] = R[x]
      /\ \A k \in 1 .. Len(s) : T[l + k] = s[k]
  BY <1>1, ConcatProperties
<1> HIDE DEF T, l, s
<1>3. p \in [1 .. n -> 1 .. l] /\ b \in [1 .. l -> 1 .. n]
  BY DEF Placed, l
<1>4. q \in [1 .. n + 1 -> 1 .. Len(T)] /\ c \in [1 .. Len(T) -> 1 .. n + 1]
  <2>1. \A i \in 1 .. n + 1 : (IF i <= n THEN p[i] ELSE l + 1) \in 1 .. Len(T)
    <3>1. \A i \in 1 .. n + 1 : i <= n => i \in 1 .. n
      OBVIOUS
    <3>2. \A k \in 1 .. l : k \in 1 .. Len(T)
      BY <1>1
    <3>3. l + 1 \in 1 .. Len(T)
      BY <1>1
    <3> QED BY <1>3, <3>1, <3>2, <3>3
  <2>2. \A x \in 1 .. Len(T) : (IF x <= l THEN b[x] ELSE n + 1) \in 1 .. n + 1
    <3>1. \A x \in 1 .. Len(T) : x <= l => x \in 1 .. l
      BY <1>1
    <3>2. n + 1 \in 1 .. n + 1 /\ \A k \in 1 .. n : k \in 1 .. n + 1
      OBVIOUS
    <3> QED BY <1>3, <3>1, <3>2
  <2> QED BY <2>1, <2>2
<1>5. \A i \in 1 .. n : q[i] = p[i] /\ q[i] \in 1 .. l
  BY <1>3
<1>6. q[n + 1] = l + 1
  OBVIOUS
<1>7. \A x \in 1 .. l : x \in 1 .. Len(T) /\ c[x] = b[x] /\ c[x] \in 1 .. n
  <2>1. \A x \in 1 .. l : x \in 1 .. Len(T) /\ x <= l
    BY <1>1
  <2> QED BY <1>3, <2>1
<1>8. \A x \in 1 .. Len(T) : x > l => c[x] = n + 1 /\ x - l \in 1 .. Len(s) /\ T[x] = s[x - l]
  BY SMTT(30), <1>1, <1>2
<1>9. \A i \in 1 .. n + 1 : i \in 1 .. n \/ i = n + 1
  OBVIOUS
<1>10. \A x \in 1 .. Len(T) : x \in 1 .. l \/ x > l
  BY <1>1
<1> HIDE DEF q, c
<1>11. \A i \in 1 .. n + 1 : c[q[i]] = i /\ T[q[i]] = seqs[i][1]
  <2>1. \A i \in 1 .. n : c[q[i]] = i /\ T[q[i]] = seqs[i][1]
    <3>1. \A i \in 1 .. n : b[p[i]] = i /\ R[p[i]] = seqs[i][1]
      BY DEF Placed
    <3> QED BY SMTT(30), <1>2, <1>5, <1>7, <3>1
  <2>2. c[l + 1] = n + 1 /\ T[l + 1] = s[1]
    BY <1>1, <1>2, <1>8
  <2> QED BY <1>6, <1>9, <2>1, <2>2 DEF s
<1>12. \A x \in 1 .. Len(T) : q[c[x]] <= x
  <2>1. \A x \in 1 .. l : q[c[x]] <= x
    BY <1>5, <1>7 DEF Placed, l
  <2>2. \A x \in 1 .. Len(T) : x > l => q[c[x]] <= x
    BY <1>1, <1>6, <1>8
  <2> QED BY <1>10, <2>1, <2>2
<1>13. \A x, y \in 1 .. Len(T) : x <= y => c[x] <= c[y]
  <2>1. \A x, y \in 1 .. l : x <= y => c[x] <= c[y]
    BY <1>7 DEF Placed, l
  <2>2. \A x, y \in 1 .. Len(T) : y > l => c[x] <= c[y]
    <3>1. \A x \in 1 .. Len(T) : c[x] \in 1 .. n + 1
      BY <1>4
    <3> QED BY <1>8, <3>1
  <2>3. \A x, y \in 1 .. Len(T) : x <= y /\ ~(y > l) => x \in 1 .. l /\ y \in 1 .. l
    BY <1>1
  <2> QED BY <2>1, <2>2, <2>3
<1>14. ASSUME NEW x \in 1 .. Len(T)
       PROVE  x = q[c[x]] \/ \E k \in 2 .. Len(seqs[c[x]]) : T[x] = seqs[c[x]][k]
  <2>1. CASE x \in 1 .. l
    <3>1. c[x] = b[x] /\ q[c[x]] = p[b[x]] /\ T[x] = R[x]
      BY <1>2, <1>5, <1>7, <2>1
    <3>2. x = p[b[x]] \/ \E k \in 2 .. Len(seqs[b[x]]) : R[x] = seqs[b[x]][k]
      BY <2>1 DEF Placed, l
    <3> QED BY <3>1, <3>2
  <2>2. CASE x = l + 1
    BY <1>1, <1>6, <1>8, <2>2
  <2>3. CASE x > l + 1
    <3>1. c[x] = n + 1 /\ x - l \in 2 .. Len(s) /\ T[x] = s[x - l]
      BY <1>1, <1>8, <2>3
    <3> QED BY <3>1 DEF s
  <2> QED BY <1>1, <1>10, <2>1, <2>2, <2>3
<1>15. ASSUME NEW i \in 1 .. n + 1, NEW k \in 2 .. Len(seqs[i])
       PROVE  \E x \in 1 .. Len(T) : c[x] = i /\ x # q[i] /\ T[x] = seqs[i][k]
  <2>1. CASE i \in 1 .. n
    <3>1. PICK x \in 1 .. l : b[x] = i /\ x # p[i] /\ R[x] = seqs[i][k]
      BY <2>1 DEF Placed, l
    <3> QED BY <1>2, <1>5, <1>7, <2>1, <3>1
  <2>2. CASE i = n + 1
    <3>1. k \in 2 .. Len(s)
      BY <2>2 DEF s
    <3>2. l + k \in 1 .. Len(T) /\ l + k > l /\ l + k # l + 1
      BY <1>1, <3>1
    <3>3. T[l + k] = s[k]
      <4>1. k \in 1 .. Len(s)
        BY <1>1, <3>1
      <4> QED BY <1>2, <4>1
    <3> QED BY <1>6, <1>8, <2>2, <3>2, <3>3 DEF s
  <2> QED BY <1>9, <2>1, <2>2
<1>16. Placed(T, seqs, n + 1, q, c)
  BY <1>4, <1>11, <1>12, <1>13, <1>14, <1>15 DEF Placed
<1> QED BY <1>16 DEF T, s

(* Non-empty sequences laid end to end, each in a block of its own.        *)
LEMMA FlattenKeeps ==
    ASSUME NEW S, NEW seqs \in Seq(Seq(S)), seqs # <<>>,
           \A i \in 1 .. Len(seqs) : seqs[i] # <<>>
    PROVE  /\ FlattenSeq(seqs) \in Seq(S)
           /\ \E p, b : Placed(FlattenSeq(seqs), seqs, Len(seqs), p, b)
<1>1. PICK n \in Nat \ {0} : n = Len(seqs)
  BY EmptySeq, LenProperties
<1>2. PICK f : /\ FlattenSeq(seqs) = f[n] /\ f[1] = seqs[1]
               /\ \A i \in 2 .. n : f[i] = f[i - 1] \o seqs[i]
  BY <1>1, FlattenIs
<1> DEFINE Good(R, i) == R \in Seq(S) /\ \E p, b : Placed(R, seqs, i, p, b)
           done == {i \in 1 .. n : Good(f[i], i)}
<1>3. \A i \in 1 .. n : seqs[i] \in Seq(S) /\ seqs[i] # <<>>
  BY <1>1, ElementOfSeq
<1>4. Good(f[1], 1)
  BY <1>1, <1>2, <1>3, OneBlock
<1>5. ASSUME NEW i \in 2 .. n, Good(f[i - 1], i - 1) PROVE Good(f[i], i)
  <2>1. PICK m \in Nat \ {0} : m = i - 1 /\ i = m + 1
    BY <1>1
  <2>2. f[i] = f[m] \o seqs[m + 1] /\ f[m] \in Seq(S) /\ seqs[m + 1] \in Seq(S) /\ seqs[m + 1] # <<>>
    <3>1. i \in 1 .. n /\ i = m + 1 /\ m = i - 1
      BY <1>1, <2>1
    <3>2. f[i] = f[m] \o seqs[i]
      BY <1>2, <2>1
    <3>3. f[m] \in Seq(S)
      BY <1>5, <2>1
    <3> QED BY <1>3, <3>1, <3>2, <3>3
  <2>3. PICK p, b : Placed(f[m], seqs, m, p, b)
    BY <1>5, <2>1
  <2>4. \E q, c : Placed(f[m] \o seqs[m + 1], seqs, m + 1, q, c)
    BY <2>2, <2>3, NextBlock
  <2>5. f[m] \o seqs[m + 1] \in Seq(S)
    BY <2>2, ConcatProperties
  <2> QED BY <2>1, <2>2, <2>4, <2>5
<1> HIDE DEF Good
<1>6. 1 \in done /\ \A m \in 2 .. n : m - 1 \in done => m \in done
  BY <1>1, <1>4, <1>5
<1> HIDE DEF done
<1>7. n \in 1 .. n /\ n \in Nat
  BY <1>1
<1>8. n \in done
  <2>1. \A m \in 1 .. n : m \in done
    BY <1>6, <1>7, ReachesAll
  <2> QED BY <1>7, <2>1
<1>9. Good(f[n], n)
  BY <1>8 DEF done
<1> QED BY <1>1, <1>2, <1>9 DEF Good

(* A finite set as a sequence: its elements, each somewhere.               *)
LEMMA SetToSeqIs ==
    ASSUME NEW S, IsFiniteSet(S)
    PROVE  SetToSeq(S) \in Seq(S) /\ \A s \in S : \E k \in 1 .. Len(SetToSeq(S)) : SetToSeq(S)[k] = s
<1>1. PICK n \in Nat : n = Cardinality(S) /\ ExistsBijection(1 .. n, S)
  BY FS_CardinalityType
<1>2. \E g \in [1 .. n -> S] : IsInjective(g)
  BY <1>1 DEF ExistsBijection, Bijection, Injection
<1>3. PICK f : f = SetToSeq(S)
  OBVIOUS
<1>4. f \in [1 .. n -> S] /\ IsInjective(f)
  BY <1>1, <1>2, <1>3 DEF SetToSeq
<1>5. IsFiniteSet(1 .. n) /\ Cardinality(1 .. n) = n
  <2>1. 1 \in Int /\ n \in Int /\ (IF 1 > n THEN 0 ELSE n - 1 + 1) = n
    OBVIOUS
  <2> QED BY <2>1, FS_Interval
<1>6. f \in Surjection(1 .. n, S)
  <2>1. f \in Injection(1 .. n, S)
    BY <1>4 DEF Injection
  <2> QED BY <1>1, <1>5, <2>1, FS_Injection
<1>7. f \in Seq(S) /\ Len(f) = n
  BY <1>4, IsASeq, LenProperties
<1>8. \A s \in S : \E k \in 1 .. n : f[k] = s
  BY <1>6 DEF Surjection
<1> QED BY <1>3, <1>7, <1>8

(* The values of a function on a finite set are finitely many.             *)
LEMMA ValuesAreFinite ==
    ASSUME NEW S, IsFiniteSet(S), NEW f, DOMAIN f = S
    PROVE  IsFiniteSet({f[x] : x \in S})
<1> DEFINE g == [x \in S |-> f[x]]
           T == {f[x] : x \in S}
<1>1. g \in Surjection(S, T)
  BY DEF Surjection
<1> QED BY <1>1, FS_Surjection

(* What the conversation is made of.                                        *)
ToolCalls == [key : Nat \ {0}, tool : STRING, id : Nat]
Messages ==
    [role : {"system", "user", "assistant", "tool"}, ref : Runs \cup Nat, calls : Seq(ToolCalls)]

LEMMA MsgIs ==
    ASSUME NEW role \in {"system", "user", "assistant", "tool"}, NEW ref \in Runs \cup Nat,
           NEW cs \in Seq(ToolCalls)
    PROVE  /\ Msg(role, ref, cs) \in Messages
           /\ Msg(role, ref, cs).role = role /\ Msg(role, ref, cs).ref = ref
           /\ Msg(role, ref, cs).calls = cs
  BY DEF Msg, Messages

LEMMA MessageIs ==
    ASSUME NEW m \in Messages
    PROVE  /\ m.role \in {"system", "user", "assistant", "tool"} /\ m.ref \in Runs \cup Nat
           /\ m.calls \in Seq(ToolCalls)
  BY DEF Messages

LEMMA IDsAre ==
    ASSUME NEW m \in Messages
    PROVE  IDs(m) \in SUBSET Nat /\ IsFiniteSet(IDs(m))
<1> DEFINE cs == m.calls
           n == Len(cs)
           f == [i \in 1 .. n |-> cs[i].id]
<1>1. cs \in Seq(ToolCalls)
  BY MessageIs
<1> HIDE DEF cs
<1>2. n \in Nat /\ DOMAIN cs = 1 .. n /\ \A i \in 1 .. n : cs[i] \in ToolCalls
  BY <1>1, LenProperties, ElementOfSeq
<1>3. \A i \in 1 .. n : cs[i].id \in Nat
  BY <1>2 DEF ToolCalls
<1>4. IsFiniteSet(1 .. n)
  BY <1>2, FS_Interval
<1>5. IsFiniteSet({f[i] : i \in 1 .. n})
  <2>1. DOMAIN f = 1 .. n
    OBVIOUS
  <2> HIDE DEF f, n
  <2> QED BY <1>4, <2>1, ValuesAreFinite
<1>6. IDs(m) = {f[i] : i \in 1 .. n} \ {NoID}
  BY <1>2 DEF IDs, cs
<1>7. {f[i] : i \in 1 .. n} \in SUBSET Nat
  BY <1>3
<1> HIDE DEF f, n
<1>8. IDs(m) \in SUBSET {f[i] : i \in 1 .. n}
  BY <1>6
<1> QED BY <1>5, <1>7, <1>8, FS_Subset

(* The stubs that sanitizeToolPairing puts after message i.                *)
Askers(ms, i) == {a \in DOMAIN ms : Asks(ms[a]) /\ i = a + Cardinality(AnsweredBy(ms, a))}
StubsFor(ms, a) == {Msg("tool", id, <<>>) : id \in IDs(ms[a]) \ Answered(ms, a)}
StubsAfter(ms, i) == UNION {StubsFor(ms, a) : a \in Askers(ms, i)}

LEMMA StubsAre ==
    ASSUME NEW ms \in Seq(Messages), NEW i
    PROVE  /\ IsFiniteSet(StubsAfter(ms, i))
           /\ \A s \in StubsAfter(ms, i) :
                 /\ s \in Messages /\ s.role = "tool" /\ s.calls = <<>>
                 /\ \E a \in Askers(ms, i) : s.ref \in IDs(ms[a])
<1>1. <<>> \in Seq(ToolCalls)
  BY EmptySeq
<1>2. DOMAIN ms = 1 .. Len(ms) /\ Len(ms) \in Nat /\ \A a \in 1 .. Len(ms) : ms[a] \in Messages
  BY LenProperties, ElementOfSeq
<1>3. ASSUME NEW a \in 1 .. Len(ms)
      PROVE  /\ IsFiniteSet(StubsFor(ms, a))
             /\ \A s \in StubsFor(ms, a) : /\ s \in Messages /\ s.role = "tool" /\ s.calls = <<>>
                                           /\ s.ref \in IDs(ms[a])
  <2> DEFINE ids == IDs(ms[a]) \ Answered(ms, a)
             f == [id \in ids |-> Msg("tool", id, <<>>)]
  <2>1. IsFiniteSet(ids) /\ ids \in SUBSET Nat /\ ids \in SUBSET IDs(ms[a])
    <3>1. IDs(ms[a]) \in SUBSET Nat /\ IsFiniteSet(IDs(ms[a])) /\ ids \in SUBSET IDs(ms[a])
      BY <1>2, IDsAre
    <3> HIDE DEF ids
    <3> QED BY <3>1, FS_Subset
  <2>2. StubsFor(ms, a) = {f[id] : id \in ids}
    BY DEF StubsFor
  <2>3. \A id \in ids : /\ f[id] \in Messages /\ f[id].role = "tool" /\ f[id].calls = <<>>
                        /\ f[id].ref = id
    <3>1. ASSUME NEW id \in ids
          PROVE  /\ Msg("tool", id, <<>>) \in Messages /\ Msg("tool", id, <<>>).role = "tool"
                 /\ Msg("tool", id, <<>>).calls = <<>> /\ Msg("tool", id, <<>>).ref = id
      <4>1. id \in Runs \cup Nat
        BY <2>1
      <4>2. "tool" \in {"system", "user", "assistant", "tool"}
        OBVIOUS
      <4> QED BY <1>1, <4>1, <4>2 DEF Msg, Messages
    <3>2. \A id \in ids : f[id] = Msg("tool", id, <<>>)
      OBVIOUS
    <3> HIDE DEF ids, f
    <3> QED BY <3>1, <3>2
  <2>4. DOMAIN f = ids
    OBVIOUS
  <2> HIDE DEF ids, f
  <2>5. IsFiniteSet({f[id] : id \in ids})
    BY <2>1, <2>4, ValuesAreFinite
  <2> QED BY <2>1, <2>2, <2>3, <2>5
<1>4. Askers(ms, i) \in SUBSET (1 .. Len(ms)) /\ IsFiniteSet(1 .. Len(ms))
  BY <1>2, FS_Interval DEF Askers
<1>5. IsFiniteSet(Askers(ms, i))
  BY <1>4, FS_Subset
<1>6. IsFiniteSet({StubsFor(ms, a) : a \in Askers(ms, i)})
  <2> DEFINE f == [a \in Askers(ms, i) |-> StubsFor(ms, a)]
  <2>1. DOMAIN f = Askers(ms, i) /\ {f[a] : a \in Askers(ms, i)} = {StubsFor(ms, a) : a \in Askers(ms, i)}
    OBVIOUS
  <2> HIDE DEF f
  <2>2. IsFiniteSet({f[a] : a \in Askers(ms, i)})
    BY <1>5, <2>1, ValuesAreFinite
  <2> QED BY <2>1, <2>2
<1>7. \A T \in {StubsFor(ms, a) : a \in Askers(ms, i)} : IsFiniteSet(T)
  BY <1>3, <1>4
<1>8. IsFiniteSet(StubsAfter(ms, i))
  BY <1>6, <1>7, FS_UNION DEF StubsAfter
<1>9. \A s \in StubsAfter(ms, i) : \E a \in Askers(ms, i) : s \in StubsFor(ms, a)
  BY DEF StubsAfter
<1> QED BY <1>3, <1>4, <1>8, <1>9

(* A request R for the conversation ms: every message in its place, stubs  *)
(* between them.                                                           *)
Spread(R, ms, p, b) ==
    /\ p \in [1 .. Len(ms) -> 1 .. Len(R)] /\ b \in [1 .. Len(R) -> 1 .. Len(ms)]
    /\ \A i \in 1 .. Len(ms) : b[p[i]] = i /\ R[p[i]] = ms[i]
    /\ \A x \in 1 .. Len(R) : p[b[x]] <= x
    /\ \A x, y \in 1 .. Len(R) : x <= y => b[x] <= b[y]
    /\ \A x \in 1 .. Len(R) : x = p[b[x]] \/ R[x] \in StubsAfter(ms, b[x])
    /\ \A i \in 1 .. Len(ms) : \A s \in StubsAfter(ms, i) :
          \E x \in 1 .. Len(R) : b[x] = i /\ x # p[i] /\ R[x] = s

LEMMA RequestIs ==
    ASSUME NEW ms \in Seq(Messages), ms # <<>>
    PROVE  /\ SanitizeToolPairing(ms) \in Seq(Messages)
           /\ \E p, b : Spread(SanitizeToolPairing(ms), ms, p, b)
<1> DEFINE stubs(i) == SetToSeq(StubsAfter(ms, i))
           block(i) == <<ms[i]>> \o stubs(i)
           seqs == [i \in DOMAIN ms |-> block(i)]
           R == SanitizeToolPairing(ms)
<1>1. PICK n \in Nat \ {0} : n = Len(ms) /\ DOMAIN ms = 1 .. n
  BY EmptySeq, LenProperties
<1>2. \A i \in 1 .. n : ms[i] \in Messages
  BY <1>1, ElementOfSeq
<1>3. R = FlattenSeq(seqs)
  BY DEF SanitizeToolPairing, StubsAfter, StubsFor, Askers
<1>4. ASSUME NEW i \in 1 .. n
      PROVE  /\ stubs(i) \in Seq(Messages)
             /\ \A k \in 1 .. Len(stubs(i)) : stubs(i)[k] \in StubsAfter(ms, i)
             /\ \A s \in StubsAfter(ms, i) : \E k \in 1 .. Len(stubs(i)) : stubs(i)[k] = s
  <2> DEFINE St == StubsAfter(ms, i)
  <2>1. IsFiniteSet(St) /\ St \in SUBSET Messages
    BY StubsAre
  <2> HIDE DEF St
  <2>2. SetToSeq(St) \in Seq(St) /\ \A s \in St : \E k \in 1 .. Len(SetToSeq(St)) : SetToSeq(St)[k] = s
    BY <2>1, SetToSeqIs
  <2>3. SetToSeq(St) \in Seq(Messages) /\ \A k \in 1 .. Len(SetToSeq(St)) : SetToSeq(St)[k] \in St
    BY <2>1, <2>2, SeqMonotonic, ElementOfSeq
  <2> QED BY <2>2, <2>3 DEF St
<1>5. ASSUME NEW i \in 1 .. n
      PROVE  /\ block(i) \in Seq(Messages) /\ block(i) # <<>> /\ block(i)[1] = ms[i]
             /\ Len(block(i)) = Len(stubs(i)) + 1 /\ Len(stubs(i)) \in Nat
             /\ \A k \in 1 .. Len(stubs(i)) : block(i)[k + 1] = stubs(i)[k]
  <2> DEFINE t == stubs(i)
             h == <<ms[i]>>
  <2>1. t \in Seq(Messages) /\ h \in Seq(Messages) /\ Len(h) = 1 /\ h[1] = ms[i]
    <3>1. stubs(i) \in Seq(Messages)
      BY <1>4
    <3>2. h \in Seq(Messages) /\ Len(h) = 1 /\ h[1] = ms[i]
      BY <1>2
    <3> QED BY <3>1, <3>2
  <2> HIDE DEF t, h
  <2>2. /\ h \o t \in Seq(Messages) /\ Len(h \o t) = 1 + Len(t) /\ Len(t) \in Nat
        /\ (h \o t)[1] = h[1] /\ \A k \in 1 .. Len(t) : (h \o t)[1 + k] = t[k]
    <3>1. Len(t) \in Nat
      BY <2>1, LenProperties
    <3>2. /\ h \o t \in Seq(Messages) /\ Len(h \o t) = Len(h) + Len(t)
          /\ \A k \in 1 .. Len(h) + Len(t) : (h \o t)[k] = IF k <= Len(h) THEN h[k] ELSE t[k - Len(h)]
      BY <2>1, ConcatProperties
    <3>3. \A k \in 1 .. Len(t) : 1 + k \in 1 .. 1 + Len(t) /\ ~(1 + k <= 1) /\ 1 + k - 1 = k
      BY <3>1
    <3>4. 1 \in 1 .. 1 + Len(t)
      BY <3>1
    <3> QED BY <2>1, <3>1, <3>2, <3>3, <3>4
  <2>3. h \o t # <<>>
    BY <2>2, EmptySeq
  <2> QED BY <2>1, <2>2, <2>3 DEF t, h
<1> HIDE DEF stubs, block
<1>6. /\ seqs \in Seq(Seq(Messages)) /\ Len(seqs) = n /\ seqs # <<>>
      /\ \A i \in 1 .. n : seqs[i] = block(i)
  <2>1. seqs \in [1 .. n -> Seq(Messages)]
    BY <1>1, <1>5
  <2>2. seqs \in Seq(Seq(Messages)) /\ Len(seqs) = n
    BY <1>1, <2>1, IsASeq, LenProperties
  <2> QED BY <1>1, <2>2, EmptySeq
<1> HIDE DEF seqs
<1>7. R \in Seq(Messages) /\ \E p, b : Placed(R, seqs, n, p, b)
  BY <1>3, <1>5, <1>6, FlattenKeeps
<1> HIDE DEF R
<1>8. PICK p, b : Placed(R, seqs, n, p, b)
  BY <1>7
<1>9. Spread(R, ms, p, b)
  <2>1. \A i \in 1 .. n : b[p[i]] = i /\ R[p[i]] = ms[i]
    <3>1. \A i \in 1 .. n : b[p[i]] = i /\ R[p[i]] = seqs[i][1]
      BY <1>8 DEF Placed
    <3>2. \A i \in 1 .. n : seqs[i][1] = ms[i]
      BY <1>5, <1>6
    <3> QED BY <3>1, <3>2
  <2>2. \A x \in 1 .. Len(R) : b[x] \in 1 .. n
    BY <1>8 DEF Placed
  <2>3. ASSUME NEW x \in 1 .. Len(R), x # p[b[x]] PROVE R[x] \in StubsAfter(ms, b[x])
    <3>1. PICK i \in 1 .. n : i = b[x]
      BY <2>2
    <3>2. PICK k \in 2 .. Len(block(i)) : R[x] = block(i)[k]
      <4>1. \E k \in 2 .. Len(seqs[i]) : R[x] = seqs[i][k]
        <5>1. \A y \in 1 .. Len(R) : y = p[b[y]] \/ \E k \in 2 .. Len(seqs[b[y]]) : R[y] = seqs[b[y]][k]
          BY <1>8, Zenon DEF Placed
        <5>2. \E k \in 2 .. Len(seqs[b[x]]) : R[x] = seqs[b[x]][k]
          BY <2>3, <5>1, Zenon
        <5> QED BY <3>1, <5>2, Zenon
      <4>2. seqs[i] = block(i)
        BY <1>6
      <4> QED BY <4>1, <4>2
    <3>3. k - 1 \in 1 .. Len(stubs(i)) /\ (k - 1) + 1 = k
      BY <1>5, <3>2
    <3>4. block(i)[k] = stubs(i)[k - 1]
      BY <1>5, <3>3
    <3> QED BY <1>4, <3>1, <3>2, <3>3, <3>4
  <2>4. ASSUME NEW i \in 1 .. n, NEW s \in StubsAfter(ms, i)
        PROVE  \E x \in 1 .. Len(R) : b[x] = i /\ x # p[i] /\ R[x] = s
    <3>1. PICK k \in 1 .. Len(stubs(i)) : stubs(i)[k] = s
      BY <1>4
    <3>2. k + 1 \in 2 .. Len(block(i)) /\ block(i)[k + 1] = s
      BY <1>5, <3>1
    <3>3. \A l \in 2 .. Len(seqs[i]) : \E x \in 1 .. Len(R) : b[x] = i /\ x # p[i] /\ R[x] = seqs[i][l]
      BY <1>8 DEF Placed
    <3>4. seqs[i] = block(i)
      BY <1>6
    <3> QED BY <3>2, <3>3, <3>4
  <2> QED BY <1>1, <1>8, <2>1, <2>3, <2>4 DEF Placed, Spread
<1> QED BY <1>7, <1>9 DEF R

(* The answers that stand directly after a message are an interval.        *)
LEMMA AnswersAreInterval ==
    ASSUME NEW n \in Nat, NEW ms, DOMAIN ms = 1 .. n, NEW a \in 1 .. n
    PROVE  \E m \in a .. n : AnsweredBy(ms, a) = a + 1 .. m /\ m = a + Cardinality(AnsweredBy(ms, a))
<1> DEFINE A == AnsweredBy(ms, a)
           rest == (a + 1 .. n + 1) \ A
<1>1. \A j : j \in A <=> j \in a + 1 .. n /\ \A k \in a + 1 .. j : ms[k].role = "tool"
  BY DEF AnsweredBy
<1> HIDE DEF A
<1>2. rest \in SUBSET Nat /\ rest # {}
  <2>1. n + 1 \in rest
    BY <1>1
  <2>2. a + 1 .. n + 1 \in SUBSET Nat
    OBVIOUS
  <2> QED BY <2>1, <2>2
<1>3. PICK l \in rest : \A j \in rest : l <= j
  <2> HIDE DEF rest
  <2> QED BY <1>2, FirstOfIsFirst
<1>4. l \in a + 1 .. n + 1 /\ l \notin A
  BY <1>3
<1>5. \A j \in a + 1 .. l - 1 : j \in A
  <2>1. \A j \in a + 1 .. l - 1 : j \in a + 1 .. n + 1 /\ ~(l <= j)
    BY <1>4
  <2> QED BY <1>3, <2>1
<1>6. \A j \in A : j \in a + 1 .. l - 1
  <2> SUFFICES ASSUME NEW j \in A, j \notin a + 1 .. l - 1 PROVE FALSE
    OBVIOUS
  <2>1. j \in a + 1 .. n /\ \A k \in a + 1 .. j : ms[k].role = "tool"
    BY <1>1
  <2>2. l <= j /\ l \in a + 1 .. n
    BY <1>4, <2>1
  <2>3. \A k \in a + 1 .. l : k \in a + 1 .. j
    BY <1>4, <2>1, <2>2
  <2>4. l \in A
    BY <1>1, <2>1, <2>2, <2>3
  <2> QED BY <1>4, <2>4
<1>7. PICK m \in a .. n : m = l - 1
  BY <1>4
<1>8. A = a + 1 .. m
  BY <1>5, <1>6, <1>7
<1>9. Cardinality(a + 1 .. m) = m - a
  <2>1. a + 1 \in Int /\ m \in Int /\ (IF a + 1 > m THEN 0 ELSE m - (a + 1) + 1) = m - a
    BY <1>7
  <2> QED BY <2>1, FS_Interval
<1>10. m = a + (m - a)
  OBVIOUS
<1> QED BY <1>8, <1>9, <1>10 DEF A

(* Whose the answers of a conversation are.                                *)
Belongs(ms, j) == \E i \in DOMAIN ms : j \in AnsweredBy(ms, i) /\ ms[j].ref \in IDs(ms[i])
Leads(ms, j) == \A i \in 1 .. j : ms[i].role \in {"system", "tool"}
AnswersBelong(ms) == \A j \in DOMAIN ms : ms[j].role = "tool" => Belongs(ms, j) \/ Leads(ms, j)

(* What a request has between two messages that only answers stand between *)
(* are answers too.                                                        *)
LEMMA Between ==
    ASSUME NEW ms \in Seq(Messages), NEW R \in Seq(Messages), NEW p, NEW b, Spread(R, ms, p, b),
           NEW a \in 1 .. Len(ms), NEW m \in a .. Len(ms),
           \A i \in a + 1 .. m : ms[i].role = "tool",
           NEW x \in 1 .. Len(R), x # p[a], a <= b[x], b[x] <= m
    PROVE  x \in AnsweredBy(R, p[a])
<1>1. /\ DOMAIN R = 1 .. Len(R) /\ Len(R) \in Nat /\ Len(ms) \in Nat
      /\ p \in [1 .. Len(ms) -> 1 .. Len(R)] /\ b \in [1 .. Len(R) -> 1 .. Len(ms)]
  BY LenProperties DEF Spread
<1>2. b[p[a]] = a /\ p[a] \in 1 .. Len(R)
  BY <1>1 DEF Spread
<1>3. x > p[a]
  <2>1. p[b[x]] <= x /\ (x <= p[a] => b[x] <= b[p[a]])
    BY <1>2 DEF Spread
  <2>2. b[x] \in 1 .. Len(ms) /\ p[b[x]] \in 1 .. Len(R)
    BY <1>1
  <2> QED BY <1>2, <2>1, <2>2
<1>4. ASSUME NEW y \in p[a] + 1 .. x PROVE R[y].role = "tool"
  <2>1. y \in 1 .. Len(R) /\ p[a] <= y /\ y <= x /\ y # p[a]
    BY <1>1, <1>2
  <2>2. b[p[a]] <= b[y] /\ b[y] <= b[x]
    BY <1>2, <2>1 DEF Spread
  <2>3. b[y] \in 1 .. Len(ms)
    BY <1>1, <2>1
  <2>4. CASE y = p[b[y]]
    <3>1. b[y] # a /\ b[y] \in a + 1 .. m
      <4>1. b[y] # a
        BY <2>1, <2>4
      <4>2. b[x] \in 1 .. Len(ms)
        BY <1>1, Zenon
      <4>3. m \in Int /\ b[x] \in Int
        BY SMTT(30), <1>1, <4>2
      <4> QED BY <1>2, <2>2, <2>3, <4>1, <4>2, <4>3
    <3>2. R[y] = ms[b[y]]
      BY <2>3, <2>4 DEF Spread
    <3> QED BY <3>1, <3>2
  <2>5. CASE y # p[b[y]]
    <3>1. R[y] \in StubsAfter(ms, b[y])
      BY <2>1, <2>5 DEF Spread
    <3> QED BY <3>1, StubsAre
  <2> QED BY <2>4, <2>5
<1> QED BY <1>1, <1>3, <1>4 DEF AnsweredBy

(* Every call of the conversation has its answer in the request.           *)
LEMMA CallsAnswered ==
    ASSUME NEW ms \in Seq(Messages), NEW R \in Seq(Messages), NEW p, NEW b, Spread(R, ms, p, b),
           NEW x \in DOMAIN R, Asks(R[x])
    PROVE  IDs(R[x]) \subseteq Answered(R, x)
<1>1. /\ DOMAIN R = 1 .. Len(R) /\ DOMAIN ms = 1 .. Len(ms) /\ Len(ms) \in Nat
      /\ p \in [1 .. Len(ms) -> 1 .. Len(R)] /\ b[x] \in 1 .. Len(ms)
  BY LenProperties DEF Spread
<1>2. PICK a \in 1 .. Len(ms) : a = b[x]
  BY <1>1
<1>3. x = p[a] /\ R[x] = ms[a]
  <2>1. R[x] \notin StubsAfter(ms, a)
    BY StubsAre DEF Asks
  <2>2. x = p[a]
    BY <1>1, <1>2, <2>1 DEF Spread
  <2> QED BY <1>2, <2>2 DEF Spread
<1> SUFFICES ASSUME NEW id \in IDs(ms[a]) PROVE id \in Answered(R, x)
  BY <1>3
<1>4. PICK m \in a .. Len(ms) :
         AnsweredBy(ms, a) = a + 1 .. m /\ m = a + Cardinality(AnsweredBy(ms, a))
  BY <1>1, AnswersAreInterval
<1>5. \A i \in a + 1 .. m : ms[i].role = "tool"
  <2>1. \A i \in AnsweredBy(ms, a) : i \in a + 1 .. i /\ \A k \in a + 1 .. i : ms[k].role = "tool"
    BY <1>4 DEF AnsweredBy
  <2> QED BY <1>4, <2>1
<1>6. ASSUME NEW y \in 1 .. Len(R), y # p[a], a <= b[y], b[y] <= m, R[y].ref = id
      PROVE  id \in Answered(R, x)
  <2>1. y \in AnsweredBy(R, x)
    BY <1>3, <1>5, <1>6, Between
  <2> QED BY <1>6, <2>1 DEF Answered
<1>7. CASE id \in Answered(ms, a)
  <2>1. PICK j \in a + 1 .. m : ms[j].ref = id
    BY <1>4, <1>7 DEF Answered
  <2>2. j \in 1 .. Len(ms) /\ a <= j /\ j <= m /\ j # a
    BY <1>1
  <2>3. b[p[j]] = j /\ R[p[j]] = ms[j] /\ b[p[a]] = a /\ p[j] \in 1 .. Len(R)
    BY <1>1, <2>2 DEF Spread
  <2>4. p[j] # p[a]
    BY <2>2, <2>3
  <2> QED BY <1>6, <2>1, <2>2, <2>3, <2>4
<1>8. CASE id \notin Answered(ms, a)
  <2>1. m \in 1 .. Len(ms) /\ a \in Askers(ms, m)
    BY <1>1, <1>3, <1>4 DEF Askers
  <2>2. Msg("tool", id, <<>>) \in StubsAfter(ms, m) /\ Msg("tool", id, <<>>).ref = id
    BY <1>8, <2>1 DEF StubsAfter, StubsFor, Msg
  <2>3. PICK y \in 1 .. Len(R) : b[y] = m /\ y # p[m] /\ R[y] = Msg("tool", id, <<>>)
    BY <2>1, <2>2 DEF Spread
  <2>4. b[p[a]] = a /\ b[p[m]] = m
    BY <2>1 DEF Spread
  <2>5. y # p[a] /\ a <= b[y] /\ b[y] <= m
    BY <1>1, <2>3, <2>4
  <2> QED BY <1>6, <2>2, <2>3, <2>5
<1> QED BY <1>7, <1>8

(* And every answer in the request belongs to a call.                      *)
LEMMA RequestAnswersBelong ==
    ASSUME NEW ms \in Seq(Messages), NEW R \in Seq(Messages), NEW p, NEW b, Spread(R, ms, p, b),
           AnswersBelong(ms), NEW x \in DOMAIN R, R[x].role = "tool"
    PROVE  Belongs(R, x) \/ Leads(R, x)
<1>1. /\ DOMAIN R = 1 .. Len(R) /\ DOMAIN ms = 1 .. Len(ms) /\ Len(ms) \in Nat /\ Len(R) \in Nat
      /\ p \in [1 .. Len(ms) -> 1 .. Len(R)] /\ b \in [1 .. Len(R) -> 1 .. Len(ms)]
      /\ b[x] \in 1 .. Len(ms)
  BY LenProperties DEF Spread
<1>2. PICK j \in 1 .. Len(ms) : j = b[x]
  BY <1>1
<1>3. CASE x = p[j]
  <2>1. R[x] = ms[j] /\ b[p[j]] = j
    BY <1>3 DEF Spread
  <2>2. CASE Belongs(ms, j)
    <3>1. PICK a \in 1 .. Len(ms) : j \in AnsweredBy(ms, a) /\ ms[j].ref \in IDs(ms[a])
      BY <1>1, <2>2 DEF Belongs
    <3>2. j \in a .. Len(ms) /\ j > a /\ \A k \in a + 1 .. j : ms[k].role = "tool"
      BY <1>1, <3>1 DEF AnsweredBy
    <3>3. b[p[a]] = a /\ R[p[a]] = ms[a] /\ p[a] \in 1 .. Len(R)
      BY <1>1 DEF Spread
    <3>4. x # p[a]
      BY <1>3, <2>1, <3>2, <3>3
    <3>5. x \in AnsweredBy(R, p[a])
      <4>1. a <= b[x] /\ b[x] <= j
        BY <1>2, <3>2
      <4> QED BY <1>1, <3>2, <3>4, <4>1, Between
    <3> QED BY <1>1, <2>1, <3>1, <3>3, <3>5 DEF Belongs
  <2>3. CASE Leads(ms, j)
    <3>1. ASSUME NEW y \in 1 .. x PROVE R[y].role \in {"system", "tool"}
      <4>1. y \in 1 .. Len(R) /\ x \in 1 .. Len(R) /\ y <= x
        BY <1>1
      <4>2. b[y] \in 1 .. Len(ms) /\ b[y] <= b[x]
        BY <1>1, <4>1 DEF Spread
      <4>3. b[y] \in 1 .. j
        BY <1>2, <4>2
      <4>4. CASE y = p[b[y]]
        <5>1. R[y] = ms[b[y]]
          BY <4>2, <4>4 DEF Spread
        <5> QED BY <2>3, <4>3, <5>1 DEF Leads
      <4>5. CASE y # p[b[y]]
        <5>1. R[y] \in StubsAfter(ms, b[y])
          BY <4>1, <4>5 DEF Spread
        <5> QED BY <5>1, StubsAre
      <4> QED BY <4>4, <4>5
    <3> QED BY <3>1 DEF Leads
  <2>4. ms[j].role = "tool"
    BY <2>1
  <2> QED BY <1>1, <2>2, <2>3, <2>4 DEF AnswersBelong
<1>4. CASE x # p[j]
  <2>1. R[x] \in StubsAfter(ms, j)
    BY <1>1, <1>2, <1>4 DEF Spread
  <2>2. PICK a \in Askers(ms, j) : R[x].ref \in IDs(ms[a])
    BY <2>1, StubsAre
  <2>3. a \in 1 .. Len(ms) /\ j = a + Cardinality(AnsweredBy(ms, a))
    BY <1>1, <2>2 DEF Askers
  <2>4. AnsweredBy(ms, a) = a + 1 .. j /\ j \in a .. Len(ms)
    <3>1. PICK m \in a .. Len(ms) :
             AnsweredBy(ms, a) = a + 1 .. m /\ m = a + Cardinality(AnsweredBy(ms, a))
      BY <1>1, <2>3, AnswersAreInterval
    <3>2. m = j
      BY <2>3, <3>1
    <3> QED BY <3>1, <3>2
  <2>5. \A i \in a + 1 .. j : ms[i].role = "tool"
    <3>1. \A i \in AnsweredBy(ms, a) : i \in a + 1 .. i /\ \A k \in a + 1 .. i : ms[k].role = "tool"
      BY <2>3, <2>4 DEF AnsweredBy
    <3> QED BY <2>4, <3>1
  <2>6. b[p[a]] = a /\ R[p[a]] = ms[a] /\ p[a] \in 1 .. Len(R)
    BY <1>1, <2>3 DEF Spread
  <2>7. x # p[a] /\ a <= b[x] /\ b[x] <= j
    <3>1. a <= j /\ j <= j
      BY <2>3, <2>4
    <3>2. x = p[a] => a = j
      BY <1>2, <2>6
    <3> QED BY <1>2, <1>4, <3>1, <3>2
  <2>8. x \in AnsweredBy(R, p[a])
    BY <1>1, <2>3, <2>4, <2>5, <2>7, Between
  <2> QED BY <1>1, <2>2, <2>6, <2>8 DEF Belongs
<1> QED BY <1>3, <1>4

(* The first request for an empty conversation is empty.                   *)
LEMMA EmptyRequest == SanitizeToolPairing(<<>>) = <<>>
<1> DEFINE block(i) ==
        <<<<>>[i]>> \o SetToSeq(UNION {{Msg("tool", id, <<>>) : id \in IDs(<<>>[a]) \ Answered(<<>>, a)} :
              a \in {a \in DOMAIN <<>> : Asks(<<>>[a]) /\ i = a + Cardinality(AnsweredBy(<<>>, a))}})
           seqs == [i \in DOMAIN <<>> |-> block(i)]
<1>1. SanitizeToolPairing(<<>>) = FlattenSeq(seqs)
  BY DEF SanitizeToolPairing
<1> HIDE DEF block
<1>2. seqs = <<>>
  OBVIOUS
<1> HIDE DEF seqs
<1>3. FlattenSeq(<<>>) = <<>>
  BY DEF FlattenSeq
<1> QED BY <1>1, <1>2, <1>3

(* sanitizeToolPairing pairs whatever a conversation left open.            *)
LEMMA SanitizedIsPaired ==
    ASSUME NEW ms \in Seq(Messages), AnswersBelong(ms)
    PROVE  Paired(SanitizeToolPairing(ms))
<1>1. CASE ms = <<>>
  BY <1>1, EmptyRequest DEF Paired
<1>2. CASE ms # <<>>
  <2>1. PICK R \in Seq(Messages) : R = SanitizeToolPairing(ms) /\ \E p, b : Spread(R, ms, p, b)
    BY <1>2, RequestIs
  <2>2. PICK p, b : Spread(R, ms, p, b)
    BY <2>1
  <2>3. \A i \in DOMAIN R : Asks(R[i]) => IDs(R[i]) \subseteq Answered(R, i)
    BY <2>2, CallsAnswered
  <2>4. \A j \in DOMAIN R : R[j].role = "tool" => Belongs(R, j) \/ Leads(R, j)
    BY <2>2, RequestAnswersBelong
  <2> QED BY <2>1, <2>3, <2>4 DEF Paired, Belongs, Leads
<1> QED BY <1>1, <1>2

(* A request ends with the last message, unless calls are left open there. *)
LEMMA RequestEnds ==
    ASSUME NEW ms \in Seq(Messages), ms # <<>>, ms[Len(ms)].role = "user"
    PROVE  LET R == SanitizeToolPairing(ms) IN R[Len(R)] = ms[Len(ms)]
<1>1. PICK R \in Seq(Messages) : R = SanitizeToolPairing(ms) /\ \E p, b : Spread(R, ms, p, b)
  BY RequestIs
<1>2. PICK p, b : Spread(R, ms, p, b)
  BY <1>1
<1>3. PICK n \in Nat \ {0} : n = Len(ms) /\ DOMAIN ms = 1 .. n
  BY EmptySeq, LenProperties
<1>4. StubsAfter(ms, n) = {}
  <2> SUFFICES ASSUME NEW a \in Askers(ms, n) PROVE FALSE
    BY DEF StubsAfter
  <2>1. a \in 1 .. n /\ Asks(ms[a]) /\ n = a + Cardinality(AnsweredBy(ms, a))
    BY <1>3 DEF Askers
  <2>2. AnsweredBy(ms, a) = a + 1 .. n
    BY <1>3, <2>1, AnswersAreInterval
  <2>3. CASE a = n
    BY <1>3, <2>1, <2>3 DEF Asks
  <2>4. CASE a # n
    <3>0. n \in a + 1 .. n
      BY <2>1, <2>4
    <3>1. n \in AnsweredBy(ms, a) /\ n \in a + 1 .. n
      BY <2>2, <3>0
    <3>2. ms[n].role = "tool"
      BY <3>1 DEF AnsweredBy
    <3> QED BY <1>3, <3>2
  <2> QED BY <2>3, <2>4
<1>5. /\ p \in [1 .. n -> 1 .. Len(R)] /\ b \in [1 .. Len(R) -> 1 .. n] /\ Len(R) \in Nat
      /\ b[p[n]] = n /\ R[p[n]] = ms[n]
  BY <1>2, <1>3, LenProperties DEF Spread
<1>6. Len(R) \in 1 .. Len(R) /\ p[n] \in 1 .. Len(R) /\ p[n] <= Len(R)
  BY <1>3, <1>5
<1>7. b[Len(R)] = n
  <2>1. b[p[n]] <= b[Len(R)]
    BY <1>2, <1>6 DEF Spread
  <2>2. b[Len(R)] \in 1 .. n
    BY <1>5, <1>6
  <2> QED BY <1>5, <2>1, <2>2
<1>8. Len(R) = p[n]
  <2>1. Len(R) = p[b[Len(R)]] \/ R[Len(R)] \in StubsAfter(ms, b[Len(R)])
    BY <1>2, <1>6 DEF Spread
  <2> QED BY <1>4, <1>7, <2>1
<1> QED BY <1>1, <1>3, <1>5, <1>8

(* A conversation that goes on keeps whose its answers are.                *)
LEMMA GoesOn ==
    ASSUME NEW ms \in Seq(Messages), NEW ns \in Seq(Messages), Len(ms) <= Len(ns),
           \A i \in 1 .. Len(ms) : ns[i].role = ms[i].role /\ ns[i].ref = ms[i].ref,
           \A i \in 1 .. Len(ms) - 1 : ns[i] = ms[i],
           AnswersBelong(ms), NEW j \in 1 .. Len(ms), ns[j].role = "tool"
    PROVE  Belongs(ns, j) \/ Leads(ns, j)
<1>1. DOMAIN ms = 1 .. Len(ms) /\ DOMAIN ns = 1 .. Len(ns) /\ Len(ms) \in Nat /\ Len(ns) \in Nat
  BY LenProperties
<1>2. ms[j].role = "tool" /\ j \in DOMAIN ms
  BY <1>1
<1>3. CASE Belongs(ms, j)
  <2>1. PICK i \in 1 .. Len(ms) : j \in AnsweredBy(ms, i) /\ ms[j].ref \in IDs(ms[i])
    BY <1>1, <1>3 DEF Belongs
  <2>2. i < j /\ \A k \in i + 1 .. j : ms[k].role = "tool"
    BY <1>1, <2>1 DEF AnsweredBy
  <2>3. \A k \in i + 1 .. j : ns[k].role = "tool"
    <3>1. \A k \in i + 1 .. j : k \in 1 .. Len(ms)
      BY <1>1
    <3> QED BY <2>2, <3>1
  <2>4. i \in 1 .. Len(ms) - 1 /\ i \in 1 .. Len(ns) /\ j \in 1 .. Len(ns)
    BY <1>1, <2>2
  <2>5. ns[i] = ms[i] /\ ns[j].ref = ms[j].ref
    BY <2>4
  <2>6. j \in AnsweredBy(ns, i)
    BY <1>1, <2>2, <2>3, <2>4 DEF AnsweredBy
  <2> QED BY <1>1, <2>1, <2>4, <2>5, <2>6 DEF Belongs
<1>4. CASE Leads(ms, j)
  <2>1. \A i \in 1 .. j : i \in 1 .. Len(ms)
    BY <1>1
  <2> QED BY <1>4, <2>1 DEF Leads
<1> QED BY <1>2, <1>3, <1>4 DEF AnswersBelong

LEMMA AppendKeeps ==
    ASSUME NEW ms \in Seq(Messages), AnswersBelong(ms), NEW m \in Messages, m.role # "tool"
    PROVE  /\ Append(ms, m) \in Seq(Messages) /\ AnswersBelong(Append(ms, m))
           /\ Append(ms, m) # <<>> /\ Last(Append(ms, m)) = m
<1> DEFINE ns == Append(ms, m)
           n == Len(ms)
<1>1. /\ ns \in Seq(Messages) /\ ns # <<>> /\ Len(ns) = n + 1 /\ n \in Nat
      /\ (\A i \in 1 .. n : ns[i] = ms[i]) /\ ns[n + 1] = m
  BY AppendProperties, LenProperties
<1>2. DOMAIN ns = 1 .. n + 1
  BY <1>1, LenProperties
<1> HIDE DEF ns
<1>3. ASSUME NEW j \in DOMAIN ns, ns[j].role = "tool" PROVE Belongs(ns, j) \/ Leads(ns, j)
  <2>1. j \in 1 .. n
    BY <1>1, <1>2, <1>3
  <2>2. n <= Len(ns) /\ \A i \in 1 .. n - 1 : i \in 1 .. n
    BY <1>1
  <2> QED BY <1>1, <1>3, <2>1, <2>2, GoesOn
<1>4. AnswersBelong(ns)
  BY <1>3 DEF AnswersBelong
<1>5. Last(ns) = m
  BY <1>1 DEF Last
<1> QED BY <1>1, <1>4, <1>5 DEF ns

(* What a summary keeps: the answers cut from their calls begin it.        *)
LEMMA SuffixKeeps ==
    ASSUME NEW ms \in Seq(Messages), AnswersBelong(ms), NEW keep \in 1 .. Len(ms)
    PROVE  LET ns == <<Msg("system", NoID, <<>>)>> \o SubSeq(ms, Len(ms) - keep + 1, Len(ms))
           IN  ns \in Seq(Messages) /\ AnswersBelong(ns)
<1> DEFINE n == Len(ms)
           d == n - keep
           tail == SubSeq(ms, n - keep + 1, n)
           h == <<Msg("system", NoID, <<>>)>>
           ns == h \o tail
<1>1. n \in Nat /\ d \in Nat /\ d < n /\ DOMAIN ms = 1 .. n /\ keep = n - d
  BY LenProperties
<1>2. \A i \in 1 .. n : ms[i] \in Messages
  BY ElementOfSeq
<1>3. /\ tail \in Seq(Messages) /\ Len(tail) = keep
      /\ \A i \in 1 .. keep : tail[i] = ms[d + i]
  <2>1. d + 1 \in Int /\ n \in Int /\ \A i \in d + 1 .. n : ms[i] \in Messages
    BY <1>1, <1>2
  <2>2. /\ SubSeq(ms, d + 1, n) \in Seq(Messages)
        /\ Len(SubSeq(ms, d + 1, n)) = IF d + 1 <= n THEN n - (d + 1) + 1 ELSE 0
        /\ \A i \in 1 .. n - (d + 1) + 1 : SubSeq(ms, d + 1, n)[i] = ms[d + 1 + i - 1]
    BY <2>1, SubSeqProperties
  <2>3. n - (d + 1) + 1 = keep /\ d + 1 <= n /\ \A i \in 1 .. keep : d + 1 + i - 1 = d + i
    BY <1>1
  <2> HIDE DEF d
  <2> QED BY <2>2, <2>3 DEF d
<1>4. h \in Seq(Messages) /\ Len(h) = 1 /\ h[1] = Msg("system", NoID, <<>>)
  <2>1. <<>> \in Seq(ToolCalls) /\ NoID \in Runs \cup Nat
    BY EmptySeq DEF NoID
  <2>2. Msg("system", NoID, <<>>) \in Messages
    BY <2>1 DEF Msg, Messages
  <2> QED BY <2>2
<1>5. h[1].role = "system"
  BY <1>4 DEF Msg
<1> HIDE DEF tail, h
<1>6. /\ ns \in Seq(Messages) /\ Len(ns) = keep + 1 /\ ns[1] = h[1]
      /\ \A i \in 2 .. keep + 1 : ns[i] = ms[d + i - 1]
  <2>1. /\ ns \in Seq(Messages) /\ Len(ns) = 1 + keep
        /\ \A i \in 1 .. 1 + keep : ns[i] = IF i <= 1 THEN h[i] ELSE tail[i - 1]
    <3>1. /\ ns \in Seq(Messages) /\ Len(ns) = Len(h) + Len(tail)
          /\ \A i \in 1 .. Len(h) + Len(tail) : ns[i] = IF i <= Len(h) THEN h[i] ELSE tail[i - Len(h)]
      BY <1>3, <1>4, ConcatProperties
    <3> HIDE DEF ns
    <3> QED BY <1>3, <1>4, <3>1
  <2>2. 1 \in 1 .. 1 + keep
    BY <1>1
  <2>3. \A i \in 2 .. keep + 1 : i \in 1 .. 1 + keep /\ ~(i <= 1) /\ i - 1 \in 1 .. keep /\ d + (i - 1) = d + i - 1
    BY <1>1
  <2> HIDE DEF ns
  <2>4. ns[1] = h[1]
    BY <2>1, <2>2
  <2>5. \A i \in 2 .. keep + 1 : ns[i] = ms[d + (i - 1)]
    BY <1>3, <2>1, <2>3
  <2>6. \A i \in 2 .. keep + 1 : ns[i] = ms[d + i - 1]
    BY <2>3, <2>5
  <2>7. Len(ns) = keep + 1
    BY <1>1, <2>1
  <2> QED BY <2>1, <2>4, <2>6, <2>7
<1>7. DOMAIN ns = 1 .. keep + 1
  BY <1>6, LenProperties
<1> HIDE DEF ns
<1>8. ASSUME NEW j \in DOMAIN ns, ns[j].role = "tool" PROVE Belongs(ns, j) \/ Leads(ns, j)
  <2>1. j \in 2 .. keep + 1
    BY <1>1, <1>5, <1>6, <1>7, <1>8
  <2>2. PICK l \in d + 1 .. n : l = d + j - 1 /\ ms[l].role = "tool" /\ ns[j] = ms[l]
    <3>1. d + j - 1 \in d + 1 .. n
      BY <1>1, <2>1
    <3>2. ns[j] = ms[d + j - 1]
      BY <1>6, <2>1
    <3> QED BY <1>8, <3>1, <3>2
  <2>3. l \in DOMAIN ms
    BY <1>1
  <2>4. ASSUME \A k \in d + 1 .. l : ms[k].role \in {"system", "tool"} PROVE Leads(ns, j)
    <3>1. \A i \in 2 .. j : ns[i] = ms[d + i - 1] /\ d + i - 1 \in d + 1 .. l
      BY <1>1, <1>6, <2>1, <2>2
    <3>2. \A i \in 1 .. j : i = 1 \/ i \in 2 .. j
      BY <2>1
    <3> QED BY <1>5, <1>6, <2>4, <3>1, <3>2 DEF Leads
  <2>5. CASE Belongs(ms, l)
    <3>1. PICK i \in 1 .. n : l \in AnsweredBy(ms, i) /\ ms[l].ref \in IDs(ms[i])
      BY <1>1, <2>5 DEF Belongs
    <3>2. i < l /\ \A k \in i + 1 .. l : ms[k].role = "tool"
      BY <1>1, <3>1 DEF AnsweredBy
    <3>3. CASE i <= d
      <4>1. \A k \in d + 1 .. l : k \in i + 1 .. l
        BY <1>1, <3>3
      <4> QED BY <2>4, <3>2, <4>1
    <3>4. CASE i > d
      <4>1. PICK m \in 2 .. keep + 1 : i = d + m - 1
        <5>1. i - d + 1 \in 2 .. keep + 1 /\ i = d + (i - d + 1) - 1
          BY <1>1, <3>4
        <5> QED BY <5>1
      <4>2. ns[m] = ms[i] /\ m < j /\ m \in DOMAIN ns
        BY <1>1, <1>6, <1>7, <2>1, <2>2, <3>2, <4>1
      <4>3. ASSUME NEW k \in m + 1 .. j PROVE ns[k].role = "tool"
        <5>1. k \in 2 .. keep + 1 /\ d + k - 1 \in i + 1 .. l
          <6>1. d \in Int /\ l \in Int /\ m \in 2 .. keep + 1 /\ j \in 2 .. keep + 1 /\ keep \in Int
            BY <1>1, <2>1
          <6>2. l = d + j - 1 /\ i = d + m - 1
            BY <2>2, <4>1
          <6> HIDE DEF d
          <6> QED BY <6>1, <6>2
        <5> QED BY <1>6, <3>2, <5>1
      <4>4. j \in AnsweredBy(ns, m)
        BY <1>7, <2>1, <4>2, <4>3 DEF AnsweredBy
      <4> QED BY <2>2, <3>1, <4>2, <4>4 DEF Belongs
    <3> QED BY <1>1, <3>3, <3>4
  <2>6. CASE Leads(ms, l)
    <3>1. \A k \in d + 1 .. l : k \in 1 .. l
      BY <1>1
    <3> QED BY <2>4, <2>6, <3>1 DEF Leads
  <2> QED BY <2>2, <2>3, <2>5, <2>6 DEF AnswersBelong
<1>9. AnswersBelong(ns)
  BY <1>8 DEF AnswersBelong
<1> QED BY <1>6, <1>9 DEF ns, h, tail

(* The IDs given to the calls go to the message that made them.            *)
LEMMA IDsGiven ==
    ASSUME NEW ms \in Seq(Messages), ms # <<>>, Asks(Last(ms)),
           NEW cs \in Seq(ToolCalls), Len(cs) = Len(Last(ms).calls)
    PROVE  /\ WithIDs(ms, cs) \in Seq(Messages) /\ Len(WithIDs(ms, cs)) = Len(ms)
           /\ \A i \in 1 .. Len(ms) - 1 : WithIDs(ms, cs)[i] = ms[i]
           /\ \A i \in 1 .. Len(ms) : /\ WithIDs(ms, cs)[i].role = ms[i].role
                                      /\ WithIDs(ms, cs)[i].ref = ms[i].ref
           /\ \A i \in DOMAIN cs : cs[i].id # NoID => cs[i].id \in IDs(WithIDs(ms, cs)[Len(ms)])
<1>1. PICK n \in Nat \ {0} : n = Len(ms) /\ DOMAIN ms = 1 .. n
  BY EmptySeq, LenProperties
<1> DEFINE asking == {i \in DOMAIN ms : Asks(ms[i])}
           m == ms[n]
           given == [j \in DOMAIN m.calls |->
                        IF j \in DOMAIN cs THEN [m.calls[j] EXCEPT !.id = cs[j].id] ELSE m.calls[j]]
           w == [m EXCEPT !.calls = given]
<1>2. n \in asking /\ \A j \in asking : j <= n
  BY <1>1 DEF Last
<1>3. (CHOOSE i \in asking : \A j \in asking : j <= i) = n
  <2>1. \A i \in asking : i \in 1 .. n
    BY <1>1
  <2>2. \A i \in asking : (\A j \in asking : j <= i) => i = n
    BY <1>2, <2>1
  <2> HIDE DEF asking
  <2> QED BY <1>2, <2>2
<1>4. WithIDs(ms, cs) = [ms EXCEPT ![n] = w]
  BY <1>2, <1>3 DEF WithIDs
<1>5. m \in Messages /\ m.calls \in Seq(ToolCalls) /\ m = Last(ms)
  <2>1. m \in Messages /\ m = Last(ms)
    BY <1>1, ElementOfSeq DEF Last
  <2> QED BY <2>1, MessageIs
<1> HIDE DEF m
<1>6. /\ DOMAIN cs = 1 .. Len(cs) /\ DOMAIN m.calls = 1 .. Len(cs) /\ Len(cs) \in Nat
      /\ \A j \in 1 .. Len(cs) : cs[j] \in ToolCalls /\ m.calls[j] \in ToolCalls
  <2>1. DOMAIN m.calls = 1 .. Len(m.calls) /\ Len(m.calls) = Len(cs) /\ DOMAIN cs = 1 .. Len(cs) /\ Len(cs) \in Nat
    BY <1>5, LenProperties
  <2> QED BY <1>5, <2>1, ElementOfSeq
<1>7. \A j \in 1 .. Len(cs) : given[j] \in ToolCalls /\ given[j].id = cs[j].id
  BY <1>6 DEF ToolCalls
<1>8. given \in Seq(ToolCalls) /\ DOMAIN given = 1 .. Len(cs)
  <2>1. DOMAIN given = 1 .. Len(cs)
    BY <1>6
  <2>2. given = [j \in 1 .. Len(cs) |-> given[j]]
    BY <1>6
  <2> HIDE DEF given
  <2>3. given \in [1 .. Len(cs) -> ToolCalls]
    BY <1>7, <2>2
  <2> QED BY <1>6, <2>1, <2>3
<1> HIDE DEF given
<1>9. w \in Messages /\ w.role = m.role /\ w.ref = m.ref /\ w.calls = given
  BY <1>5, <1>8 DEF Messages
<1>10. \A i \in DOMAIN cs : cs[i].id # NoID => cs[i].id \in IDs(w)
  BY <1>6, <1>7, <1>8, <1>9 DEF IDs
<1> HIDE DEF w
<1>11. /\ WithIDs(ms, cs) \in Seq(Messages) /\ Len(WithIDs(ms, cs)) = n
       /\ \A i \in 1 .. n : WithIDs(ms, cs)[i] = IF i = n THEN w ELSE ms[i]
  BY <1>1, <1>4, <1>9, ExceptSeq
<1>12. n \in 1 .. n /\ \A i \in 1 .. n - 1 : i \in 1 .. n /\ i # n
  BY <1>1
<1> QED BY <1>1, <1>9, <1>10, <1>11, <1>12 DEF m

(* The answers of the tools belong to the calls.                           *)
LEMMA AnsweringKeeps ==
    ASSUME NEW ms \in Seq(Messages), AnswersBelong(ms), NEW cs \in Seq(ToolCalls),
           \A i \in DOMAIN cs : cs[i].id # NoID,
           ms = <<>> \/ (Asks(Last(ms)) /\ Len(cs) = Len(Last(ms).calls))
    PROVE  WithAnswers(ms, cs) \in Seq(Messages) /\ AnswersBelong(WithAnswers(ms, cs))
<1> DEFINE n == Len(ms)
           c == Len(cs)
           W == WithIDs(ms, cs)
           T == [i \in DOMAIN cs |-> Msg("tool", cs[i].id, <<>>)]
           ns == W \o T
<1>1. /\ n \in Nat /\ c \in Nat /\ DOMAIN cs = 1 .. c /\ DOMAIN ms = 1 .. n
      /\ \A i \in 1 .. c : cs[i] \in ToolCalls
  BY LenProperties, ElementOfSeq
<1>2. \A i \in 1 .. c : cs[i].id \in Nat /\ cs[i].id # NoID
  BY <1>1 DEF ToolCalls
<1>3. /\ T \in Seq(Messages) /\ Len(T) = c
      /\ \A i \in 1 .. c : T[i].role = "tool" /\ T[i].ref = cs[i].id
  <2>1. <<>> \in Seq(ToolCalls)
    BY EmptySeq
  <2>2. \A i \in 1 .. c : /\ Msg("tool", cs[i].id, <<>>) \in Messages
                          /\ Msg("tool", cs[i].id, <<>>).role = "tool"
                          /\ Msg("tool", cs[i].id, <<>>).ref = cs[i].id
    BY <1>2, <2>1 DEF Msg, Messages
  <2>3. T = [i \in 1 .. c |-> T[i]] /\ \A i \in 1 .. c : T[i] = Msg("tool", cs[i].id, <<>>)
    BY <1>1
  <2> HIDE DEF T
  <2>4. T \in [1 .. c -> Messages]
    BY <2>2, <2>3
  <2>5. T \in Seq(Messages) /\ Len(T) = c
    BY <1>1, <2>4, LenProperties
  <2> QED BY <2>2, <2>3, <2>5
<1>4. /\ W \in Seq(Messages) /\ Len(W) = n
      /\ \A i \in 1 .. n : W[i].role = ms[i].role /\ W[i].ref = ms[i].ref
      /\ \A i \in 1 .. n - 1 : W[i] = ms[i]
      /\ n = 0 \/ \A i \in 1 .. c : cs[i].id \in IDs(W[n])
      /\ n > 0 => ms[n].role = "assistant"
  <2>1. CASE ms = <<>>
    <3>1. W = ms
      BY <2>1 DEF WithIDs
    <3>2. n = 0
      BY <2>1
    <3> HIDE DEF W, n
    <3>3. (\A i \in 1 .. n : FALSE) /\ (\A i \in 1 .. n - 1 : FALSE)
      BY <3>2
    <3> QED BY <3>1, <3>2, <3>3 DEF n
  <2>2. CASE ms # <<>> /\ Asks(Last(ms)) /\ c = Len(Last(ms).calls)
    <3>1. ms[n].role = "assistant"
      BY <2>2 DEF Asks, Last
    <3>2. /\ W \in Seq(Messages) /\ Len(W) = n
          /\ \A i \in 1 .. n : W[i].role = ms[i].role /\ W[i].ref = ms[i].ref
          /\ \A i \in 1 .. n - 1 : W[i] = ms[i]
          /\ \A i \in DOMAIN cs : cs[i].id # NoID => cs[i].id \in IDs(W[n])
      BY <2>2, IDsGiven
    <3> HIDE DEF W
    <3> QED BY <1>1, <1>2, <3>1, <3>2
  <2> QED BY <2>1, <2>2
<1> HIDE DEF W, T
<1>5. /\ ns \in Seq(Messages) /\ Len(ns) = n + c
      /\ \A i \in 1 .. n : ns[i] = W[i]
      /\ \A i \in 1 .. c : ns[n + i] = T[i]
  <2>1. /\ ns \in Seq(Messages) /\ Len(ns) = n + c
        /\ \A i \in 1 .. n + c : ns[i] = IF i <= n THEN W[i] ELSE T[i - n]
    <3>1. /\ ns \in Seq(Messages) /\ Len(ns) = Len(W) + Len(T)
          /\ \A i \in 1 .. Len(W) + Len(T) : ns[i] = IF i <= Len(W) THEN W[i] ELSE T[i - Len(W)]
      <4>1. W \in Seq(Messages) /\ T \in Seq(Messages)
        BY <1>3, <1>4
      <4> QED BY <4>1, ConcatProperties
    <3> HIDE DEF ns
    <3> QED BY <1>3, <1>4, <3>1
  <2>2. \A i \in 1 .. n : i \in 1 .. n + c /\ i <= n
    BY <1>1
  <2>3. \A i \in 1 .. c : n + i \in 1 .. n + c /\ ~(n + i <= n) /\ n + i - n = i
    BY <1>1
  <2> QED BY <2>1, <2>2, <2>3
<1>6. DOMAIN ns = 1 .. n + c
  BY <1>5, LenProperties
<1> HIDE DEF ns
<1>7. \A i \in n + 1 .. n + c : i - n \in 1 .. c /\ ns[i] = T[i - n]
  <2>1. \A i \in n + 1 .. n + c : i - n \in 1 .. c /\ n + (i - n) = i
    BY <1>1
  <2> QED BY <1>5, <2>1
<1>8. ASSUME NEW j \in DOMAIN ns, ns[j].role = "tool" PROVE Belongs(ns, j) \/ Leads(ns, j)
  <2>1. CASE j \in 1 .. n
    <3>1. n <= Len(ns) /\ \A i \in 1 .. n - 1 : i \in 1 .. n
      BY <1>1, <1>5
    <3>2. /\ \A i \in 1 .. n : ns[i].role = ms[i].role /\ ns[i].ref = ms[i].ref
          /\ \A i \in 1 .. n - 1 : ns[i] = ms[i]
      BY <1>4, <1>5, <3>1
    <3> QED BY <1>5, <1>8, <2>1, <3>1, <3>2, GoesOn
  <2>2. CASE j \in n + 1 .. n + c /\ n > 0
    <3>1. n \in DOMAIN ns /\ ns[n] = W[n] /\ j > n
      BY <1>1, <1>5, <1>6, <2>2
    <3>2. ns[j].ref = cs[j - n].id /\ cs[j - n].id \in IDs(W[n])
      BY <1>3, <1>4, <1>7, <2>2
    <3>3. \A k \in n + 1 .. j : ns[k].role = "tool"
      <4>1. \A k \in n + 1 .. j : k \in n + 1 .. n + c
        BY <1>1, <2>2
      <4> QED BY <1>3, <1>7, <4>1
    <3>4. j \in AnsweredBy(ns, n)
      BY <3>1, <3>3 DEF AnsweredBy
    <3> QED BY <3>1, <3>2, <3>4 DEF Belongs
  <2>3. CASE n = 0
    <3>1. \A k \in 1 .. j : k \in n + 1 .. n + c
      BY <1>1, <1>6, <2>3
    <3> QED BY <1>3, <1>7, <3>1 DEF Leads
  <2>4. j \in 1 .. n \/ (j \in n + 1 .. n + c /\ n > 0) \/ n = 0
    BY <1>1, <1>6
  <2> QED BY <2>1, <2>2, <2>3, <2>4
<1>9. AnswersBelong(ns)
  BY <1>8 DEF AnswersBelong
<1> QED BY <1>5, <1>9 DEF ns, W, T, WithAnswers

(* What the conversation ends with while a run counts on it.               *)
Talk(r) ==
    /\ state[r].pending \in Seq(ToolCalls)
    /\ pc[r] = "tools" \/ (pc[r] = "node" /\ node[r] = "act") =>
          \/ conversation = <<>>
          \/ Last(conversation).role = "assistant" /\ Last(conversation).calls = state[r].pending
    /\ pc[r] = "tools" => state[r].pending # <<>>
    /\ question[r] /\ (pc[r] = "start" \/ (pc[r] = "node" /\ path[r] = <<>>)) =>
          conversation # <<>> /\ Last(conversation) = Msg("user", r, <<>>)

Seeded == resumes + (IF resumeSeeded THEN 1 ELSE 0) <= seeds

TalkInv ==
    /\ conversation \in Seq(Messages) /\ AnswersBelong(conversation)
    /\ pendingToolCalls \in Seq(ToolCalls) /\ calls \in Nat
    /\ question \in [Runs -> BOOLEAN] /\ resumeSeeded \in BOOLEAN
    /\ resumes \in Nat /\ seeds \in Nat /\ Seeded
    /\ \A r \in Runs : Talk(r)

LEMMA PendingKept ==
    ASSUME NEW s, Shape(s), NEW p
    PROVE  /\ [s EXCEPT !.interrupt = TRUE].pending = s.pending
           /\ [s EXCEPT !.pending = p, !.answered = TRUE].pending = p
           /\ NextRound(s).pending = s.pending
  BY DEF Shape, States, NextRound

(* Who does not have the agent says nothing. *)
LEMMA OthersListen ==
    ASSUME BusyInv, TalkInv, NEW r \in Runs, pc[r] \in InFlight, NEW q \in Runs \ {r},
           pc'[q] = pc[q], state'[q] = state[q]
    PROVE  Talk(q)'
<1>1. pc[q] \notin InFlight
  BY DEF BusyInv, BusyWhileRunning
<1> QED BY <1>1 DEF TalkInv, Talk, InFlight, Labels

(* A node that returned: the LLM's own reply may lead to tools.            *)
LEMMA NodeTalks ==
    ASSUME BusyInv, BudgetInv, TalkInv, NEW r \in Runs, pc[r] \in InFlight,
           NEW s, NodeReturns(r, s), s.pending \in Seq(ToolCalls),
           \/ node[r] # "reason"
           \/ /\ Last(conversation').role = "assistant"
              /\ Last(conversation').calls = s.pending
    PROVE  \A q \in Runs : Talk(q)'
<1>1. /\ DOMAIN state = Runs /\ path \in [Runs -> Seq(ReActGraph.nodes)]
      /\ node[r] \in ReActGraph.nodes
  BY DEF BudgetInv, BudgetTypes
<1>2. state'[r] = s /\ \A q \in Runs \ {r} : state'[q] = state[q]
  BY <1>1 DEF NodeReturns
<1>3. path'[r] # <<>>
  <2>1. path'[r] = Append(path[r], node[r])
    BY <1>1 DEF NodeReturns
  <2> QED BY <1>1, <2>1, AppendProperties
<1>4. /\ \A q \in Runs \ {r} : pc'[q] = pc[q]
      /\ \/ pc'[r] = "collect"
         \/ pc'[r] = "node" /\ (node'[r] = "act" => node[r] = "reason")
  BY Enters
<1>5. \A q \in Runs \ {r} : Talk(q)'
  BY <1>2, <1>4, OthersListen
<1>6. Talk(r)'
  BY <1>2, <1>3, <1>4 DEF Talk
<1> QED BY <1>5, <1>6

(* What the LLM asks for. *)
LEMMA ReplyIs ==
    ASSUME AgentAssumption, calls \in Nat, NEW reply \in Replies, NEW given \in BOOLEAN
    PROVE  /\ CallsOf(reply, given) \in Seq(ToolCalls) /\ calls + Len(reply) \in Nat
           /\ Msg("assistant", NoID, CallsOf(reply, given)) \in Messages
<1>1. reply \in Seq(STRING)
  BY DEF AgentAssumption
<1>2. /\ DOMAIN reply = 1 .. Len(reply) /\ Len(reply) \in Nat
      /\ \A i \in 1 .. Len(reply) : reply[i] \in STRING
  BY <1>1, LenProperties, ElementOfSeq
<1> DEFINE cs == CallsOf(reply, given)
<1>3. cs = [i \in 1 .. Len(reply) |-> cs[i]]
  BY <1>2 DEF CallsOf
<1>4. \A i \in 1 .. Len(reply) : cs[i] \in ToolCalls
  BY <1>2 DEF CallsOf, ToolCalls, NoID
<1> HIDE DEF cs
<1>5. cs \in Seq(ToolCalls)
  <2>1. cs \in [1 .. Len(reply) -> ToolCalls]
    BY <1>3, <1>4
  <2> QED BY <1>2, <2>1
<1>6. Msg("assistant", NoID, cs) \in Messages
  BY <1>5 DEF Msg, Messages, NoID
<1> QED BY <1>2, <1>5, <1>6 DEF cs

LEMMA SummaryKeeps ==
    ASSUME AgentAssumption, TalkInv, MaxMessages > 0, Len(conversation) > MaxMessages
    PROVE  Summarized \in Seq(Messages) /\ AnswersBelong(Summarized)
<1> DEFINE keep == IF MaxMessages >= 2 THEN MaxMessages \div 2 ELSE 1
<1>1. Len(conversation) \in Nat /\ MaxMessages \in Nat
  BY LenProperties DEF TalkInv, AgentAssumption
<1>2. keep \in 1 .. Len(conversation)
  BY <1>1
<1> HIDE DEF keep
<1>3. /\ <<Msg("system", NoID, <<>>)>> \o SubSeq(conversation, Len(conversation) - keep + 1, Len(conversation)) \in Seq(Messages)
      /\ AnswersBelong(<<Msg("system", NoID, <<>>)>> \o SubSeq(conversation, Len(conversation) - keep + 1, Len(conversation)))
  BY <1>2, SuffixKeeps DEF TalkInv
<1> QED BY <1>3 DEF Summarized, keep

(* The calls that the last message made are calls. *)
LEMMA LeftOpenIs ==
    ASSUME TalkInv, conversation # <<>>
    PROVE  LeftOpen \in Seq(ToolCalls)
<1>1. conversation \in Seq(Messages) /\ Len(conversation) \in 1 .. Len(conversation)
  BY EmptySeq, LenProperties DEF TalkInv
<1>2. conversation[Len(conversation)].calls \in Seq(ToolCalls)
  BY <1>1, ElementOfSeq, MessageIs
<1> QED BY <1>2, EmptySeq DEF LeftOpen

LEMMA TalkStep ==
    ASSUME AgentAssumption, BusyInv, BudgetInv, TalkInv, [Next]_vars
    PROVE  TalkInv'
<1>0. /\ DOMAIN state = Runs /\ pc \in [Runs -> Labels] /\ \A q \in Runs : Shape(state[q])
      /\ state = [q \in Runs |-> state[q]] /\ path \in [Runs -> Seq(ReActGraph.nodes)]
      /\ node \in [Runs -> ReActGraph.nodes]
  BY DEF BudgetInv, BudgetTypes
<1> DEFINE Kept == /\ UNCHANGED <<pendingToolCalls, resumeSeeded, resumes, seeds>>
                   /\ calls' \in Nat /\ question' \in [Runs -> BOOLEAN]
           Sound == conversation' \in Seq(Messages) /\ AnswersBelong(conversation')
<1>1. ASSUME Kept, Sound, \A q \in Runs : Talk(q)' PROVE TalkInv'
  BY <1>1 DEF TalkInv, Seeded
<1>2. UNCHANGED conversation => Sound
  BY DEF TalkInv
<1>3. UNCHANGED <<pendingToolCalls, resumeSeeded, resumes, seeds, calls, question>> => Kept
  BY DEF TalkInv
<1>4. CASE UNCHANGED vars
  BY <1>4 DEF TalkInv, Talk, Seeded, vars, agentVars, runVars, ghosts
<1>5. ASSUME NEW r \in Runs, Begin(r) PROVE TalkInv'
  <2>1. UNCHANGED <<pendingToolCalls, conversation, node, state, path, calls, seeds>> /\ pc[r] = "idle"
    BY <1>5 DEF Begin, agentVars
  <2>2. /\ pc' = [pc EXCEPT ![r] = IF isRunning THEN "returned" ELSE "before"]
        /\ question' = [question EXCEPT ![r] = IF isRunning THEN question[r] ELSE ~resumeSeeded]
        /\ (isRunning /\ UNCHANGED <<resumes, resumeSeeded>>)
           \/ (resumeSeeded' = FALSE /\ resumes' = IF resumeSeeded THEN resumes + 1 ELSE resumes)
    <3>1. question = [question EXCEPT ![r] = question[r]]
      BY DEF TalkInv
    <3> QED BY <1>5, <3>1 DEF Begin, Goto, agentVars
  <2>3. resumes' \in Nat /\ resumeSeeded' \in BOOLEAN /\ Seeded'
    <3>1. resumes \in Nat /\ seeds \in Nat /\ seeds' = seeds /\ resumeSeeded \in BOOLEAN /\ Seeded
      BY <2>1 DEF TalkInv
    <3>2. CASE isRunning /\ UNCHANGED <<resumes, resumeSeeded>>
      BY <3>1, <3>2 DEF Seeded
    <3>3. CASE resumeSeeded' = FALSE /\ resumeSeeded /\ resumes' = resumes + 1
      <4>1. resumes + 1 <= seeds
        BY <3>1, <3>3 DEF Seeded
      <4>2. resumes' \in Nat /\ resumes' + 0 <= seeds'
        BY <3>1, <3>3, <4>1
      <4>3. Seeded'
        BY <3>3, <4>2 DEF Seeded
      <4> QED BY <3>3, <4>2, <4>3
    <3>4. CASE resumeSeeded' = FALSE /\ ~resumeSeeded /\ resumes' = resumes
      <4>1. resumes + 0 <= seeds
        BY <3>1, <3>4 DEF Seeded
      <4>2. Seeded'
        BY <3>1, <3>4, <4>1 DEF Seeded
      <4> QED BY <3>1, <3>4, <4>2
    <3> QED BY <2>2, <3>2, <3>3, <3>4
  <2>4. question' \in [Runs -> BOOLEAN]
    BY <2>2 DEF TalkInv
  <2>5. ASSUME NEW q \in Runs PROVE Talk(q)'
    <3>1. CASE q = r
      BY <1>0, <2>1, <2>2, <3>1 DEF TalkInv, Talk
    <3>2. CASE q # r
      <4>1. pc'[q] = pc[q] /\ question'[q] = question[q]
        BY <1>0, <2>2, <3>2 DEF TalkInv
      <4> QED BY <2>1, <4>1 DEF TalkInv, Talk
    <3> QED BY <3>1, <3>2
  <2> QED BY <2>1, <2>3, <2>4, <2>5 DEF TalkInv
<1>6. ASSUME NEW r \in Runs, Run(r) PROVE TalkInv'
  <2>1. CASE BeforeRunFails(r) \/ Finish(r)
    <3>1. /\ pc[r] \in InFlight /\ Forget(r)
          /\ UNCHANGED <<pendingToolCalls, resumeSeeded, resumes, seeds, calls, conversation>>
      BY <2>1 DEF BeforeRunFails, Finish, Return, ghosts, InFlight, Labels
    <3>2. /\ pc' = [pc EXCEPT ![r] = "returned"] /\ state' = [state EXCEPT ![r] = NewState(0, <<>>)]
          /\ question' = [question EXCEPT ![r] = FALSE]
      BY <3>1 DEF Forget, Goto
    <3>3. Kept /\ Sound
      BY <1>2, <3>1, <3>2 DEF TalkInv
    <3>4. \A q \in Runs \ {r} : Talk(q)'
      BY <1>0, <3>1, <3>2, OthersListen
    <3>5. Talk(r)'
      <4>1. pc'[r] = "returned" /\ state'[r].pending = <<>>
        BY <1>0, <3>2 DEF NewState
      <4> QED BY <4>1, EmptySeq DEF Talk
    <3> QED BY <1>1, <3>3, <3>4, <3>5
  <2>2. CASE BeforeRun(r)
    <3>1. /\ pc[r] \in InFlight /\ pc' = [pc EXCEPT ![r] = "prepare"]
          /\ UNCHANGED <<pendingToolCalls, resumeSeeded, resumes, seeds, calls, question, state>>
      BY <2>2 DEF BeforeRun, Goto, agentVars, runVars, ghosts, InFlight, Labels
    <3>2. Sound
      BY <1>2, <2>2, SummaryKeeps DEF BeforeRun
    <3>3. \A q \in Runs \ {r} : Talk(q)'
      BY <1>0, <3>1, OthersListen
    <3>4. Talk(r)'
      BY <1>0, <3>1 DEF TalkInv, Talk
    <3> QED BY <1>1, <1>3, <3>1, <3>2, <3>3, <3>4
  <2>3. CASE Prepare(r)
    <3>1. /\ pc[r] \in InFlight /\ pc' = [pc EXCEPT ![r] = "start"]
          /\ state' = [state EXCEPT ![r] = NewState(start[r], pendingToolCalls)]
          /\ pendingToolCalls' = <<>> /\ UNCHANGED <<resumeSeeded, resumes, seeds, calls>>
      BY <2>3 DEF Prepare, Goto, ghosts, InFlight, Labels
    <3>2. PICK new \in BOOLEAN :
             /\ question' = [question EXCEPT ![r] = new]
             /\ conversation' = IF new THEN Append(conversation, Msg("user", r, <<>>))
                                       ELSE conversation
      <4>1. PICK blank \in BOOLEAN :
             /\ question' = [question EXCEPT ![r] = question[r] /\ ~blank]
             /\ conversation' = IF question[r] /\ ~blank
                                THEN Append(conversation, Msg("user", r, <<>>)) ELSE conversation
        BY <2>3 DEF Prepare
      <4>2. (question[r] /\ ~blank) \in BOOLEAN
        OBVIOUS
      <4> QED BY <4>1, <4>2
    <3>3. Msg("user", r, <<>>) \in Messages /\ Msg("user", r, <<>>).role # "tool"
      BY EmptySeq DEF Msg, Messages
    <3>4. /\ Sound
          /\ new => conversation' # <<>> /\ Last(conversation') = Msg("user", r, <<>>)
      BY <3>2, <3>3, AppendKeeps DEF TalkInv
    <3>5. \A q \in Runs \ {r} : Talk(q)'
      BY <1>0, <3>1, OthersListen
    <3>6. Talk(r)'
      <4>1. /\ pc'[r] = "start" /\ state'[r].pending = pendingToolCalls /\ question'[r] = new
            /\ pendingToolCalls \in Seq(ToolCalls)
        BY <1>0, <3>1, <3>2 DEF NewState, TalkInv
      <4> QED BY <3>4, <4>1 DEF Talk
    <3>7. pendingToolCalls' \in Seq(ToolCalls) /\ question' \in [Runs -> BOOLEAN]
      BY <3>1, <3>2, EmptySeq DEF TalkInv
    <3> QED BY <3>1, <3>4, <3>5, <3>6, <3>7 DEF TalkInv, Seeded
  <2>4. CASE Start(r)
    <3>1. /\ pc[r] = "start" /\ pc[r] \in InFlight
          /\ \E l \in {"waiting", "node"} : pc' = [pc EXCEPT ![r] = l]
          /\ UNCHANGED <<pendingToolCalls, resumeSeeded, resumes, seeds, calls, question, conversation,
                         state, node, path>>
      BY <2>4 DEF Start, Goto, agentVars, runVars, ghosts, InFlight, Labels
    <3>2. node[r] = "reason"
      BY <3>1 DEF BudgetInv, Place
    <3>3. \A q \in Runs \ {r} : Talk(q)'
      BY <1>0, <3>1, OthersListen
    <3>4. Talk(r)'
      BY <1>0, <3>1, <3>2 DEF TalkInv, Talk
    <3> QED BY <1>1, <1>2, <1>3, <3>1, <3>3, <3>4
  <2>5. CASE Stops(r) \/ LLMFails(r)
    <3>1. /\ pc[r] \in InFlight /\ pc' = [pc EXCEPT ![r] = "collect"]
          /\ UNCHANGED <<pendingToolCalls, resumeSeeded, resumes, seeds, calls, question, conversation,
                         state>>
      BY <2>5
      DEF Stops, LLMFails, At, EngineReturns, Goto, agentVars, runVars, ghosts, InFlight, Labels
    <3>2. \A q \in Runs \ {r} : Talk(q)'
      BY <1>0, <3>1, OthersListen
    <3>3. Talk(r)'
      BY <1>0, <3>1 DEF TalkInv, Talk
    <3> QED BY <1>1, <1>2, <1>3, <3>1, <3>2, <3>3
  <2>6. CASE Reason(r)
    <3>1. PICK reply \in Replies, given \in BOOLEAN :
             /\ calls' = calls + Len(reply)
             /\ conversation' = Append(conversation, Msg("assistant", NoID, CallsOf(reply, given)))
             /\ NodeReturns(r, [state[r] EXCEPT !.pending = CallsOf(reply, given)])
      BY <2>6 DEF Reason
    <3> DEFINE cs == CallsOf(reply, given)
               m == Msg("assistant", NoID, cs)
    <3>2. /\ pc[r] \in InFlight
          /\ UNCHANGED <<pendingToolCalls, resumeSeeded, resumes, seeds, question>>
      BY <2>6 DEF Reason, At, agentVars, InFlight, Labels
    <3>3. cs \in Seq(ToolCalls) /\ calls' \in Nat /\ m \in Messages
      BY <3>1, ReplyIs DEF TalkInv
    <3>4. m.role = "assistant" /\ m.calls = cs
      BY DEF Msg
    <3> HIDE DEF cs, m
    <3>5. Sound /\ Last(conversation') = m
      <4>1. conversation' = Append(conversation, m) /\ m.role # "tool"
        BY <3>1, <3>4 DEF cs, m
      <4> QED BY <3>3, <4>1, AppendKeeps DEF TalkInv
    <3>6. [state[r] EXCEPT !.pending = cs].pending = cs
      BY <1>0, PendingIs
    <3>7. \A q \in Runs : Talk(q)'
      <4>1. NodeReturns(r, [state[r] EXCEPT !.pending = cs])
        BY <3>1 DEF cs
      <4> QED BY <3>2, <3>3, <3>4, <3>5, <3>6, <4>1, NodeTalks
    <3>8. question' \in [Runs -> BOOLEAN]
      BY <3>2 DEF TalkInv
    <3> QED BY <1>1, <3>2, <3>3, <3>5, <3>7, <3>8
  <2>7. CASE ActInterrupts(r)
    <3>1. /\ pc[r] \in InFlight /\ node[r] # "reason"
          /\ NodeReturns(r, [state[r] EXCEPT !.interrupt = TRUE])
          /\ UNCHANGED <<pendingToolCalls, resumeSeeded, resumes, seeds, calls, question, conversation>>
      BY <2>7 DEF ActInterrupts, At, agentVars, ghosts, InFlight, Labels
    <3>2. [state[r] EXCEPT !.interrupt = TRUE].pending \in Seq(ToolCalls)
      BY <1>0, PendingKept DEF TalkInv, Talk
    <3>3. \A q \in Runs : Talk(q)'
      BY <3>1, <3>2, NodeTalks
    <3> QED BY <1>1, <1>2, <1>3, <3>1, <3>3
  <2>8. CASE ActRunsTools(r)
    <3>1. /\ pc[r] = "node" /\ node[r] = "act" /\ pc[r] \in InFlight /\ state[r].pending # <<>>
          /\ state' = [state EXCEPT ![r] = [state[r] EXCEPT !.done = {}]]
          /\ pc' = [pc EXCEPT ![r] = "tools"]
          /\ UNCHANGED <<pendingToolCalls, resumeSeeded, resumes, seeds, calls, question, conversation>>
      BY <2>8 DEF ActRunsTools, At, Goto, agentVars, ghosts, InFlight, Labels
    <3>2. state'[r].pending = state[r].pending
      BY <1>0, <3>1, DoneIs
    <3>3. \A q \in Runs \ {r} : Talk(q)'
      BY <1>0, <3>1, OthersListen
    <3>4. Talk(r)'
      BY <1>0, <3>1, <3>2 DEF TalkInv, Talk
    <3> QED BY <1>1, <1>2, <1>3, <3>1, <3>3, <3>4
  <2>9. ASSUME NEW i \in 1 .. MaxCalls, ToolReturns(r, i) PROVE TalkInv'
    <3>1. /\ pc[r] = "tools" /\ pc[r] \in InFlight
          /\ state' = [state EXCEPT ![r] = [state[r] EXCEPT !.done = state[r].done \cup {i}]]
          /\ UNCHANGED <<pendingToolCalls, resumeSeeded, resumes, seeds, calls, question, conversation,
                         pc>>
      BY <2>9 DEF ToolReturns, agentVars, InFlight, Labels
    <3>2. state'[r].pending = state[r].pending
      BY <1>0, <3>1, DoneIs
    <3>3. \A q \in Runs \ {r} : Talk(q)'
      BY <1>0, <3>1, OthersListen
    <3>4. Talk(r)'
      BY <1>0, <3>1, <3>2 DEF TalkInv, Talk
    <3> QED BY <1>1, <1>2, <1>3, <3>1, <3>3, <3>4
  <2>10. CASE ActAnswers(r)
    <3> DEFINE ps == state[r].pending
               cs == [i \in DOMAIN ps |-> IF ps[i].id = NoID THEN [ps[i] EXCEPT !.id = ps[i].key]
                                                             ELSE ps[i]]
    <3>1. /\ pc[r] = "tools" /\ pc[r] \in InFlight
          /\ conversation' = WithAnswers(conversation, cs)
          /\ NodeReturns(r, [state[r] EXCEPT !.pending = cs, !.answered = TRUE])
          /\ UNCHANGED <<pendingToolCalls, resumeSeeded, resumes, seeds, calls, question>>
      BY <2>10 DEF ActAnswers, agentVars, ghosts, InFlight, Labels
    <3>2. node[r] # "reason"
      BY <3>1 DEF BudgetInv, Place
    <3>3. /\ ps \in Seq(ToolCalls) /\ ps # <<>>
          /\ \/ conversation = <<>>
             \/ Last(conversation).role = "assistant" /\ Last(conversation).calls = ps
      BY <3>1 DEF TalkInv, Talk
    <3> HIDE DEF ps
    <3>4. /\ DOMAIN ps = 1 .. Len(ps) /\ Len(ps) \in Nat
          /\ \A i \in 1 .. Len(ps) : ps[i] \in ToolCalls
      BY <3>3, LenProperties, ElementOfSeq
    <3>5. \A i \in 1 .. Len(ps) : cs[i] \in ToolCalls /\ cs[i].id # NoID
      BY <3>4 DEF ToolCalls, NoID
    <3>6. cs = [i \in 1 .. Len(ps) |-> cs[i]]
      BY <3>4
    <3> HIDE DEF cs
    <3>7. cs \in Seq(ToolCalls) /\ Len(cs) = Len(ps) /\ DOMAIN cs = 1 .. Len(ps)
      <4>1. cs \in [1 .. Len(ps) -> ToolCalls]
        BY <3>5, <3>6
      <4> QED BY <3>4, <4>1, LenProperties
    <3>8. Sound
      <4>1. conversation = <<>> \/ (Asks(Last(conversation)) /\ Len(cs) = Len(Last(conversation).calls))
        BY <3>3, <3>7 DEF Asks
      <4>2. \A i \in DOMAIN cs : cs[i].id # NoID
        BY <3>5, <3>7
      <4> QED BY <3>1, <3>7, <4>1, <4>2, AnsweringKeeps DEF TalkInv
    <3>9. [state[r] EXCEPT !.pending = cs, !.answered = TRUE].pending \in Seq(ToolCalls)
      BY <1>0, <3>7, PendingKept
    <3>10. \A q \in Runs : Talk(q)'
      BY <3>1, <3>2, <3>9, NodeTalks
    <3> QED BY <1>1, <1>3, <3>1, <3>8, <3>10
  <2>11. CASE Observe(r)
    <3>1. /\ pc[r] \in InFlight /\ node[r] # "reason" /\ NodeReturns(r, NextRound(state[r]))
          /\ conversation' = IF state[r].answered THEN conversation
                             ELSE Append(conversation, Msg("user", NoID, <<>>))
          /\ UNCHANGED <<pendingToolCalls, resumeSeeded, resumes, seeds, calls, question>>
      BY <2>11 DEF Observe, At, agentVars, ghosts, InFlight, Labels
    <3>2. Msg("user", NoID, <<>>) \in Messages /\ Msg("user", NoID, <<>>).role # "tool"
      BY EmptySeq DEF Msg, Messages, NoID
    <3>3. Sound
      BY <3>1, <3>2, AppendKeeps DEF TalkInv
    <3>4. NextRound(state[r]).pending \in Seq(ToolCalls)
      BY <1>0, PendingKept DEF TalkInv, Talk
    <3>5. \A q \in Runs : Talk(q)'
      BY <3>1, <3>4, NodeTalks
    <3> QED BY <1>1, <1>3, <3>1, <3>3, <3>5
  <2>12. CASE Finalize(r)
    <3>1. PICK reply \in Replies, given \in BOOLEAN :
             /\ calls' = calls + Len(reply)
             /\ conversation' = Append(conversation, Msg("assistant", NoID, CallsOf(reply, given)))
             /\ NodeReturns(r, state[r])
      BY <2>12 DEF Finalize
    <3> DEFINE m == Msg("assistant", NoID, CallsOf(reply, given))
    <3>2. /\ pc[r] \in InFlight /\ node[r] # "reason"
          /\ UNCHANGED <<pendingToolCalls, resumeSeeded, resumes, seeds, question>>
      BY <2>12 DEF Finalize, At, agentVars, InFlight, Labels
    <3>3. calls' \in Nat /\ m \in Messages /\ m.role # "tool"
      <4>1. calls' \in Nat /\ m \in Messages
        BY <3>1, ReplyIs DEF TalkInv
      <4>2. m.role = "assistant"
        BY DEF Msg
      <4> QED BY <4>1, <4>2
    <3> HIDE DEF m
    <3>4. Sound
      <4>1. conversation' = Append(conversation, m)
        BY <3>1 DEF m
      <4> QED BY <3>3, <4>1, AppendKeeps DEF TalkInv
    <3>5. \A q \in Runs : Talk(q)'
      BY <3>1, <3>2, NodeTalks DEF TalkInv, Talk
    <3>6. question' \in [Runs -> BOOLEAN]
      BY <3>2 DEF TalkInv
    <3> QED BY <1>1, <3>2, <3>3, <3>4, <3>5, <3>6
  <2> QED
    BY <1>6, <2>1, <2>2, <2>3, <2>4, <2>5, <2>6, <2>7, <2>8, <2>9, <2>10, <2>11, <2>12 DEF Run
<1>7. CASE SeedResumeState
  <2>1. /\ pendingToolCalls' = LeftOpen /\ resumeSeeded' = TRUE /\ seeds' = seeds + 1
        /\ conversation # <<>>
        /\ UNCHANGED <<conversation, pc, node, state, path, question, calls, resumes>>
    BY <1>7 DEF SeedResumeState, runVars
  <2>2. LeftOpen \in Seq(ToolCalls)
    BY <2>1, LeftOpenIs
  <2>3. seeds' \in Nat /\ Seeded'
    BY <2>1 DEF TalkInv, Seeded
  <2>4. \A q \in Runs : Talk(q)'
    BY <2>1 DEF TalkInv, Talk
  <2> QED BY <2>1, <2>2, <2>3, <2>4 DEF TalkInv
<1>8. CASE ClearConversation
  <2>1. /\ conversation' = <<>>
        /\ question' = [r \in Runs |-> question[r] /\ pc[r] \in {"before", "prepare"}]
        /\ UNCHANGED <<pendingToolCalls, resumeSeeded, resumes, seeds, calls, pc, node, state, path>>
    BY <1>8 DEF ClearConversation, agentVars, ghosts
  <2>2. Sound
    <3>1. <<>> \in Seq(Messages) /\ AnswersBelong(<<>>)
      BY EmptySeq DEF AnswersBelong
    <3> QED BY <2>1, <3>1
  <2>3. question' \in [Runs -> BOOLEAN]
    BY <2>1
  <2>4. \A q \in Runs : Talk(q)'
    BY <2>1 DEF TalkInv, Talk
  <2> QED BY <1>1, <2>1, <2>2, <2>3, <2>4 DEF TalkInv
<1>9. CASE CloseGraph
  BY <1>9 DEF CloseGraph, TalkInv, Talk, Seeded, agentVars, runVars, ghosts
<1> QED BY <1>4, <1>5, <1>6, <1>7, <1>8, <1>9 DEF Next

(* Whatever an earlier turn left open - calls without answers, answers cut *)
(* from their calls by a summary or a cleared conversation - and whoever   *)
(* seeds between the turns: a request answers each call where it was made, *)
(* the first request of a turn ends with what its caller asked, and a seed *)
(* serves one run. Any number of turns, calls and messages.                *)
THEOREM RequestsArePaired == Spec => []RequestsAreSound
<1>1. Init => TalkInv
  <2> SUFFICES ASSUME Init PROVE TalkInv
    OBVIOUS
  <2>1. <<>> \in Seq(Messages) /\ <<>> \in Seq(ToolCalls) /\ AnswersBelong(<<>>)
    BY EmptySeq DEF AnswersBelong
  <2>2. \A r \in Runs : Talk(r)
    BY <2>1 DEF Init, Talk, NewState
  <2>3. resumes \in Nat /\ seeds \in Nat /\ resumes + 0 <= seeds /\ resumeSeeded = FALSE
    BY DEF Init
  <2>4. Seeded
    BY <2>3 DEF Seeded
  <2> QED BY <2>1, <2>2, <2>3, <2>4 DEF Init, TalkInv
<1>2. TalkInv /\ BusyInv /\ BudgetInv /\ [Next]_vars => TalkInv'
  BY AgentAssumption, TalkStep
<1>3. TalkInv => RequestsAreSound
  <2> SUFFICES ASSUME TalkInv PROVE RequestsAreSound
    OBVIOUS
  <2>1. RequestsPaired
    BY SanitizedIsPaired DEF TalkInv, RequestsPaired
  <2>2. resumes <= seeds
    BY DEF TalkInv, Seeded
  <2>3. ASSUME NEW r \in Runs, At(r, "reason"), path[r] = <<>>, question[r]
        PROVE  LET request == SanitizeToolPairing(conversation)
               IN  request[Len(request)] = Msg("user", r, <<>>)
    <3>1. conversation # <<>> /\ Last(conversation) = Msg("user", r, <<>>)
      BY <2>3 DEF TalkInv, Talk, At
    <3>2. conversation[Len(conversation)].role = "user"
      BY <3>1 DEF Msg, Last
    <3> QED BY <3>1, <3>2, RequestEnds DEF TalkInv, Last
  <2> QED BY <2>1, <2>2, <2>3 DEF RequestsAreSound
<1> QED BY <1>1, <1>2, <1>3, BusyHolds, BudgetHolds, PTL DEF Spec

-----------------------------------------------------------------------------
(* What is put before people is decided once. *)

DecisionsInv ==
    /\ asked \in Seq(Calls)
    /\ resumed \in Seq([id : DOMAIN asked, decisions : Seq(Decisions)])
    /\ cleared \subseteq DOMAIN asked
    /\ DOMAIN interrupts \subseteq DOMAIN asked
    /\ \A id \in DOMAIN interrupts : interrupts[id] = asked[id]
    /\ DecidedOnce

(* One allowed decision for each call. *)
Granted(decisions, interrupt) ==
    /\ Len(decisions) = Len(interrupt.calls)
    /\ \A k \in DOMAIN interrupt.calls :
          decisions[k].type \in AllowedActions(interrupt, interrupt.calls[k])

(* A finished decision names an interrupt that was asked. *)
LEMMA ResumedWasAsked ==
    ASSUME DecisionsInv, NEW i \in DOMAIN resumed
    PROVE  resumed[i].id \in DOMAIN asked /\ resumed[i].decisions \in Seq(Decisions)
<1> DEFINE S == [id : DOMAIN asked, decisions : Seq(Decisions)]
<1>1. resumed \in Seq(S) /\ i \in 1 .. Len(resumed)
  BY LenProperties DEF DecisionsInv
<1>2. resumed[i] \in S
  BY <1>1, ElementOfSeq
<1> QED BY <1>2

(* One more interrupt: its ID is new to everything there is. *)
LEMMA OneMoreAsked ==
    ASSUME DecisionsInv, NEW id, id = Len(asked) + 1, NEW interrupt \in Calls,
           asked' = Append(asked, interrupt),
           interrupts' = [i \in DOMAIN interrupts \union {id} |->
                             IF i = id THEN interrupt ELSE interrupts[i]],
           UNCHANGED <<resumed, cleared>>
    PROVE  DecisionsInv'
<1>1. /\ Len(asked) \in Nat /\ DOMAIN asked = 1 .. Len(asked) /\ DOMAIN asked' = 1 .. id
      /\ asked' \in Seq(Calls) /\ asked'[id] = interrupt /\ \A k \in DOMAIN asked : asked'[k] = asked[k]
  BY LenProperties, AppendProperties DEF DecisionsInv
<1>2. id \notin DOMAIN asked /\ DOMAIN asked' = DOMAIN asked \cup {id}
  BY <1>1
<1>3. resumed' \in Seq([id : DOMAIN asked', decisions : Seq(Decisions)])
  <2> DEFINE S == [id : DOMAIN asked, decisions : Seq(Decisions)]
             T == [id : DOMAIN asked', decisions : Seq(Decisions)]
  <2>1. S \subseteq T
    BY <1>2
  <2>2. resumed \in Seq(S)
    BY DEF DecisionsInv
  <2> HIDE DEF S, T
  <2>3. resumed \in Seq(T)
    BY <2>1, <2>2, SeqMonotonic
  <2> QED BY <2>3 DEF T
<1>4. \A i \in DOMAIN resumed : resumed[i].id \in DOMAIN asked /\ asked'[resumed[i].id] = asked[resumed[i].id]
  BY <1>1, ResumedWasAsked
<1>5. DecidedOnce'
  <2>1. \A i \in DOMAIN resumed : resumed[i].id # id
    BY <1>2, <1>4
  <2>2. id \notin cleared
    BY <1>2 DEF DecisionsInv
  <2>3. (\A k \in DOMAIN asked :
          \/ k \in DOMAIN interrupts /\ interrupts[k] = asked[k]
          \/ k \in cleared \/ \E i \in DOMAIN resumed : resumed[i].id = k)'
    BY <1>1, <1>2 DEF DecisionsInv, DecidedOnce
  <2>4. (DOMAIN interrupts \intersect (cleared \union {resumed[i].id : i \in DOMAIN resumed}) = {})'
    BY <2>1, <2>2 DEF DecisionsInv, DecidedOnce
  <2>5. (\A i, j \in DOMAIN resumed : resumed[i].id = resumed[j].id => i = j)'
    BY DEF DecisionsInv, DecidedOnce
  <2>6. (\A i \in DOMAIN resumed : Granted(resumed[i].decisions, asked[resumed[i].id]))'
    BY ZenonT(40), <1>4 DEF DecisionsInv, DecidedOnce, Granted, AllowedActions
  <2> QED BY <2>3, <2>4, <2>5, <2>6 DEF DecidedOnce, Granted, AllowedActions
<1> QED BY <1>1, <1>2, <1>3, <1>5 DEF DecisionsInv

(* An accepted decision takes its interrupt from those pending. *)
LEMMA OneDecided ==
    ASSUME DecisionsAssumption, DecisionsInv, NEW id \in DOMAIN interrupts, NEW n \in 1 .. 2,
           NEW decisions \in [1 .. n -> Decisions],
           ValidateResumeCommand(decisions, interrupts[id]),
           resumed' = Append(resumed, [id |-> id, decisions |-> decisions]),
           interrupts' = [i \in DOMAIN interrupts \ {id} |-> interrupts[i]],
           UNCHANGED <<asked, cleared>>
    PROVE  DecisionsInv'
<1> DEFINE S == [id : DOMAIN asked, decisions : Seq(Decisions)]
           last == [id |-> id, decisions |-> decisions]
           m == Len(resumed)
           interrupt == asked[id]
<1>1. id \in DOMAIN asked /\ interrupts[id] = interrupt /\ interrupt \in Calls
  BY ElementOfSeq, LenProperties DEF DecisionsInv
<1>2. decisions \in Seq(Decisions) /\ DOMAIN decisions = 1 .. n /\ Len(decisions) = n
  BY IsASeq
<1>3. /\ m \in Nat /\ DOMAIN resumed = 1 .. m /\ DOMAIN resumed' = 1 .. (m + 1)
      /\ resumed' \in Seq(S) /\ resumed'[m + 1] = last
      /\ \A k \in 1 .. m : resumed'[k] = resumed[k]
  <2>1. resumed \in Seq(S) /\ last \in S /\ resumed' = Append(resumed, last)
    BY <1>1, <1>2 DEF DecisionsInv
  <2> HIDE DEF S, last
  <2> QED BY <2>1, LenProperties, AppendProperties
<1>4. \A i \in DOMAIN resumed : resumed[i].id # id
  BY SMTT(20) DEF DecisionsInv, DecidedOnce
<1>5. Granted(decisions, interrupt)
  <2>1. Len(decisions) = Len(interrupt.calls)
    BY <1>1 DEF ValidateResumeCommand
  <2>2. DOMAIN interrupt.calls = DOMAIN decisions
    BY <1>1, <1>2, <2>1, LenProperties DEF DecisionsAssumption
  <2>3. \A k \in DOMAIN decisions : ValidateDecision(decisions[k], AllowedActions(interrupt, interrupt.calls[k]))
    BY <1>1 DEF ValidateResumeCommand
  <2> QED BY <2>1, <2>2, <2>3 DEF ValidateDecision, Granted
<1>6. (\A i, j \in DOMAIN resumed : resumed[i].id = resumed[j].id => i = j)'
  <2>1. \A i, j \in 1 .. m : resumed[i].id = resumed[j].id => i = j
    BY <1>3 DEF DecisionsInv, DecidedOnce
  <2>2. \A i \in 1 .. m : resumed'[i].id # id
    BY <1>3, <1>4
  <2>3. resumed'[m + 1].id = id
    BY <1>3
  <2>4. \A i \in 1 .. (m + 1) : i \in 1 .. m \/ i = m + 1
    BY <1>3
  <2> HIDE DEF m
  <2> QED BY SMTT(20), <1>3, <2>1, <2>2, <2>3, <2>4
<1>7. (\A i \in DOMAIN resumed : Granted(resumed[i].decisions, asked[resumed[i].id]))'
  <2>1. \A i \in 1 .. m : Granted(resumed[i].decisions, asked[resumed[i].id])
    BY <1>3 DEF DecisionsInv, DecidedOnce, Granted, AllowedActions
  <2>2. \A i \in 1 .. (m + 1) : i \in 1 .. m \/ i = m + 1
    BY <1>3
  <2>3. Granted(resumed'[m + 1].decisions, asked'[resumed'[m + 1].id])
    BY <1>3, <1>5
  <2> HIDE DEF m
  <2> QED BY <1>3, <2>1, <2>2, <2>3
<1>8. (\A k \in DOMAIN asked :
          \/ k \in DOMAIN interrupts /\ interrupts[k] = asked[k]
          \/ k \in cleared \/ \E i \in DOMAIN resumed : resumed[i].id = k)'
  <2>1. ASSUME NEW k \in DOMAIN asked, k # id
        PROVE  \/ k \in DOMAIN interrupts' /\ interrupts'[k] = asked[k]
               \/ k \in cleared \/ \E i \in 1 .. (m + 1) : resumed'[i].id = k
    <3>1. CASE \E i \in 1 .. m : resumed[i].id = k
      BY <1>3, <3>1
    <3>2. CASE ~\E i \in 1 .. m : resumed[i].id = k
      BY <1>3, <2>1, <3>2 DEF DecisionsInv, DecidedOnce
    <3> QED BY <3>1, <3>2
  <2>2. \E i \in 1 .. (m + 1) : resumed'[i].id = id
    BY <1>3
  <2> HIDE DEF m
  <2> QED BY <1>3, <2>1, <2>2
<1>9. (DOMAIN interrupts \intersect (cleared \union {resumed[i].id : i \in DOMAIN resumed}) = {})'
  BY SMTT(20), <1>3 DEF DecisionsInv, DecidedOnce
<1>10. DecidedOnce'
  BY <1>6, <1>7, <1>8, <1>9 DEF DecidedOnce, Granted, AllowedActions
<1> QED BY <1>3, <1>10 DEF DecisionsInv

LEMMA DecisionsStep == DecisionsInv /\ [DecisionsNext]_decisionVars => DecisionsInv'
<1> SUFFICES ASSUME DecisionsInv, [DecisionsNext]_decisionVars PROVE DecisionsInv'
  OBVIOUS
<1>1. CASE UNCHANGED <<interrupts, asked, resumed, cleared>>
  BY <1>1 DEF DecisionsInv, DecidedOnce
<1>2. ASSUME NEW p \in People, Interrupt(p) PROVE DecisionsInv'
  BY <1>1, <1>2, OneMoreAsked DEF Interrupt
<1>3. ASSUME NEW p \in People, Resume(p) PROVE DecisionsInv'
  <2>0. PICK n \in 1 .. 2 : \E decisions \in [1 .. n -> Decisions] :
           LET id == person[p].id IN
           IF id \notin DOMAIN interrupts THEN UNCHANGED <<interrupts, resumed>>
           ELSE /\ interrupts' = Remaining(id, decisions)
                /\ resumed' = IF ValidateResumeCommand(decisions, interrupts[id])
                              THEN Append(resumed, [id |-> id, decisions |-> decisions]) ELSE resumed
    BY <1>3 DEF Resume
  <2>1. PICK decisions \in [1 .. n -> Decisions] :
           LET id == person[p].id IN
           IF id \notin DOMAIN interrupts THEN UNCHANGED <<interrupts, resumed>>
           ELSE /\ interrupts' = Remaining(id, decisions)
                /\ resumed' = IF ValidateResumeCommand(decisions, interrupts[id])
                              THEN Append(resumed, [id |-> id, decisions |-> decisions]) ELSE resumed
    BY <2>0
  <2>2. UNCHANGED <<asked, cleared>>
    BY <1>3 DEF Resume
  <2> DEFINE id == person[p].id
  <2>3. CASE id \in DOMAIN interrupts /\ ValidateResumeCommand(decisions, interrupts[id])
    BY <2>1, <2>2, <2>3, OneDecided, DecisionsAssumption DEF Remaining
  <2>4. CASE ~(id \in DOMAIN interrupts /\ ValidateResumeCommand(decisions, interrupts[id]))
    BY <1>1, <2>1, <2>2, <2>4 DEF Remaining
  <2> QED BY <2>3, <2>4
<1>4. CASE Clear
  <2>1. /\ cleared' = cleared \union DOMAIN interrupts /\ DOMAIN interrupts' = {}
        /\ UNCHANGED <<asked, resumed>>
    BY <1>4 DEF Clear
  <2> QED BY <2>1 DEF DecisionsInv, DecidedOnce
<1> QED
  BY <1>1, <1>2, <1>3, <1>4 DEF DecisionsNext, decisionVars, SetInterruptCallback, Notify, StartCallback, GetPending

(* However many people look at one interrupt, however their looks, their   *)
(* decisions and the clearing of the list interleave: it is decided once.  *)
THEOREM OneDecisionEach == DecisionsSpec => []DecidedOnce
<1>1. DecisionsInit => DecisionsInv
  <2> SUFFICES ASSUME DecisionsInit PROVE DecisionsInv
    OBVIOUS
  <2>1. asked \in Seq(Calls) /\ resumed \in Seq([id : DOMAIN asked, decisions : Seq(Decisions)])
    BY EmptySeq DEF DecisionsInit
  <2>2. DOMAIN asked = {} /\ DOMAIN resumed = {} /\ DOMAIN interrupts = {} /\ cleared = {}
    BY DEF DecisionsInit
  <2> QED BY <2>1, <2>2 DEF DecisionsInv, DecidedOnce
<1>2. DecisionsInv => DecidedOnce
  BY DEF DecisionsInv
<1> QED BY <1>1, <1>2, DecisionsStep, PTL DEF DecisionsSpec
==============================================================================
