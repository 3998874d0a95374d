--------------------------- MODULE FoundationProofs ---------------------------
(* What holds of the parts runs are made of, on every instance: the graphs   *)
(* that can be built and every walk on them; the states a run shares with    *)
(* its caller; graphs nested in one another; a counted loop; the pools and   *)
(* the rows of a database; the attempts of a provider's call; the registry   *)
(* of providers; the shortcuts of the builder; branches run side by side.    *)
EXTENDS GraphBuilder, SuperStep, StateSharing, GraphNesting, Routers, DatabaseService, ProviderCall,
        RoutingProofs, SequenceTheorems, FiniteSetTheorems, TLAPS

-------------------------------------------------------------------------------
(* Building and walking a graph.                                             *)
Targets == Names \cup {NoName, START, END}

GraphTyped ==
    /\ graph \in [nodes  : SUBSET Names,
                  start  : Names \cup {NoName},
                  ends   : SUBSET Names,
                  edges  : Seq([from : Targets, to : Targets, cond : BOOLEAN]),
                  tables : UNION {[D -> Tables] : D \in SUBSET Names},
                  broken : BOOLEAN]
    /\ \A n \in DOMAIN graph.tables : \A k \in DOMAIN graph.tables[n] :
          graph.tables[n][k] \in Targets

(* Nothing is ever removed while the graph is built, and nothing changes   *)
(* while it is walked; so what Validate saw when the walk began still      *)
(* holds wherever the walk stands.                                         *)
WalkInv ==
    /\ phase # "building" => Valid(graph)
    /\ phase = "building" => why = "none"
    /\ phase = "walking" /\ Untabled(graph) = {} => at \in graph.nodes
    /\ phase = "walking" => why = "none"
    /\ why = "missing" => Untabled(graph) # {}

BuilderInv == GraphTyped /\ WalkInv

LEMMA BuilderInit == Init => BuilderInv
<1> SUFFICES ASSUME Init PROVE BuilderInv
  OBVIOUS
<1>1. [n \in {} |-> {}] \in [{} -> Tables]
  OBVIOUS
<1>2. GraphTyped
  BY <1>1 DEF Init, NewGraph, GraphTyped
<1>3. WalkInv
  BY DEF Init, WalkInv
<1> QED
  BY <1>2, <1>3 DEF BuilderInv

(* Every builder call keeps the graph well formed. *)
LEMMA BuildKeepsTyped == GraphTyped /\ Build => GraphTyped'
<1> SUFFICES ASSUME GraphTyped, Build PROVE GraphTyped'
  OBVIOUS
<1>1. CASE \E id \in Names, f \in BOOLEAN : AddNode(id, f)
  <2>1. PICK id \in Names, f \in BOOLEAN : AddNode(id, f)
    BY <1>1
  <2> DEFINE bad == graph.broken \/ id \in {NoName, START, END} \/ ~f \/ id \in graph.nodes
             nodes == graph.nodes \cup {id}
  <2>2. bad \in BOOLEAN /\ nodes \in SUBSET Names
    BY DEF GraphTyped
  <2>3. graph' = [graph EXCEPT !.nodes = nodes, !.broken = bad]
    BY <2>1, Zenon DEF AddNode
  <2> HIDE DEF bad, nodes
  <2> QED
    BY <2>2, <2>3 DEF GraphTyped
<1>2. CASE \E from \in Names \ {END}, to \in Names, c \in BOOLEAN : AddEdge(from, to, c)
  <2>1. PICK from \in Names, to \in Names, c \in BOOLEAN : AddEdge(from, to, c)
    BY <1>2
  <2>2. Edge(from, to, c) \in [from : Targets, to : Targets, cond : BOOLEAN]
    BY DEF Edge, Targets
  <2>3. Append(graph.edges, Edge(from, to, c)) \in Seq([from : Targets, to : Targets, cond : BOOLEAN])
    BY <2>2 DEF GraphTyped
  <2> QED
    BY <2>1, <2>3 DEF AddEdge, GraphTyped
<1>3. CASE \E from \in Names, t \in Tables : AddConditionalEdges(from, t)
  <2>1. PICK from \in Names, t \in Tables : AddConditionalEdges(from, t)
    BY <1>3
  <2> DEFINE new == [n \in DOMAIN graph.tables \cup {from} |->
                        IF n = from THEN t ELSE graph.tables[n]]
  <2>2. PICK D \in SUBSET Names : graph.tables \in [D -> Tables]
    BY DEF GraphTyped
  <2>3. new \in [D \cup {from} -> Tables] /\ D \cup {from} \in SUBSET Names
    BY <2>2
  <2>4. \A n \in DOMAIN new : \A k \in DOMAIN new[n] : new[n][k] \in Targets
    BY <2>1, <2>2 DEF AddConditionalEdges, GraphTyped, Targets
  <2>5. graph' = [graph EXCEPT !.tables = new]
    BY <2>1 DEF AddConditionalEdges
  <2>6. new \in UNION {[E -> Tables] : E \in SUBSET Names}
    BY <2>3
  <2> HIDE DEF new
  <2> QED
    BY <2>4, <2>5, <2>6 DEF GraphTyped
<1>4. CASE \E id \in Names : SetStartNode(id) \/ AddEndNode(id)
  BY <1>4 DEF SetStartNode, AddEndNode, GraphTyped
<1> QED
  BY <1>1, <1>2, <1>3, <1>4 DEF Build

LEMMA BuilderStep == BuilderInv /\ [Next]_vars => BuilderInv'
<1> SUFFICES ASSUME BuilderInv, [Next]_vars PROVE BuilderInv'
  OBVIOUS
<1> USE DEF BuilderInv
<1>1. CASE Build
  <2>1. phase = "building" /\ UNCHANGED walk
    BY <1>1 DEF Build, Building, AddNode, AddEdge, AddConditionalEdges, SetStartNode, AddEndNode
  <2>2. WalkInv'
    BY <2>1 DEF WalkInv, walk
  <2> QED
    BY <1>1, <2>2, BuildKeepsTyped
<1>2. CASE Launch
  BY <1>2 DEF Launch, WalkInv, GraphTyped, Valid, Untabled
<1>3. CASE MissingNode
  BY <1>3 DEF MissingNode, Stop, WalkInv, GraphTyped, Valid, Untabled
<1>4. CASE EndNode
  BY <1>4 DEF EndNode, Stop, WalkInv, GraphTyped, Valid, Untabled
<1>5. ASSUME NEW ask \in Answers(graph, Names), Hop(ask) PROVE BuilderInv'
  <2> DEFINE next == RouteFrom(graph, at, ask)
  <2>1. at \in graph.nodes /\ phase = "walking" /\ Valid(graph) /\ why = "none"
    BY <1>5 DEF Hop, WalkInv
  <2>2. next.err \in {"none", "condition", "noRoute"}
    <3>1. GraphShape(graph, Targets)
      BY DEF GraphTyped, GraphShape
    <3>2. next = RouteByTable(graph.tables[at], ask[0]) \/ next = RouteByEdges(graph, at, ask)
      BY Zenon DEF RouteFrom
    <3>3. RouteByEdges(graph, at, ask).err \in {"none", "condition", "noRoute"}
      <4>1. DOMAIN graph.edges \in SUBSET Nat
        BY <3>1 DEF GraphShape
      <4>2. \/ RouteByEdges(graph, at, ask) \in
                 {Route(NoName), RouteErr("condition"), RouteErr("noRoute")}
            \/ \E i \in Outgoing(graph, at) :
                 RouteByEdges(graph, at, ask) = Route(graph.edges[i].to)
        BY <4>1, EdgeRouteTakesEdge, Zenon
      <4> QED
        BY <4>2 DEF Route, RouteErr
    <3>4. RouteByTable(graph.tables[at], ask[0]).err \in {"none", "condition", "noRoute"}
      BY DEF RouteByTable, Route, RouteErr
    <3> QED
      BY <3>2, <3>3, <3>4
  <2>3. CASE next.err # "none"
    BY <1>5, <2>1, <2>2, <2>3 DEF Hop, Stop, WalkInv, GraphTyped, Valid, Untabled
  <2>4. CASE next.err = "none" /\ Terminal(next.to)
    BY <1>5, <2>1, <2>4 DEF Hop, Stop, WalkInv, GraphTyped, Valid, Untabled
  <2>5. CASE next.err = "none" /\ ~Terminal(next.to)
    <3>1. at' = next.to /\ UNCHANGED <<graph, phase, why>>
      BY <1>5, <2>5 DEF Hop
    <3>2. ASSUME Untabled(graph) = {} PROVE next.to \in graph.nodes
      <4>1. GraphShape(graph, Targets)
        BY DEF GraphTyped, GraphShape
      <4>2. at \in DOMAIN graph.tables => DOMAIN graph.tables[at] # {}
        BY <3>2 DEF Untabled
      <4> QED
        BY <2>1, <2>5, <4>1, <4>2, ValidRoutesStayInside
    <3>3. Untabled(graph)' = Untabled(graph)
      BY <3>1 DEF Untabled
    <3> QED
      BY <2>1, <3>1, <3>2, <3>3 DEF WalkInv, GraphTyped, Valid
  <2> QED
    BY <2>3, <2>4, <2>5
<1>6. CASE UNCHANGED vars
  BY <1>6 DEF vars, WalkInv, GraphTyped, Valid, Untabled
<1> QED
  BY <1>1, <1>2, <1>3, <1>4, <1>5, <1>6 DEF Next

(* Whatever is built, in whatever order, out of any number of nodes, edges *)
(* and route tables: a walk on a graph that Validate accepted reaches a    *)
(* node that does not exist only through a condition without a table.      *)
THEOREM NeverLost == Spec => []ValidGraphNeverLost
<1>1. BuilderInv => ValidGraphNeverLost
  BY DEF BuilderInv, WalkInv, ValidGraphNeverLost
<1> QED
  BY BuilderInit, BuilderStep, <1>1, PTL DEF Spec

(* What routeFrom answers on edges, case by case: an error of a condition   *)
(* or an edge decided by its own, the first that was; or a plain edge where *)
(* no condition spoke up; or nothing, where there is no plain edge.         *)
LEMMA EdgesInOrder ==
    ASSUME NEW g, DOMAIN g.edges \in SUBSET Nat, NEW n, NEW ask
    PROVE  LET next == RouteByEdges(g, n, ask)
               ways == Outgoing(g, n)
               accepted == {i \in ways : g.edges[i].cond /\ ask[i] = g.edges[i].to}
               failed == {i \in ways : g.edges[i].cond /\ ask[i] = Failure}
           IN  /\ next.err = "noRoute" => \A i \in ways : g.edges[i].cond
               /\ next.err = "none" /\ next.to # NoName =>
                     \E i \in ways :
                        /\ next.to = g.edges[i].to
                        /\ g.edges[i].cond =>
                             i \in accepted /\ \A j \in accepted \cup failed : i <= j
<1> DEFINE next == RouteByEdges(g, n, ask)
           ways == Outgoing(g, n)
           plain == {i \in ways : ~g.edges[i].cond}
           decided == {i \in ways \ plain : ask[i] \in {Failure, g.edges[i].to}}
           accepted == {i \in ways : g.edges[i].cond /\ ask[i] = g.edges[i].to}
           failed == {i \in ways : g.edges[i].cond /\ ask[i] = Failure}
           Ordered == \E i \in ways :
                         /\ next.to = g.edges[i].to
                         /\ g.edges[i].cond =>
                              i \in accepted /\ \A j \in accepted \cup failed : i <= j
<1> SUFFICES /\ next.err = "noRoute" => \A i \in ways : g.edges[i].cond
             /\ next.err = "none" /\ next.to # NoName => Ordered
  BY Zenon
<1>1. decided = accepted \cup failed
  OBVIOUS
<1>2. ways \in SUBSET Nat /\ decided \in SUBSET Nat /\ plain \in SUBSET Nat
  BY DEF Outgoing
<1>3. CASE ways = {}
  <2>1. next = Route(NoName)
    BY <1>3 DEF RouteByEdges
  <2>2. next.err = "none" /\ next.to = NoName
    BY <2>1 DEF Route
  <2> HIDE DEF next, ways
  <2> QED
    BY <2>2
<1>4. CASE decided # {}
  <2>1. FirstOf(decided) \in decided /\ \A j \in decided : FirstOf(decided) <= j
    BY <1>2, <1>4, FirstOfIsFirst
  <2>2. next = IF ask[FirstOf(decided)] = Failure THEN RouteErr("condition")
               ELSE Route(g.edges[FirstOf(decided)].to)
    BY <1>4 DEF RouteByEdges
  <2>3. next.err # "noRoute"
    BY <2>2 DEF Route, RouteErr
  <2>4. ASSUME next.err = "none" PROVE /\ FirstOf(decided) \in accepted
                                       /\ next.to = g.edges[FirstOf(decided)].to
    <3>1. ask[FirstOf(decided)] # Failure
      <4>1. RouteErr("condition").err = "condition"
        BY DEF RouteErr
      <4> HIDE DEF next, decided
      <4> QED
        BY <2>2, <2>4, <4>1
    <3>2. next = Route(g.edges[FirstOf(decided)].to)
      BY <2>2, <3>1
    <3>3. next.to = g.edges[FirstOf(decided)].to
      BY <3>2 DEF Route
    <3>4. FirstOf(decided) \in ways /\ g.edges[FirstOf(decided)].cond
      BY <2>1
    <3>5. ask[FirstOf(decided)] = g.edges[FirstOf(decided)].to
      BY <2>1, <3>1
    <3> QED
      BY <3>3, <3>4, <3>5
  <2>5. FirstOf(decided) \in ways
    BY <2>1
  <2>6. \A j \in accepted \cup failed : FirstOf(decided) <= j
    BY <1>1, <2>1
  <2> HIDE DEF next, ways, accepted, failed, decided
  <2> QED
    BY <2>3, <2>4, <2>5, <2>6
<1>5. CASE ways # {} /\ decided = {} /\ plain # {}
  <2>1. FirstOf(plain) \in plain
    BY <1>2, <1>5, FirstOfIsFirst
  <2>2. next = Route(g.edges[FirstOf(plain)].to)
    BY <1>5 DEF RouteByEdges
  <2>3. next.err = "none" /\ next.to = g.edges[FirstOf(plain)].to
    BY <2>2 DEF Route
  <2>4. FirstOf(plain) \in ways /\ ~g.edges[FirstOf(plain)].cond
    BY <2>1
  <2> HIDE DEF next, ways, plain, decided, accepted, failed
  <2> QED
    BY <2>3, <2>4
<1>6. CASE ways # {} /\ decided = {} /\ plain = {}
  <2>1. next = RouteErr("noRoute")
    BY <1>6 DEF RouteByEdges
  <2> QED
    BY <1>6, <2>1 DEF RouteErr
<1> QED
  BY <1>3, <1>4, <1>5, <1>6

(* A run goes along the arrows that GetTopology draws: where the table of a *)
(* conditional edge says so, and else along an edge.                        *)
LEMMA RoutesAreDrawn ==
    ASSUME NEW g, DOMAIN g.edges \in SUBSET Nat, NEW n \in g.nodes \ Untabled(g), NEW ask,
           RouteFrom(g, n, ask).err = "none", ~Terminal(RouteFrom(g, n, ask).to)
    PROVE  RouteFrom(g, n, ask).to \in Topology(g)[n]
<1>1. CASE n \in DOMAIN g.tables
  <2>1. DOMAIN g.tables[n] # {}
    BY <1>1 DEF Untabled
  <2>2. RouteFrom(g, n, ask) = RouteByTable(g.tables[n], ask[0])
    BY <1>1 DEF RouteFrom
  <2>3. ask[0] \in DOMAIN g.tables[n] /\ RouteFrom(g, n, ask).to = g.tables[n][ask[0]]
    BY <2>1, <2>2 DEF RouteByTable, Route, RouteErr, Terminal
  <2> QED
    BY <1>1, <2>3 DEF Topology
<1>2. CASE n \notin DOMAIN g.tables
  <2>1. RouteFrom(g, n, ask) = RouteByEdges(g, n, ask)
    BY <1>2 DEF RouteFrom
  <2>2. PICK i \in Outgoing(g, n) : RouteByEdges(g, n, ask) = Route(g.edges[i].to)
    BY <2>1, EdgeRouteTakesEdge DEF Route, RouteErr, Terminal
  <2> QED
    BY <2>1, <2>2 DEF Topology, Route
<1> QED
  BY <1>1, <1>2

(* Wherever a walk stands, on any graph that can be built and whatever its  *)
(* conditions answer, edges are followed in insertion order, and every step *)
(* is an arrow of the topology, conditions without a table set aside.       *)
THEOREM OrderKept == Spec => []RoutesInOrder
<1>1. BuilderInv => RoutesInOrder
  <2> SUFFICES ASSUME BuilderInv, at \in graph.nodes \ Untabled(graph),
                      NEW ask \in Answers(graph, Names)
               PROVE  LET next == RouteFrom(graph, at, ask)
                          ways == Outgoing(graph, at)
                          accepted == {i \in ways : graph.edges[i].cond /\ ask[i] = graph.edges[i].to}
                          failed == {i \in ways : graph.edges[i].cond /\ ask[i] = Failure}
                      IN  /\ next.err = "none" /\ ~Terminal(next.to) => next.to \in Topology(graph)[at]
                          /\ at \notin DOMAIN graph.tables =>
                                /\ next.err = "noRoute" => \A i \in ways : graph.edges[i].cond
                                /\ next.err = "none" /\ next.to # NoName =>
                                      \E i \in ways :
                                         /\ next.to = graph.edges[i].to
                                         /\ graph.edges[i].cond =>
                                              i \in accepted /\ \A j \in accepted \cup failed : i <= j
    BY Zenon DEF RoutesInOrder
  <2>1. DOMAIN graph.edges \in SUBSET Nat
    BY DEF BuilderInv, GraphTyped
  <2>2. RouteFrom(graph, at, ask).err = "none" /\ ~Terminal(RouteFrom(graph, at, ask).to) =>
           RouteFrom(graph, at, ask).to \in Topology(graph)[at]
    BY <2>1, RoutesAreDrawn
  <2>3. at \notin DOMAIN graph.tables => RouteFrom(graph, at, ask) = RouteByEdges(graph, at, ask)
    BY DEF RouteFrom
  <2> QED
    BY <2>1, <2>2, <2>3, EdgesInOrder
<1> QED
  BY BuilderInit, BuilderStep, <1>1, PTL DEF Spec

-------------------------------------------------------------------------------
(* A loop that counts. What Decide answers: tools go before the counter,     *)
(* which ends the loop only as an int.                                       *)
LEMMA Decision ==
    Decide = IF RouteByToolCalls(toolCalls) = "execute_tools" THEN "node"
             ELSE IF counter.type = "int" /\ counter.v >= MaxCount THEN "done" ELSE "node"
<1> DEFINE second == RouteByCondition(Value("bool", RouteByToolCalls(toolCalls) = "execute_tools"), "node", "")
           third == RouteByCounter(counter, MaxCount, "", "done")
           answers == <<Failed, second, third>>
           useful == {i \in 1..Len(answers) : answers[i] \notin {Failed, ""}}
           first == CHOOSE i \in useful : \A j \in useful : i <= j
<1>1. RouteByMessageType(NoList) = Failed
  BY DEF RouteByMessageType, NoList, Value
<1>2. Decide = IF useful = {} THEN "node" ELSE answers[first]
  BY <1>1 DEF Decide, FirstRoute
<1>3. second = IF RouteByToolCalls(toolCalls) = "execute_tools" THEN "node" ELSE ""
  BY DEF RouteByCondition, Value
<1>4. third = IF counter.type = "int" /\ counter.v >= MaxCount THEN "done" ELSE ""
  BY DEF RouteByCounter
<1>5. Len(answers) = 3 /\ answers[1] = "error" /\ answers[2] = second /\ answers[3] = third
  BY DEF Failed
<1>6. /\ useful \subseteq {2, 3}
      /\ 2 \in useful <=> second \notin {"error", ""}
      /\ 3 \in useful <=> third \notin {"error", ""}
  <2>1. 1..Len(answers) = {1, 2, 3}
    BY <1>5
  <2> HIDE DEF answers
  <2> QED
    BY <2>1, <1>5 DEF Failed
<1> HIDE DEF answers, useful, second, third
<1>7. CASE RouteByToolCalls(toolCalls) = "execute_tools"
  <2>0. second = "node"
    BY <1>3, <1>7
  <2>1. 2 \in useful
    BY <1>6, <2>0
  <2>2. \A j \in useful : 2 <= j
    <3>1. ASSUME NEW j \in useful PROVE j = 2 \/ j = 3
      BY <1>6
    <3>2. ASSUME NEW j \in useful PROVE 2 <= j
      BY <3>1
    <3> QED
      BY <3>2
  <2>3. first \in useful /\ \A j \in useful : first <= j
    BY <2>1, <2>2
  <2> HIDE DEF first
  <2>4. first = 2
    <3>1. first = 2 \/ first = 3
      BY <1>6, <2>3
    <3>2. first <= 2
      BY <2>1, <2>3
    <3> QED
      BY <3>1, <3>2
  <2> QED
    BY <1>2, <1>5, <1>7, <2>0, <2>1, <2>4
<1>8. CASE RouteByToolCalls(toolCalls) # "execute_tools" /\ counter.type = "int" /\ counter.v >= MaxCount
  <2>1. useful = {3}
    BY <1>3, <1>4, <1>6, <1>8
  <2>2. first = 3
    BY <2>1
  <2> QED
    BY <1>2, <1>4, <1>5, <1>8, <2>1, <2>2
<1>9. CASE RouteByToolCalls(toolCalls) # "execute_tools" /\ ~(counter.type = "int" /\ counter.v >= MaxCount)
  <2>1. useful = {}
    BY <1>3, <1>4, <1>6, <1>9
  <2> QED
    BY <1>2, <1>9, <2>1
<1> QED
  BY <1>7, <1>8, <1>9

(* A counter that came back as a float64 is below the bound by the restart   *)
(* that made it one.                                                         *)
LoopInv ==
    /\ restarts \in Nat /\ ran \in Nat /\ toolRounds \in Nat
    /\ standing \in {"node", "route", "done"}
    /\ counter \in [type : {"absent", "int", "float64"}, v : Nat]
    /\ IF ran = 0 THEN standing = "node" /\ counter.v = 0 ELSE counter.type # "absent"
    /\ standing = "done" => counter.v >= MaxCount
    /\ standing = "node" /\ ran > 0 => counter.v < MaxCount + restarts + toolRounds
    /\ standing = "route" => counter.v <= MaxCount + restarts + toolRounds
    /\ standing = "route" /\ counter.type = "float64" => counter.v < MaxCount + restarts + toolRounds

LEMMA LoopKept == LoopInv /\ [LoopNext]_loopVars => LoopInv'
<1> SUFFICES ASSUME LoopInv, [LoopNext]_loopVars PROVE LoopInv'
  OBVIOUS
<1>0. MaxCount \in Nat /\ MaxCount >= 1
  BY LoopAssumption
<1>1. ASSUME NEW calls, RunNode(calls) PROVE LoopInv'
  BY <1>0, <1>1 DEF RunNode, LoopInv, Value
<1>2. CASE TakeRoute
  <2>1. standing' = Decide /\ standing = "route" /\ ran > 0
    BY <1>2 DEF TakeRoute, LoopInv
  <2>2. counter' = counter /\ restarts' = restarts /\ ran' = ran
    BY <1>2 DEF TakeRoute
  <2>3. CASE RouteByToolCalls(toolCalls) = "execute_tools"
    <3>1. toolRounds' = toolRounds + 1 /\ standing' = "node"
      BY <1>2, <2>1, <2>3, Decision DEF TakeRoute
    <3> QED
      BY <1>0, <2>1, <2>2, <3>1 DEF LoopInv
  <2>4. CASE RouteByToolCalls(toolCalls) # "execute_tools"
    <3>1. toolRounds' = toolRounds
      BY <1>2, <2>4 DEF TakeRoute, LoopInv
    <3>2. standing' = IF counter.type = "int" /\ counter.v >= MaxCount THEN "done" ELSE "node"
      BY <2>1, <2>4, Decision
    <3> QED
      BY <1>0, <2>1, <2>2, <3>1, <3>2 DEF LoopInv
  <2> QED
    BY <2>3, <2>4
<1>3. CASE Restart
  <2>1. counter' = IF counter.type = "int" THEN Value("float64", counter.v) ELSE counter
    BY <1>3 DEF Restart, JSON, LoopInv
  <2>2. counter.v \in Nat /\ counter.type \in {"int", "float64"} /\ ran > 0
    BY <1>3 DEF Restart, LoopInv
  <2>3. counter' \in [type : {"absent", "int", "float64"}, v : Nat]
    BY <2>1, <2>2 DEF LoopInv, Value
  <2>4. counter'.v = counter.v /\ counter'.type = "float64"
    BY <2>1, <2>2 DEF LoopInv, Value
  <2>5. standing' = "route" /\ restarts' = restarts + 1 /\ ran' = ran /\ toolRounds' = toolRounds /\ standing # "done"
    BY <1>3 DEF Restart
  <2>6. counter.v <= MaxCount + restarts + toolRounds
    BY <1>0, <2>2, <2>5 DEF LoopInv
  <2> QED
    BY <1>0, <2>2, <2>3, <2>4, <2>5, <2>6 DEF LoopInv
<1>4. CASE UNCHANGED loopVars
  BY <1>4 DEF loopVars, LoopInv
<1> QED
  BY <1>1, <1>2, <1>3, <1>4 DEF LoopNext

(* Any bound and any number of restarts and nodes: a loop does not end       *)
(* before the bound of RouteByCounter, and goes over it at most once for     *)
(* every restart and every round of tools.                                   *)
THEOREM LoopsAreBounded == LoopSpec => []CounterBoundsLoop
<1>1. LoopInit => LoopInv
  BY LoopAssumption DEF LoopInit, LoopInv, Absent, Value
<1>2. LoopInv => CounterBoundsLoop
  BY DEF LoopInv, CounterBoundsLoop
<1> QED
  BY <1>1, <1>2, LoopKept, PTL DEF LoopSpec

-------------------------------------------------------------------------------
(* State objects. currentState is in nobody's hands and a snapshot in those  *)
(* of its own readers; every result is in its readers' hands, and in the     *)
(* caller's when it is the last one and the run is over; the state of a run  *)
(* is in the hands of those who read its last result, if it is that object.  *)
Contents == [node : Nat, holder : Nat]

ObjectsTyped ==
    /\ heap \in Seq(Contents) /\ edits \in Nat
    /\ run \in 0..Len(heap) /\ current \in 1..Len(heap)
    /\ callers \in SUBSET (1..Len(heap)) /\ readers \in SUBSET (1..Len(heap))
    /\ history \in Seq(Nat) /\ snapshots \in Seq(Nat)
    /\ \A i \in DOMAIN history : history[i] <= Len(heap)
    /\ \A i \in DOMAIN snapshots : snapshots[i] \in 1..Len(heap)

ResultsApart ==
    /\ \A i, j \in DOMAIN history : history[i] # 0 /\ history[i] = history[j] => i = j
    /\ \A i \in DOMAIN history :
          /\ history[i] # 0 => history[i] \in readers
          /\ history[i] # 0 /\ run # 0 => history[i] \notin callers
          /\ history[i] # 0 /\ i \notin LastStateful => history[i] \notin callers /\ history[i] # run

KeptApart ==
    /\ current \notin callers /\ current \notin readers /\ current # run
    /\ \A i \in DOMAIN snapshots :
          /\ snapshots[i] \notin callers /\ snapshots[i] \notin readers
          /\ snapshots[i] # run /\ snapshots[i] # current
    /\ run # 0 => run \notin callers
    /\ run \in readers => \E i \in LastStateful : history[i] = run
    /\ ResultsApart

SharingInv == ObjectsTyped /\ KeptApart

LEMMA Cloned ==
    ASSUME ObjectsTyped, NEW o \in 1..Len(heap)
    PROVE  /\ Clone(o) \in Seq(Contents) /\ Len(Clone(o)) = Len(heap) + 1
           /\ \A j \in 1..Len(heap) : Clone(o)[j] = heap[j]
           /\ NewObject = Len(heap) + 1
<1>1. heap \in Seq(Contents) /\ heap[o] \in Contents
  BY ElementOfSeq DEF ObjectsTyped
<1> QED
  BY <1>1, AppendProperties DEF Clone, NewObject

(* A node writes to a copy of its own.                                       *)
LEMMA Attempted ==
    ASSUME ObjectsTyped, run # 0
    PROVE  LET written == [Attempt.heap EXCEPT ![Attempt.arg].node = @ + 1]
           IN  /\ written \in Seq(Contents) /\ Len(written) = Len(heap) + 1
               /\ \A j \in 1..Len(heap) : written[j] = heap[j]
               /\ Attempt.arg = Len(heap) + 1
<1> DEFINE new == Len(heap) + 1
           cell == Clone(run)[new]
           after == [cell EXCEPT !.node = @ + 1]
           written == [Attempt.heap EXCEPT ![Attempt.arg].node = @ + 1]
<1> SUFFICES /\ written \in Seq(Contents) /\ Len(written) = Len(heap) + 1
             /\ \A j \in 1..Len(heap) : written[j] = heap[j]
             /\ Attempt.arg = Len(heap) + 1
  BY Zenon
<1>1. run \in 1..Len(heap) /\ new \in 1..Len(Clone(run)) /\ heap \in Seq(Contents) /\ Len(heap) \in Nat
  <2>1. heap \in Seq(Contents) /\ Len(heap) \in Nat /\ run \in 1..Len(heap)
    BY LenProperties DEF ObjectsTyped
  <2> QED
    BY <2>1, Cloned
<1>2. Clone(run) \in Seq(Contents) /\ cell \in Contents
  <2>1. Clone(run) \in Seq(Contents)
    BY <1>1, Cloned
  <2> QED
    BY <1>1, <2>1, ElementOfSeq
<1>3. after \in Contents
  BY SMTT(20), <1>2 DEF Contents
<1>4. Attempt.heap = Clone(run) /\ Attempt.arg = new
  BY DEF Attempt, NewObject
<1>5. written = [Clone(run) EXCEPT ![new] = after]
  BY <1>4, Zenon
<1>6. /\ Len(Clone(run)) = new
      /\ \A j \in 1..Len(heap) : Clone(run)[j] = heap[j]
  BY <1>1, Cloned
<1> HIDE DEF after, written, cell
<1>7. /\ written \in Seq(Contents) /\ Len(written) = new
      /\ \A j \in 1..new : written[j] = IF j = new THEN after ELSE Clone(run)[j]
  BY <1>1, <1>2, <1>3, <1>5, <1>6, ExceptSeq
<1> QED
  BY <1>1, <1>4, <1>6, <1>7

LEMMA SnapshotAdded ==
    ASSUME ObjectsTyped, NEW o \in Nat
    PROVE  /\ AddSnapshot(o) \in Seq(Nat)
           /\ \A i \in DOMAIN AddSnapshot(o) :
                 AddSnapshot(o)[i] = o \/ \E j \in DOMAIN snapshots : AddSnapshot(o)[i] = snapshots[j]
<1> DEFINE all == Append(snapshots, o)
<1>1. snapshots \in Seq(Nat) /\ all \in Seq(Nat) /\ all # <<>> /\ Len(all) = Len(snapshots) + 1
  <2>1. snapshots \in Seq(Nat)
    BY DEF ObjectsTyped
  <2> QED
    BY <2>1, AppendProperties
<1>2. \A i \in DOMAIN all : all[i] = o \/ \E j \in DOMAIN snapshots : all[i] = snapshots[j]
  BY <1>1, AppendProperties
<1>3. Tail(all) \in Seq(Nat) /\ \A i \in DOMAIN Tail(all) : i + 1 \in DOMAIN all /\ Tail(all)[i] = all[i + 1]
  <2> HIDE DEF all
  <2> QED
    BY SMTT(20), <1>1, HeadTailProperties
<1>4. AddSnapshot(o) = all \/ AddSnapshot(o) = Tail(all)
  BY DEF AddSnapshot
<1> HIDE DEF all
<1> QED
  BY ZenonT(40), <1>1, <1>2, <1>3, <1>4

(* A result without a state leaves the last one that has one in its place.   *)
LEMMA LastAfter ==
    ASSUME history \in Seq(Nat), NEW e \in Nat, history' = Append(history, e)
    PROVE  \A i \in DOMAIN history' :
              IF e # 0 THEN i \in LastStateful' <=> i = Len(history) + 1
              ELSE history'[i] # 0 => i \in DOMAIN history /\ (i \in LastStateful' <=> i \in LastStateful)
<1>1. /\ DOMAIN history = 1..Len(history) /\ DOMAIN history' = 1..(Len(history) + 1) /\ Len(history) \in Nat
      /\ \A i \in 1..Len(history) : history'[i] = history[i]
      /\ history'[Len(history) + 1] = e
  BY AppendProperties
<1>2. CASE e # 0
  <2>1. \A j \in DOMAIN history' : j <= Len(history) + 1
    BY <1>1
  <2>2. Len(history) + 1 \in LastStateful'
    BY <1>1, <1>2, <2>1 DEF LastStateful
  <2>3. ASSUME NEW i \in LastStateful' PROVE i = Len(history) + 1
    BY <1>1, <1>2, <2>1, <2>3 DEF LastStateful
  <2> QED
    BY <1>2, <2>2, <2>3
<1>3. CASE e = 0
  <2>1. \A j \in DOMAIN history' : history'[j] # 0 => j \in DOMAIN history
    BY <1>1, <1>3
  <2>2. LastStateful' = LastStateful
    BY <1>1, <2>1 DEF LastStateful
  <2> QED
    BY <1>3, <2>1, <2>2
<1> QED
  BY <1>2, <1>3

(* A step writes to one object at most, one that is in somebody's hands, and *)
(* to none at all unless it is an edit.                                      *)
Leaves(o) ==
    /\ heap' \in Seq(Contents) /\ Len(heap') >= Len(heap)
    /\ \A p \in 1..Len(heap) : p # o => heap'[p] = heap[p]
Untouched == Leaves(0)
Reaches == \E o \in {0} \cup Handed \cup Snapshots : Leaves(o) /\ (edits' = edits => o = 0)

LEMMA ExecuteStarts ==
    ASSUME SharingInv, NEW o \in Handed, Execute(o)
    PROVE  SharingInv' /\ Untouched
<1>1. /\ heap \in Seq(Contents) /\ heap[o] \in Contents /\ Len(heap) \in Nat
      /\ callers \in SUBSET (1..Len(heap)) /\ readers \in SUBSET (1..Len(heap))
  BY ElementOfSeq, LenProperties DEF SharingInv, ObjectsTyped, Handed
<1>2. /\ <<heap[o], heap[o]>> \in Seq(Contents) /\ Len(<<heap[o], heap[o]>>) = 2
  BY <1>1
<1>3. /\ heap' \in Seq(Contents) /\ Len(heap') = Len(heap) + 2
      /\ \A j \in 1..Len(heap) : heap'[j] = heap[j]
  BY <1>1, <1>2, ConcatProperties DEF Execute
<1>4. /\ run' = Len(heap) + 2 /\ current' = Len(heap) + 1 /\ history' = <<>>
      /\ callers' = callers /\ readers' = readers /\ snapshots' = snapshots /\ edits' = edits
  BY <1>1 DEF Execute, NewObject
<1>5. history' \in Seq(Nat) /\ DOMAIN history' = {}
  BY <1>4
<1>6. \A i \in DOMAIN snapshots :
         snapshots[i] \in 1..Len(heap) /\ snapshots[i] \notin callers /\ snapshots[i] \notin readers
  BY DEF SharingInv, ObjectsTyped, KeptApart
<1>7. snapshots \in Seq(Nat) /\ edits \in Nat
  BY DEF SharingInv, ObjectsTyped
<1>8. ObjectsTyped'
  BY <1>1, <1>3, <1>4, <1>5, <1>6, <1>7 DEF ObjectsTyped
<1>9. KeptApart'
  <2>1. ResultsApart'
    BY <1>5 DEF ResultsApart
  <2>2. /\ current' \notin callers' /\ current' \notin readers' /\ current' # run'
        /\ run' \notin callers' /\ run' \notin readers'
    BY <1>1, <1>4
  <2>3. \A i \in DOMAIN snapshots' : /\ snapshots'[i] \notin callers' /\ snapshots'[i] \notin readers'
                                     /\ snapshots'[i] # run' /\ snapshots'[i] # current'
    BY <1>1, <1>4, <1>6
  <2> QED
    BY <2>1, <2>2, <2>3 DEF KeptApart
<1> QED
  BY <1>1, <1>3, <1>8, <1>9 DEF SharingInv, Untouched, Leaves

LEMMA NodeRuns ==
    ASSUME SharingInv, NEW outcome \in {"state", "nil", "error"}, NodeStep(outcome)
    PROVE  SharingInv' /\ Untouched
<1> DEFINE written == [Attempt.heap EXCEPT ![Attempt.arg].node = @ + 1]
           new == Len(heap) + 1
           after == IF outcome = "state" THEN new ELSE run
           output == IF outcome = "state" THEN new ELSE 0
<1>1. run # 0 /\ ObjectsTyped /\ KeptApart /\ ResultsApart
  BY DEF NodeStep, SharingInv, KeptApart
<1>2. /\ written \in Seq(Contents) /\ Len(written) = new /\ Attempt.arg = new
      /\ \A j \in 1..Len(heap) : written[j] = heap[j]
  BY <1>1, Attempted
<1>3. /\ heap \in Seq(Contents) /\ Len(heap) \in Nat /\ run \in 1..Len(heap) /\ current \in 1..Len(heap)
      /\ callers \in SUBSET (1..Len(heap)) /\ readers \in SUBSET (1..Len(heap))
      /\ history \in Seq(Nat) /\ snapshots \in Seq(Nat) /\ edits \in Nat
      /\ \A i \in DOMAIN history : history[i] <= Len(heap)
      /\ \A i \in DOMAIN snapshots : snapshots[i] \in 1..Len(heap)
  BY <1>1, LenProperties DEF ObjectsTyped
<1>4. /\ history' = Append(history, output) /\ snapshots' = snapshots /\ edits' = edits
      /\ readers' = IF output # 0 THEN readers \cup {output} ELSE readers
  BY <1>2, <1>3 DEF NodeStep
<1>5. /\ history' \in Seq(Nat)
      /\ Len(history) + 1 \notin DOMAIN history
      /\ \A i \in DOMAIN history' : \/ i \in DOMAIN history /\ history'[i] = history[i]
                                    \/ i = Len(history) + 1 /\ history'[i] = output
      /\ \A i \in DOMAIN history : i \in DOMAIN history' /\ history'[i] = history[i]
      /\ Len(history) + 1 \in DOMAIN history' /\ history'[Len(history) + 1] = output
  <2>1. output \in Nat
    BY <1>3
  <2> HIDE DEF output
  <2>2. /\ history' \in Seq(Nat) /\ Len(history') = Len(history) + 1
        /\ \A i \in 1..Len(history) : history'[i] = history[i]
        /\ history'[Len(history) + 1] = output
    BY <1>3, <1>4, <2>1, AppendProperties
  <2>3. DOMAIN history' = 1..(Len(history) + 1) /\ DOMAIN history = 1..Len(history) /\ Len(history) \in Nat
    BY <1>3, <2>2, LenProperties
  <2>4. ASSUME NEW i \in DOMAIN history'
        PROVE  \/ i \in DOMAIN history /\ history'[i] = history[i]
               \/ i = Len(history) + 1 /\ history'[i] = output
    <3>1. i \in 1..Len(history) \/ i = Len(history) + 1
      BY <2>3
    <3> QED
      BY <2>2, <2>3, <3>1
  <2> QED
    BY <2>2, <2>3, <2>4
<1>6. \A i \in DOMAIN history' :
         IF output # 0 THEN i \in LastStateful' <=> i = Len(history) + 1
         ELSE history'[i] # 0 => i \in DOMAIN history /\ (i \in LastStateful' <=> i \in LastStateful)
  <2>1. output \in Nat
    BY <1>3
  <2> QED
    BY <1>3, <1>4, <2>1, LastAfter
<1>7. \A i \in DOMAIN history : history[i] \in Nat /\ history[i] <= Len(heap) /\ history[i] # new
  BY <1>3, ElementOfSeq
<1>8. ASSUME NEW i \in DOMAIN history'
      PROVE  /\ \A j \in DOMAIN history' : history'[i] # 0 /\ history'[i] = history'[j] => i = j
             /\ history'[i] # 0 => history'[i] \in readers'
  <2>1. \A j \in DOMAIN history' : history'[i] # 0 /\ history'[i] = history'[j] => i = j
    BY <1>1, <1>3, <1>5, <1>7 DEF ResultsApart
  <2>2. history'[i] # 0 => history'[i] \in readers'
    BY <1>1, <1>4, <1>5 DEF ResultsApart
  <2> QED
    BY <2>1, <2>2
<1>9. CASE outcome = "error"
  <2>1. heap' = written /\ run' = 0 /\ callers' = callers \cup {run} /\ current' = current
    BY <1>9 DEF NodeStep
  <2>2. output = 0 /\ readers' = readers
    BY <1>4, <1>9
  <2> HIDE DEF written, output
  <2>3. Untouched /\ Len(heap') = new
    BY <1>2, <2>1 DEF Untouched, Leaves
  <2>4. ObjectsTyped'
    <3>1. heap' \in Seq(Contents) /\ Len(heap') = Len(heap) + 1 /\ edits' \in Nat
      BY <1>2, <1>3, <1>4, <2>1
    <3>2. /\ run' \in 0..Len(heap') /\ current' \in 1..Len(heap')
          /\ callers' \in SUBSET (1..Len(heap')) /\ readers' \in SUBSET (1..Len(heap'))
      BY <1>3, <2>1, <2>2, <3>1
    <3>3. \A i \in DOMAIN history' : history'[i] <= Len(heap')
      <4>1. ASSUME NEW i \in DOMAIN history' PROVE history'[i] <= Len(heap')
        <5>1. CASE i \in DOMAIN history /\ history'[i] = history[i]
          BY <1>3, <1>7, <3>1, <5>1
        <5>2. CASE history'[i] = output
          BY <1>3, <2>2, <3>1, <5>2
        <5> QED
          BY <1>5, <5>1, <5>2
      <4> QED
        BY <4>1
    <3>4. snapshots' \in Seq(Nat) /\ \A i \in DOMAIN snapshots' : snapshots'[i] \in 1..Len(heap')
      BY <1>3, <1>4, <3>1
    <3> QED
      BY <1>5, <3>1, <3>2, <3>3, <3>4 DEF ObjectsTyped
  <2>5. ASSUME NEW i \in DOMAIN history'
        PROVE  history'[i] # 0 /\ i \notin LastStateful' => history'[i] \notin callers' /\ history'[i] # run'
    BY <1>1, <1>5, <1>6, <2>1, <2>2 DEF ResultsApart
  <2>6. current' \notin callers' /\ current' \notin readers' /\ current' # run'
    BY <1>1, <1>3, <2>1, <2>2 DEF KeptApart
  <2>7. \A i \in DOMAIN snapshots' : /\ snapshots'[i] \notin callers' /\ snapshots'[i] \notin readers'
                                     /\ snapshots'[i] # run' /\ snapshots'[i] # current'
    BY <1>1, <1>3, <1>4, <2>1, <2>2 DEF KeptApart
  <2>8. ResultsApart' /\ run' \notin readers'
    BY <1>3, <1>8, <2>1, <2>2, <2>5 DEF ResultsApart
  <2> QED
    BY <2>1, <2>3, <2>4, <2>6, <2>7, <2>8 DEF KeptApart, SharingInv
<1>10. CASE outcome # "error"
  <2>1. /\ heap' = Append(written, written[after]) /\ current' = Len(written) + 1
        /\ run' = after /\ callers' = callers
    BY <1>2, <1>10 DEF NodeStep, Mirrored
  <2>2. written[after] \in Contents
    <3>1. after \in 1..Len(written)
      BY <1>2, <1>3
    <3> HIDE DEF written, after
    <3> QED
      BY <1>2, <3>1, ElementOfSeq
  <2> HIDE DEF written
  <2>3. /\ heap' \in Seq(Contents) /\ Len(heap') = new + 1
        /\ \A j \in 1..Len(heap) : heap'[j] = heap[j]
    <3> HIDE DEF after
    <3> QED
      <4>1. written \in Seq(Contents) /\ written[after] \in Contents
        BY <1>2, <2>2
      <4>2. /\ heap' \in Seq(Contents) /\ Len(heap') = Len(written) + 1
            /\ \A j \in 1..Len(written) : heap'[j] = written[j]
        BY <2>1, <4>1, AppendProperties
      <4> QED
        BY <1>2, <1>3, <4>2
  <2>4. Untouched
    BY <1>3, <2>3 DEF Untouched, Leaves
  <2>5. ObjectsTyped'
    <3>1. after \in 0..Len(heap') /\ output \in 0..Len(heap')
      BY <1>2, <1>3, <2>3
    <3>2. current' \in 1..Len(heap') /\ run' \in 0..Len(heap')
      BY <1>2, <1>3, <2>1, <2>3, <3>1
    <3>3. callers' \in SUBSET (1..Len(heap')) /\ readers' \in SUBSET (1..Len(heap'))
      <4>1. Len(heap') = Len(heap) + 2 /\ callers' = callers
        BY <1>3, <2>1, <2>3
      <4>2. readers' = readers \/ readers' = readers \cup {Len(heap) + 1}
        BY <1>4
      <4>3. Len(heap) + 1 \in 1..Len(heap') /\ \A o \in 1..Len(heap) : o \in 1..Len(heap')
        BY <1>3, <4>1
      <4>4. callers' \in SUBSET (1..Len(heap'))
        BY <1>3, <4>1, <4>3, Zenon
      <4>5. readers' \in SUBSET (1..Len(heap'))
        BY <1>3, <4>2, <4>3, Zenon
      <4> QED
        BY <4>4, <4>5
    <3> HIDE DEF output
    <3>4. \A i \in DOMAIN history' : history'[i] <= Len(heap')
      <4>1. Len(heap') = Len(heap) + 2 /\ output <= Len(heap')
        BY <1>3, <2>3, <3>1
      <4>2. ASSUME NEW i \in DOMAIN history' PROVE history'[i] <= Len(heap')
        <5>1. CASE i \in DOMAIN history /\ history'[i] = history[i]
          BY <1>3, <1>7, <4>1, <5>1
        <5>2. CASE history'[i] = output
          BY <4>1, <5>2
        <5> QED
          BY <1>5, <5>1, <5>2
      <4> QED
        BY <4>2
    <3>5. \A i \in DOMAIN snapshots' : snapshots'[i] \in 1..Len(heap')
      BY <1>3, <1>4, <2>3
    <3> QED
      BY <1>3, <1>4, <1>5, <2>3, <3>2, <3>3, <3>4, <3>5 DEF ObjectsTyped
  <2>6. ASSUME NEW i \in DOMAIN history', history'[i] # 0
        PROVE  /\ history'[i] \notin callers'
               /\ i \notin LastStateful' => history'[i] # run'
    <3>1. CASE outcome = "state"
      BY <1>1, <1>3, <1>5, <1>6, <2>1, <2>6, <3>1 DEF ResultsApart
    <3>2. CASE outcome # "state"
      BY <1>1, <1>3, <1>5, <1>6, <2>1, <2>6, <3>2 DEF ResultsApart
    <3> QED
      BY <3>1, <3>2
  <2>7. current' \notin callers' /\ current' \notin readers' /\ current' # run'
    BY <1>2, <1>3, <1>4, <2>1
  <2>8. \A i \in DOMAIN snapshots' : /\ snapshots'[i] \notin callers' /\ snapshots'[i] \notin readers'
                                     /\ snapshots'[i] # run' /\ snapshots'[i] # current'
    BY <1>1, <1>2, <1>3, <1>4, <2>1 DEF KeptApart
  <2>9. run' \notin callers'
    BY <1>1, <1>3, <2>1 DEF KeptApart
  <2>10. run' \in readers' => \E i \in LastStateful' : history'[i] = run'
    <3>1. CASE outcome = "state"
      <4>1. output = new /\ new # 0 /\ run' = new
        BY <1>3, <2>1, <3>1
      <4> QED
        BY <1>5, <1>6, <4>1
    <3>2. CASE outcome # "state"
      <4>1. output = 0 /\ run' = run /\ readers' = readers
        BY <1>4, <2>1, <3>2
      <4>2. ASSUME run \in readers PROVE \E i \in LastStateful' : history'[i] = run'
        <5>1. PICK i \in LastStateful : history[i] = run
          BY <1>1, <4>2 DEF KeptApart
        <5>2. i \in DOMAIN history /\ history[i] # 0
          BY <5>1 DEF LastStateful
        <5> QED
          BY <1>5, <1>6, <4>1, <5>1, <5>2
      <4> QED
        BY <4>1, <4>2
    <3> QED
      BY <3>1, <3>2
  <2>11. ResultsApart'
    BY <1>8, <2>6 DEF ResultsApart
  <2> QED
    BY <2>4, <2>5, <2>7, <2>8, <2>9, <2>10, <2>11 DEF KeptApart, SharingInv
<1> QED
  BY <1>9, <1>10

(* A step that leaves run, readers and history alone, and takes nothing back *)
(* from the caller, keeps objects apart when what it hands out is new.       *)
LEMMA CallerSteps ==
    ASSUME SharingInv, UNCHANGED <<run, current, history, readers>>, NEW o, Leaves(o), edits' \in Nat,
           callers' = callers \/ callers' = callers \cup {Len(heap) + 1},
           callers' \subseteq 1..Len(heap'),
           snapshots' \in Seq(Nat),
           \A i \in DOMAIN snapshots' : \/ \E j \in DOMAIN snapshots : snapshots'[i] = snapshots[j]
                                        \/ snapshots'[i] = Len(heap) + 1 /\ callers' = callers /\ Len(heap') > Len(heap)
    PROVE  SharingInv'
<1>1. /\ Len(heap) \in Nat /\ Len(heap') \in Nat /\ Len(heap') >= Len(heap) /\ heap' \in Seq(Contents)
      /\ run' = run /\ current' = current /\ history' = history /\ LastStateful' = LastStateful /\ readers' = readers
  BY LenProperties DEF SharingInv, ObjectsTyped, Leaves, LastStateful
<1>2. ObjectsTyped /\ KeptApart /\ ResultsApart
  BY DEF SharingInv, KeptApart
<1>3. ASSUME NEW i \in DOMAIN snapshots'
      PROVE  /\ snapshots'[i] \in 1..Len(heap') /\ snapshots'[i] \notin callers' /\ snapshots'[i] \notin readers'
             /\ snapshots'[i] # run' /\ snapshots'[i] # current'
  <2>1. CASE \E j \in DOMAIN snapshots : snapshots'[i] = snapshots[j]
    BY SMTT(20), <1>1, <1>2, <2>1 DEF ObjectsTyped, KeptApart
  <2>2. CASE snapshots'[i] = Len(heap) + 1 /\ callers' = callers /\ Len(heap') > Len(heap)
    BY <1>1, <1>2, <2>2 DEF ObjectsTyped
  <2> QED
    BY <2>1, <2>2
<1>4. ObjectsTyped'
  BY <1>1, <1>2, <1>3 DEF ObjectsTyped
<1>5. KeptApart'
  <2>1. \A i \in DOMAIN history : history[i] \in Nat /\ history[i] <= Len(heap)
    BY <1>2, ElementOfSeq DEF ObjectsTyped
  <2>2. current \in 1..Len(heap) /\ run \in 0..Len(heap)
    BY <1>2 DEF ObjectsTyped
  <2>3. ResultsApart'
    BY <1>1, <1>2, <2>1 DEF ResultsApart
  <2> QED
    BY <1>1, <1>2, <1>3, <2>1, <2>2, <2>3 DEF KeptApart
<1> QED
  BY <1>4, <1>5 DEF SharingInv

(* An edit writes to the one object it is made to. *)
LEMMA EditKept ==
    ASSUME SharingInv, NEW o \in Handed \cup Snapshots, NEW c \in Contents, heap' = [heap EXCEPT ![o] = c],
           UNCHANGED <<run, current, history, readers, callers, snapshots>>, edits' = edits + 1
    PROVE  SharingInv' /\ Reaches
<1>1. heap \in Seq(Contents) /\ Len(heap) \in Nat /\ o \in 1..Len(heap) /\ callers \subseteq 1..Len(heap) /\ snapshots \in Seq(Nat)
      /\ edits \in Nat /\ edits' \in Nat /\ edits' # edits
  BY LenProperties DEF SharingInv, ObjectsTyped, Handed, Snapshots
<1>2. Leaves(o) /\ Len(heap') = Len(heap)
  BY <1>1, ExceptSeq DEF Leaves
<1>3. callers' \subseteq 1..Len(heap') /\ \A k \in DOMAIN snapshots' : \E j \in DOMAIN snapshots : snapshots'[k] = snapshots[j]
  BY <1>1, <1>2
<1>4. SharingInv'
  BY <1>1, <1>2, <1>3, CallerSteps
<1> QED
  BY <1>1, <1>2, <1>4 DEF Reaches

LEMMA SharingKept ==
    ASSUME SharingInv, SharingNext
    PROVE  SharingInv' /\ Reaches
<1>0. /\ heap \in Seq(Contents) /\ Len(heap) \in Nat /\ callers \in SUBSET (1..Len(heap))
      /\ readers \in SUBSET (1..Len(heap))
      /\ run \in 0..Len(heap) /\ current \in 1..Len(heap) /\ snapshots \in Seq(Nat)
      /\ ObjectsTyped /\ KeptApart /\ edits \in Nat
  BY LenProperties DEF SharingInv, ObjectsTyped
<1> SUFFICES SharingInv' /\ (Untouched \/ Reaches)
  BY DEF Reaches, Untouched
<1>1. ASSUME NEW o \in Handed, Execute(o) PROVE SharingInv' /\ Untouched
  BY <1>1, ExecuteStarts
<1>2. ASSUME NEW outcome \in {"state", "nil", "error"}, NodeStep(outcome) PROVE SharingInv' /\ Untouched
  BY <1>2, NodeRuns
<1>3. ASSUME NEW o \in Handed \cup Snapshots, HolderEdits(o) PROVE SharingInv' /\ Reaches
  <2> DEFINE cell == [heap[o] EXCEPT !.holder = @ + 1]
  <2>1. cell \in Contents
    <3>1. o \in 1..Len(heap) /\ heap[o] \in Contents
      BY <1>0, ElementOfSeq DEF Handed, Snapshots, ObjectsTyped
    <3> QED
      BY <3>1 DEF Contents
  <2>2. /\ heap' = [heap EXCEPT ![o] = cell] /\ edits' = edits + 1
        /\ UNCHANGED <<run, current, history, readers, callers, snapshots>>
    BY <1>3, Zenon DEF HolderEdits
  <2> HIDE DEF cell
  <2> QED
    BY <2>1, <2>2, EditKept
<1>4. ASSUME NEW o \in Handed, NEW i \in DOMAIN snapshots, RestoreFromSnapshot(o, i) PROVE SharingInv' /\ Reaches
  <2>1. heap[snapshots[i]] \in Contents
    BY <1>0, ElementOfSeq DEF ObjectsTyped
  <2>2. /\ heap' = [heap EXCEPT ![o] = heap[snapshots[i]]] /\ edits' = edits + 1
        /\ UNCHANGED <<run, current, history, readers, callers, snapshots>>
    BY <1>4 DEF RestoreFromSnapshot
  <2> QED
    BY <2>1, <2>2, EditKept
<1>5. ASSUME NEW o \in Handed, CreateSnapshot(o) PROVE SharingInv' /\ Untouched
  <2>1. heap' = Clone(o) /\ callers' = callers /\ UNCHANGED <<run, current, history, readers>> /\ edits' \in Nat
    BY <1>0, <1>5 DEF CreateSnapshot
  <2>2. Untouched /\ Len(heap') = Len(heap) + 1 /\ NewObject = Len(heap) + 1
    BY <1>0, <2>1, Cloned DEF Untouched, Leaves, Handed
  <2>3. snapshots' = AddSnapshot(Len(heap) + 1)
    BY <1>5, <2>2 DEF CreateSnapshot
  <2>4. /\ snapshots' \in Seq(Nat)
        /\ \A i \in DOMAIN snapshots' : \/ \E j \in DOMAIN snapshots : snapshots'[i] = snapshots[j]
                                        \/ snapshots'[i] = Len(heap) + 1
    BY <1>0, <2>3, SnapshotAdded
  <2>5. callers' \subseteq 1..Len(heap') /\ Len(heap') > Len(heap)
    BY <1>0, <2>1, <2>2
  <2> QED
    BY <1>0, <2>1, <2>2, <2>4, <2>5, CallerSteps DEF Untouched
<1>6. ASSUME GetCurrentState PROVE SharingInv' /\ Untouched
  <2>1. heap' = Clone(current) /\ snapshots' = snapshots /\ UNCHANGED <<run, current, history, readers>> /\ edits' \in Nat
    BY <1>0, <1>6 DEF GetCurrentState
  <2>2. Untouched /\ Len(heap') = Len(heap) + 1 /\ NewObject = Len(heap) + 1
    BY <1>0, <2>1, Cloned DEF Untouched, Leaves
  <2>3. callers' = callers \cup {Len(heap) + 1}
    BY <1>6, <2>2 DEF GetCurrentState
  <2>4. callers' \subseteq 1..Len(heap') /\ \A k \in DOMAIN snapshots' : \E j \in DOMAIN snapshots : snapshots'[k] = snapshots[j]
    <3>1. Len(heap) + 1 \in 1..Len(heap')
      BY <1>0, <2>2
    <3>2. \A o \in callers : o \in 1..Len(heap')
      BY <1>0, <2>2
    <3> QED
      BY <2>1, <2>3, <3>1, <3>2
  <2> QED
    BY <1>0, <2>1, <2>2, <2>3, <2>4, CallerSteps DEF Untouched
<1>7. ASSUME FailedAttempt PROVE SharingInv' /\ Untouched
  <2>1. run # 0 /\ callers' = callers /\ snapshots' = snapshots /\ UNCHANGED <<run, current, history, readers>> /\ edits' \in Nat
    BY <1>0, <1>7 DEF FailedAttempt
  <2>2. Untouched /\ Len(heap') = Len(heap) + 1
    BY <1>0, <1>7, <2>1, Attempted DEF FailedAttempt, Untouched, Leaves
  <2> QED
    BY <1>0, <2>1, <2>2, CallerSteps DEF Untouched
<1>8. ASSUME HandOver PROVE SharingInv' /\ Untouched
  <2>1. /\ run # 0 /\ callers' = callers \cup {run} /\ run' = 0 /\ readers' = readers
        /\ heap' = heap /\ current' = current /\ history' = history /\ snapshots' = snapshots
        /\ LastStateful' = LastStateful /\ edits' = edits
    BY <1>8 DEF HandOver, LastStateful
  <2>2. Untouched
    BY <1>0, <2>1 DEF Untouched, Leaves
  <2>3. ObjectsTyped'
    BY <1>0, <2>1 DEF ObjectsTyped
  <2>4. ResultsApart'
    BY <1>0, <2>1 DEF KeptApart, ResultsApart
  <2>5. KeptApart'
    BY <1>0, <2>1, <2>4 DEF KeptApart, ObjectsTyped
  <2> QED
    BY <2>2, <2>3, <2>5 DEF SharingInv
<1> QED
  BY <1>1, <1>2, <1>3, <1>4, <1>5, <1>6, <1>7, <1>8 DEF SharingNext

(* Any number of calls, attempts, edits and snapshots: a state that exists   *)
(* changes only by an edit of those who hold that very object, which is one  *)
(* result or snapshot and never currentState; a run goes on with what its    *)
(* readers made of its last result and with nobody else's edits; and the     *)
(* caller is handed the last result only, once the run is over.              *)
THEOREM ResultsStay == SharingSpec => EarlierResultsStay
<1>1. SharingInit => SharingInv
  <2> SUFFICES ASSUME SharingInit PROVE SharingInv
    OBVIOUS
  <2>1. heap = <<Fresh, Fresh>> /\ Fresh \in Contents
    BY DEF SharingInit, Fresh, Contents
  <2>2. heap \in Seq(Contents) /\ Len(heap) = 2
    BY <2>1
  <2>3. /\ run = 0 /\ current = 2 /\ callers = {1} /\ readers = {} /\ history = <<>> /\ snapshots = <<>>
        /\ edits = 0
    BY DEF SharingInit
  <2>4. <<>> \in Seq(Nat) /\ DOMAIN <<>> = {}
    OBVIOUS
  <2> QED
    BY <2>2, <2>3, <2>4 DEF SharingInv, ObjectsTyped, KeptApart, ResultsApart
<1>2. SharingInv /\ [SharingNext]_sharingVars => SharingInv'
  <2>1. SharingInv /\ UNCHANGED sharingVars => SharingInv'
    BY DEF sharingVars, SharingInv, ObjectsTyped, KeptApart, ResultsApart, LastStateful
  <2> QED
    BY <2>1, SharingKept
<1> DEFINE Stays ==
      /\ history' = history \/ history' = <<>> \/ Len(history') = Len(history) + 1
      /\ edits' = edits => \A o \in DOMAIN heap : ~Rewritten(o)
      /\ current' = current => ~Rewritten(current)
      /\ \A i, j \in DOMAIN history :
            history[i] # 0 /\ history[j] # 0 /\ Rewritten(history[i]) /\ Rewritten(history[j]) => i = j
      /\ \A i \in DOMAIN history, o \in Snapshots : history[i] # 0 /\ Rewritten(history[i]) => ~Rewritten(o)
      /\ run # 0 /\ Rewritten(run) => \E i \in LastStateful : history[i] = run
      /\ \A i \in DOMAIN history : history[i] \in callers => run = 0 /\ i \in LastStateful
<1>3. SharingInv /\ SharingNext => Stays
  <2> SUFFICES ASSUME SharingInv, SharingNext PROVE Stays
    OBVIOUS
  <2>1. Reaches /\ ObjectsTyped /\ KeptApart /\ ResultsApart
    BY SharingKept DEF SharingInv, KeptApart
  <2>2. history' = history \/ history' = <<>> \/ Len(history') = Len(history) + 1
    <3>1. ASSUME NEW e \in Nat, history' = Append(history, e) PROVE Len(history') = Len(history) + 1
      BY <2>1, <3>1, AppendProperties DEF ObjectsTyped
    <3>2. ASSUME NEW outcome \in {"state", "nil", "error"}, NodeStep(outcome)
          PROVE  \E e \in Nat : history' = Append(history, e)
      <4>1. run # 0 /\ Attempt.arg = Len(heap) + 1 /\ Len(heap) \in Nat
        BY <2>1, <3>2, Attempted DEF NodeStep, ObjectsTyped
      <4> QED
        BY <3>2, <4>1 DEF NodeStep
    <3> QED
      BY <3>1, <3>2 DEF SharingNext, Execute, HolderEdits, CreateSnapshot, RestoreFromSnapshot,
                        FailedAttempt, HandOver, GetCurrentState
  <2>3. /\ current \in 1..Len(heap) /\ run \in 0..Len(heap) /\ Len(heap) \in Nat /\ DOMAIN heap = 1..Len(heap)
        /\ \A i \in DOMAIN history : history[i] \in 0..Len(heap)
        /\ \A o \in Snapshots : o \in 1..Len(heap)
        /\ 0 \notin callers
    BY <2>1, ElementOfSeq, LenProperties DEF ObjectsTyped, Snapshots
  <2>4. PICK o \in {0} \cup Handed \cup Snapshots : Leaves(o) /\ (edits' = edits => o = 0)
    BY <2>1 DEF Reaches
  <2>5. \A p \in 1..Len(heap) : Rewritten(p) => p = o
    BY <2>4 DEF Leaves, Rewritten
  <2>6. edits' = edits => \A p \in DOMAIN heap : ~Rewritten(p)
    BY <2>3, <2>4, <2>5
  <2>7. ~Rewritten(current)
    BY <2>1, <2>3, <2>4, <2>5 DEF KeptApart, Handed, Snapshots
  <2>8. ASSUME NEW i \in DOMAIN history, history[i] # 0, Rewritten(history[i])
        PROVE  /\ \A j \in DOMAIN history : history[j] # 0 /\ Rewritten(history[j]) => i = j
               /\ \A p \in Snapshots : ~Rewritten(p)
    <3>1. history[i] \in 1..Len(heap) /\ history[i] = o /\ o \in readers
      BY <2>1, <2>3, <2>5, <2>8 DEF ResultsApart
    <3>2. \A j \in DOMAIN history : history[j] # 0 /\ Rewritten(history[j]) => i = j
      <4>1. ASSUME NEW j \in DOMAIN history, history[j] # 0, Rewritten(history[j]) PROVE i = j
        <5>1. history[j] = o
          BY <2>3, <2>5, <4>1
        <5> QED
          BY <2>1, <2>8, <3>1, <5>1 DEF ResultsApart
      <4> QED
        BY <4>1
    <3>3. \A p \in Snapshots : p # o
      BY <2>1, <3>1 DEF KeptApart, Snapshots
    <3> QED
      BY <2>3, <2>5, <3>2, <3>3
  <2>9. run # 0 /\ Rewritten(run) => \E i \in LastStateful : history[i] = run
    <3> SUFFICES ASSUME run # 0, Rewritten(run) PROVE run \in readers
      BY <2>1 DEF KeptApart
    <3>1. run = o /\ o # 0
      BY <2>3, <2>5
    <3> QED
      BY <2>1, <2>4, <3>1 DEF KeptApart, Handed, Snapshots
  <2>10. \A i \in DOMAIN history : history[i] \in callers => run = 0 /\ i \in LastStateful
    BY <2>1, <2>3 DEF ResultsApart
  <2> QED
    BY <2>2, <2>6, <2>7, <2>8, <2>9, <2>10
<1>4. SharingInv /\ [SharingNext]_sharingVars => [Stays]_sharingVars
  BY <1>3
<1> QED
  BY <1>1, <1>2, <1>4, PTL DEF SharingSpec, EarlierResultsStay

-------------------------------------------------------------------------------
(* Graphs in graphs. A set closed under nesting that holds what a graph      *)
(* nests shows what the graph does not contain.                              *)
SelfContained(S) == \A h \in S : nested[h] \subseteq S

LEMMA NotBelow ==
    ASSUME NEW g \in Graphs, NEW t \in Graphs
    PROVE  t \notin Below(g) <=> \E S \in SUBSET Graphs : SelfContained(S) /\ nested[g] \subseteq S /\ t \notin S
BY DEF Below, SelfContained

(* Nesting s in t, where neither is in the other, makes no cycle.            *)
LEMMA EdgeKeepsAcyclic ==
    ASSUME nested \in [Graphs -> SUBSET Graphs],
           NEW t \in Graphs, NEW s \in Graphs, s # t, t \notin Below(s),
           nested' = [nested EXCEPT ![t] = @ \cup {s}],
           NEW g \in Graphs, g \notin Below(g)
    PROVE  g \notin Below(g)'
<1>1. PICK C \in SUBSET Graphs : SelfContained(C) /\ nested[s] \subseteq C /\ t \notin C
  BY NotBelow
<1>2. PICK D \in SUBSET Graphs : SelfContained(D) /\ nested[g] \subseteq D /\ g \notin D
  BY NotBelow
<1>3. /\ nested'[t] = nested[t] \cup {s}
      /\ \A h \in Graphs \ {t} : nested'[h] = nested[h]
  OBVIOUS
<1> DEFINE K == C \cup {s}
<1>4. SelfContained(K) /\ K \in SUBSET Graphs /\ t \notin K
  BY <1>1 DEF SelfContained
<1> HIDE DEF K
<1> SUFFICES \E S \in SUBSET Graphs : (\A h \in S : nested'[h] \subseteq S) /\ nested'[g] \subseteq S /\ g \notin S
  BY DEF Below
<1>5. CASE g = t
  <2>1. \A h \in D \cup K : nested'[h] \subseteq D \cup K
    BY <1>2, <1>3, <1>4, <1>5 DEF SelfContained
  <2>2. nested'[g] \subseteq D \cup K /\ g \notin D \cup K /\ D \cup K \in SUBSET Graphs
    BY <1>2, <1>3, <1>4, <1>5 DEF K
  <2> QED
    BY <2>1, <2>2
<1>6. CASE g # t /\ t \notin D
  BY <1>2, <1>3, <1>6 DEF SelfContained
<1>7. CASE g # t /\ t \in D /\ g \notin K
  <2>1. \A h \in D \cup K : nested'[h] \subseteq D \cup K
    <3>1. \A h \in Graphs : nested'[h] \subseteq nested[h] \cup {s}
      BY <1>3
    <3>2. s \in D \cup K /\ D \cup K \in SUBSET Graphs
      BY <1>4 DEF K
    <3> QED
      BY <1>2, <1>4, <3>1, <3>2 DEF SelfContained
  <2>2. nested'[g] \subseteq D \cup K /\ g \notin D \cup K /\ D \cup K \in SUBSET Graphs
    BY <1>2, <1>3, <1>4, <1>7
  <2> QED
    BY <2>1, <2>2
<1>8. CASE g # t /\ g \in K
  <2>1. \A h \in D \cap K : nested'[h] \subseteq D \cap K
    BY <1>2, <1>3, <1>4 DEF SelfContained
  <2>2. nested'[g] \subseteq D \cap K /\ g \notin D \cap K /\ D \cap K \in SUBSET Graphs
    BY <1>2, <1>3, <1>4, <1>8 DEF SelfContained
  <2> QED
    BY <2>1, <2>2
<1> QED
  BY <1>5, <1>6, <1>7, <1>8

NestingTyped ==
    /\ nested \in [Graphs -> SUBSET Graphs]
    /\ DOMAIN adding = Adders
    /\ \A a \in Adders : adding[a].pc \in {"idle", "checked"}
    /\ \A a \in Adders : adding[a].pc = "checked" => adding[a].to \in Graphs /\ adding[a].sub \in Graphs

(* While calls of AddSubgraph do not overlap, at most one has checked and    *)
(* not recorded, and what it found still holds.                              *)
CheckedHolds ==
    ~overlapped =>
        /\ \A g \in Graphs : g \notin Below(g)
        /\ \A a, b \in Adders : adding[a].pc = "checked" /\ adding[b].pc = "checked" => a = b
        /\ \A a \in Adders : adding[a].pc = "checked" =>
              adding[a].sub # adding[a].to /\ adding[a].to \notin Below(adding[a].sub)

LEMMA BuildKept ==
    NestingTyped /\ CheckedHolds /\ [BuildNext \/ RunNext]_nestingVars => NestingTyped' /\ CheckedHolds'
<1> SUFFICES ASSUME NestingTyped, CheckedHolds, [BuildNext \/ RunNext]_nestingVars
             PROVE  NestingTyped' /\ CheckedHolds'
  OBVIOUS
<1>1. ASSUME NEW a \in Adders, NEW g \in Graphs, NEW s \in Graphs, Check(a, g, s)
      PROVE  NestingTyped' /\ CheckedHolds'
  <2>1. /\ nested' = nested /\ s # g /\ g \notin Below(s)
        /\ adding' = [adding EXCEPT ![a] = [pc |-> "checked", to |-> g, sub |-> s]]
        /\ overlapped' = (overlapped \/ \E b \in Adders : adding[b].pc = "checked")
    BY <1>1 DEF Check, GraphContains
  <2>2. /\ DOMAIN adding' = Adders
        /\ adding'[a].pc = "checked" /\ adding'[a].to = g /\ adding'[a].sub = s
        /\ \A b \in Adders \ {a} : adding'[b] = adding[b]
    BY <2>1 DEF NestingTyped
  <2>3. \A h \in Graphs : Below(h)' = Below(h)
    BY <2>1 DEF Below
  <2>4. NestingTyped'
    BY <2>1, <2>2 DEF NestingTyped
  <2>5. CheckedHolds'
    <3> SUFFICES ASSUME ~overlapped'
                 PROVE  /\ \A h \in Graphs : h \notin Below(h)'
                        /\ \A b, c \in Adders : adding'[b].pc = "checked" /\ adding'[c].pc = "checked" => b = c
                        /\ \A b \in Adders : (adding[b].pc = "checked" =>
                              adding[b].sub # adding[b].to /\ adding[b].to \notin Below(adding[b].sub))'
      BY DEF CheckedHolds
    <3>1. ~overlapped /\ \A b \in Adders : adding[b].pc # "checked"
      BY <2>1
    <3>2. \A b \in Adders : adding'[b].pc = "checked" => b = a
      BY <2>2, <3>1
    <3>3. g \notin Below(s)'
      BY <2>1, <2>3
    <3>4. \A h \in Graphs : h \notin Below(h)'
      BY <2>3, <3>1 DEF CheckedHolds
    <3>5. (adding[a].sub # adding[a].to /\ adding[a].to \notin Below(adding[a].sub))'
      BY <2>1, <2>2, <3>3
    <3>6. \A b \in Adders : (adding[b].pc = "checked" =>
              adding[b].sub # adding[b].to /\ adding[b].to \notin Below(adding[b].sub))'
      BY <3>2, <3>5
    <3> QED
      BY <3>2, <3>4, <3>6
  <2> QED
    BY <2>4, <2>5
<1>2. ASSUME NEW a \in Adders, Record(a)
      PROVE  NestingTyped' /\ CheckedHolds'
  <2> DEFINE t == adding[a].to
             s == adding[a].sub
  <2>1. /\ adding[a].pc = "checked" /\ t \in Graphs /\ s \in Graphs /\ overlapped' = overlapped
        /\ nested' = [nested EXCEPT ![t] = @ \cup {s}]
        /\ adding' = [adding EXCEPT ![a] = NotAdding]
    BY <1>2 DEF Record, NestingTyped
  <2>2. /\ DOMAIN adding' = Adders /\ adding'[a].pc = "idle"
        /\ \A b \in Adders \ {a} : adding'[b] = adding[b]
    BY <2>1 DEF NestingTyped, NotAdding
  <2>3. NestingTyped'
    BY <2>1, <2>2 DEF NestingTyped
  <2>4. CheckedHolds'
    <3> SUFFICES ASSUME ~overlapped
                 PROVE  /\ \A h \in Graphs : h \notin Below(h)'
                        /\ \A b \in Adders : adding'[b].pc # "checked"
      BY <2>1 DEF CheckedHolds
    <3>1. \A b \in Adders : adding'[b].pc # "checked"
      BY <2>1, <2>2 DEF CheckedHolds
    <3>2. s # t /\ t \notin Below(s) /\ \A h \in Graphs : h \notin Below(h)
      BY <2>1 DEF CheckedHolds
    <3>3. nested \in [Graphs -> SUBSET Graphs]
      BY DEF NestingTyped
    <3> HIDE DEF s, t
    <3>4. \A h \in Graphs : h \notin Below(h)'
      BY <2>1, <3>2, <3>3, EdgeKeepsAcyclic
    <3> QED
      BY <3>1, <3>4
  <2> QED
    BY <2>3, <2>4
<1>3. ASSUME UNCHANGED buildVars PROVE NestingTyped' /\ CheckedHolds'
  BY <1>3 DEF buildVars, NestingTyped, CheckedHolds, Below
<1> QED
  BY <1>1, <1>2, <1>3 DEF BuildNext, RunNext, StartNested, NestedNode, NestedStops, MergeOutput, nestingVars

(* A nested run that is not shown the parent's list starts one of its own,   *)
(* and has as much of it as it has run nodes.                                *)
Unshown == Namespace = Nil /\ "log" \in Output /\ Input # {} /\ "log" \notin Input

NestedRunInv ==
    /\ merges \in Nat
    /\ {"log", "note"} \subseteq DOMAIN parent
    /\ parent["log"] \in Seq(STRING)
    /\ Len(parent["log"]) = merges * Len(NestedNodes)
    /\ \A i \in DOMAIN parent["log"] :
          parent["log"][i] = NestedNodes[((i - 1) % Len(NestedNodes)) + 1]
    /\ "note" \notin Output => parent["note"] = ParentSchema["note"].default
    /\ sub.pc = "running" =>
          /\ sub.at \in 1..(Len(NestedNodes) + 1)
          /\ IF sub.at = 1 THEN "log" \notin DOMAIN sub.state
             ELSE "log" \in DOMAIN sub.state /\ sub.state["log"] = SubSeq(NestedNodes, 1, sub.at - 1)

LEMMA NestedRunBegins == NestingInit => NestedRunInv
<1> SUFFICES ASSUME NestingInit PROVE NestedRunInv
  OBVIOUS
<1>1. <<>> \in Seq(STRING) /\ Len(<<>>) = 0 /\ DOMAIN <<>> = {}
  OBVIOUS
<1>2. <<>> # Nil /\ ParentSchema["log"].default = <<>> /\ Len(NestedNodes) \in Nat
  <2>1. <<>> # Nil
    BY <1>1, NestingAssumption
  <2>2. Len(NestedNodes) \in Nat
    BY NestingAssumption, LenProperties
  <2>3. ParentSchema["log"].default = <<>>
    <3>1. Channel("append", <<>>).default = <<>>
      BY DEF Channel
    <3> QED
      BY <3>1, NestingAssumption
  <2> QED
    BY <2>1, <2>2, <2>3
<1>3. parent["log"] = <<>> /\ parent["note"] = ParentSchema["note"].default /\ {"log", "note"} \subseteq DOMAIN parent
  BY <1>2, NestingAssumption DEF NestingInit, NewState
<1>4. merges = 0 /\ sub.pc = "idle"
  BY DEF NestingInit, NoSub
<1> QED
  BY <1>1, <1>2, <1>3, <1>4 DEF NestedRunInv

LEMMA Remainder ==
    ASSUME NEW m \in Nat, NEW n \in Nat \ {0}, NEW r \in 0..(n - 1)
    PROVE  (m * n + r) % n = r
OBVIOUS

LEMMA ListGrows ==
    ASSUME NEW m \in Nat, NEW list \in Seq(STRING), NEW nodes \in Seq(STRING),
           Len(list) = m * Len(nodes),
           \A i \in 1..Len(list) : list[i] = nodes[((i - 1) % Len(nodes)) + 1]
    PROVE  /\ list \o nodes \in Seq(STRING)
           /\ Len(list \o nodes) = (m + 1) * Len(nodes)
           /\ \A i \in 1..Len(list \o nodes) : (list \o nodes)[i] = nodes[((i - 1) % Len(nodes)) + 1]
<1> DEFINE n == Len(nodes)
<1>1. n \in Nat /\ Len(list) \in Nat
  BY LenProperties
<1>2. /\ list \o nodes \in Seq(STRING) /\ Len(list \o nodes) = Len(list) + n
      /\ \A i \in 1..(Len(list) + n) : (list \o nodes)[i] = IF i <= Len(list) THEN list[i] ELSE nodes[i - Len(list)]
  BY ConcatProperties
<1>3. Len(list) + n = (m + 1) * n
  <2> HIDE DEF n
  <2>1. (m + 1) * n = m * n + n
    BY <1>1
  <2> QED
    BY <1>1, <2>1 DEF n
<1>4. ASSUME NEW i \in 1..(Len(list) + n)
      PROVE  (list \o nodes)[i] = nodes[((i - 1) % n) + 1]
  <2>1. CASE i <= Len(list)
    BY <1>1, <1>2, <2>1
  <2>2. CASE i > Len(list)
    <3> DEFINE r == i - 1 - Len(list)
    <3>1. n \in Nat \ {0} /\ r \in 0..(n - 1) /\ i - 1 = m * n + r /\ i - Len(list) = r + 1
      BY <1>1, <2>2
    <3>3. (i - 1) % n = r
      <4> HIDE DEF n, r
      <4> QED
        BY <3>1, Remainder
    <3> QED
      BY <1>1, <1>2, <2>2, <3>1, <3>3
  <2> QED
    BY <1>1, <2>1, <2>2
<1> QED
  BY <1>1, <1>2, <1>3, <1>4

LEMMA NestedRunKept ==
    ASSUME Unshown, NestedRunInv, [BuildNext \/ RunNext]_nestingVars
    PROVE  NestedRunInv'
<1>0. NestedNodes \in Seq(STRING) /\ Len(NestedNodes) \in Nat /\ \A s \in Seq(STRING) : s # Nil
  BY NestingAssumption, LenProperties
<1>1. CASE StartNested
  <2>1. /\ sub' = [pc |-> "running", at |-> 1, state |-> ProjectState(parent, Input)]
        /\ UNCHANGED <<parent, merges>>
    BY <1>1 DEF StartNested
  <2>2. "log" \notin DOMAIN ProjectState(parent, Input)
    BY DEF ProjectState, Unshown
  <2> QED
    BY <1>0, <2>1, <2>2 DEF NestedRunInv
<1>2. CASE NestedNode
  <2> DEFINE n == NestedNodes[sub.at]
             done == SubSeq(NestedNodes, 1, sub.at - 1)
             st == Wrote(sub.state, n)
  <2>1. /\ sub.pc = "running" /\ sub.at \in 1..Len(NestedNodes)
        /\ sub'.pc = sub.pc /\ sub'.at = sub.at + 1 /\ sub'.state = st
        /\ UNCHANGED <<parent, merges>>
    BY <1>0, <1>2 DEF NestedNode, NestedRunInv
  <2>2. "log" \in DOMAIN st
        /\ st["log"] = (IF "log" \in DOMAIN sub.state THEN sub.state["log"] ELSE <<>>) \o <<n>>
    BY DEF Wrote, Set
  <2>3. st["log"] = done \o <<n>>
    <3>1. sub.at = 1 => done = <<>>
      BY <1>0
    <3> QED
      BY <2>1, <2>2, <3>1 DEF NestedRunInv
  <2>4. done \o <<n>> = SubSeq(NestedNodes, 1, sub.at)
    <3> DEFINE k == sub.at
    <3>1. k \in 1..Len(NestedNodes) /\ n \in STRING
      BY <1>0, <2>1, ElementOfSeq
    <3> HIDE DEF k
    <3>2. /\ SubSeq(NestedNodes, 1, k) \in Seq(STRING) /\ Len(SubSeq(NestedNodes, 1, k)) = k
          /\ \A i \in 1..k : SubSeq(NestedNodes, 1, k)[i] = NestedNodes[i]
      BY <1>0, <3>1, SubSeqProperties
    <3>3. /\ SubSeq(NestedNodes, 1, k - 1) \in Seq(STRING) /\ Len(SubSeq(NestedNodes, 1, k - 1)) = k - 1
          /\ \A i \in 1..(k - 1) : SubSeq(NestedNodes, 1, k - 1)[i] = NestedNodes[i]
      BY <1>0, <3>1, SubSeqProperties
    <3>4. <<n>> \in Seq(STRING) /\ Len(<<n>>) = 1 /\ <<n>>[1] = NestedNodes[k]
      BY <3>1 DEF k
    <3>5. done = SubSeq(NestedNodes, 1, k - 1)
      BY DEF k
    <3> HIDE DEF done, n
    <3>6. /\ done \o <<n>> \in Seq(STRING) /\ Len(done \o <<n>>) = k
          /\ \A i \in 1..k : (done \o <<n>>)[i] = NestedNodes[i]
      <4> DEFINE one == <<n>>
      <4>2. k \in Nat /\ k - 1 \in Nat /\ (k - 1) + 1 = k /\ k - (k - 1) = 1 /\ Len(done) = k - 1
        BY <1>0, <3>1, <3>3, <3>5
      <4>1. /\ done \o one \in Seq(STRING) /\ Len(done \o one) = k
            /\ \A i \in 1..k : (done \o one)[i] = IF i <= k - 1 THEN done[i] ELSE one[i - (k - 1)]
        <5>1. done \in Seq(STRING) /\ one \in Seq(STRING) /\ Len(one) = 1
          BY <3>3, <3>4, <3>5
        <5> HIDE DEF one
        <5>2. /\ done \o one \in Seq(STRING) /\ Len(done \o one) = Len(done) + Len(one)
              /\ \A i \in 1..(Len(done) + Len(one)) : (done \o one)[i] = IF i <= Len(done) THEN done[i] ELSE one[i - Len(done)]
          BY <5>1, ConcatProperties
        <5> QED
          BY <4>2, <5>1, <5>2
      <4>3. ASSUME NEW i \in 1..k PROVE (done \o <<n>>)[i] = NestedNodes[i]
        <5>1. CASE i <= k - 1
          BY <3>3, <3>5, <4>1, <4>2, <5>1
        <5>2. CASE i = k
          <6>1. ~(i <= k - 1) /\ i - (k - 1) = 1
            BY <4>2, <5>2
          <6> QED
            BY <3>4, <4>1, <5>2, <6>1
        <5>3. i <= k - 1 \/ i = k
          BY <4>2
        <5> QED
          BY <5>1, <5>2, <5>3
      <4> QED
        BY <4>1, <4>2, <4>3
    <3>7. done \o <<n>> = SubSeq(NestedNodes, 1, k)
      <4> DEFINE l == done \o <<n>>
                 m == SubSeq(NestedNodes, 1, k)
      <4>1. /\ l \in Seq(STRING) /\ m \in Seq(STRING) /\ Len(l) = Len(m)
            /\ \A i \in 1..Len(l) : l[i] = m[i]
        BY <3>2, <3>6
      <4> HIDE DEF l, m
      <4>2. l = m
        BY <4>1, SeqEqual
      <4> QED
        BY <4>2 DEF l, m
    <3> QED
      BY <3>7 DEF k
  <2> HIDE DEF st, done, n
  <2>5. sub'.at \in 2..(Len(NestedNodes) + 1) /\ sub'.at - 1 = sub.at
    BY <1>0, <2>1
  <2>6. "log" \in DOMAIN sub'.state /\ sub'.state["log"] = SubSeq(NestedNodes, 1, sub'.at - 1)
    BY <2>1, <2>2, <2>3, <2>4, <2>5
  <2>7. sub'.at \in 1..(Len(NestedNodes) + 1) /\ sub'.at # 1
    BY <1>0, <2>5
  <2> QED
    BY <2>1, <2>6, <2>7 DEF NestedRunInv
<1>3. CASE NestedStops
  BY <1>3 DEF NestedStops, NestedRunInv, NoSub
<1>4. CASE MergeOutput
  <2> DEFINE given == ProjectState(sub.state, Output)
  <2>1. /\ sub.pc = "running" /\ sub.at = Len(NestedNodes) + 1
        /\ parent' = ApplyUpdates(ParentSchema, parent, given)
        /\ sub' = NoSub /\ merges' = merges + 1
    BY <1>0, <1>4 DEF MergeOutput, NestedRunInv, Unshown, MergeWithSchema
  <2>2. /\ DOMAIN parent' = DOMAIN parent \cup DOMAIN given
        /\ \A k \in DOMAIN parent : k \notin DOMAIN given => parent'[k] = parent[k]
        /\ \A k \in DOMAIN given : parent'[k] = Update(ParentSchema, parent, k, given[k])[k]
    BY <2>1 DEF ApplyUpdates
  <2>3. "note" \notin Output => parent'["note"] = ParentSchema["note"].default
    <3>1. "note" \notin Output => "note" \notin DOMAIN given
      BY DEF ProjectState, Unshown
    <3> QED
      BY <2>2, <3>1 DEF NestedRunInv
  <2>4. parent'["log"] = parent["log"] \o NestedNodes
    <3>1. CASE Len(NestedNodes) = 0
      <4>1. "log" \notin DOMAIN given
        BY <2>1, <3>1 DEF NestedRunInv, ProjectState, Unshown
      <4>2. NestedNodes = <<>>
        BY <1>0, <3>1
      <4>3. parent["log"] \o <<>> = parent["log"]
        BY ConcatEmptySeq DEF NestedRunInv
      <4> QED
        BY <2>2, <4>1, <4>2, <4>3 DEF NestedRunInv
    <3>2. CASE Len(NestedNodes) # 0
      <4>1. "log" \in DOMAIN given /\ given["log"] = SubSeq(NestedNodes, 1, Len(NestedNodes))
        BY <1>0, <2>1, <3>2 DEF NestedRunInv, ProjectState, Unshown
      <4>2. given["log"] = NestedNodes
        BY <1>0, <4>1
      <4>3. "log" \in DOMAIN parent /\ parent["log"] \in Seq(STRING)
        BY DEF NestedRunInv
      <4>4. Update(ParentSchema, parent, "log", NestedNodes)["log"] = parent["log"] \o NestedNodes
        <5>1. ParentSchema["log"].reducer = "append" /\ "log" \in DOMAIN ParentSchema /\ NoReducer # "append"
          BY NestingAssumption DEF Channel, NoReducer
        <5>2. Reduce("append", parent["log"], NestedNodes) = parent["log"] \o NestedNodes
          BY <1>0, <4>3 DEF Reduce, ToSlice
        <5> QED
          BY <4>3, <5>1, <5>2 DEF Update, Set
      <4> QED
        BY <2>2, <4>1, <4>2, <4>4
    <3> QED
      BY <3>1, <3>2
  <2> DEFINE list == parent["log"]
  <2>5. /\ list \in Seq(STRING) /\ merges \in Nat /\ Len(list) = merges * Len(NestedNodes)
        /\ \A i \in 1..Len(list) : list[i] = NestedNodes[((i - 1) % Len(NestedNodes)) + 1]
    BY SMTT(20) DEF NestedRunInv
  <2>6. /\ parent'["log"] \in Seq(STRING)
        /\ Len(parent'["log"]) = (merges + 1) * Len(NestedNodes)
        /\ \A i \in 1..Len(parent'["log"]) : parent'["log"][i] = NestedNodes[((i - 1) % Len(NestedNodes)) + 1]
    <3> HIDE DEF list
    <3>1. parent'["log"] = list \o NestedNodes
      BY <2>4 DEF list
    <3>2. /\ list \o NestedNodes \in Seq(STRING)
          /\ Len(list \o NestedNodes) = (merges + 1) * Len(NestedNodes)
          /\ \A i \in 1..Len(list \o NestedNodes) : (list \o NestedNodes)[i] = NestedNodes[((i - 1) % Len(NestedNodes)) + 1]
      BY <1>0, <2>5, ListGrows
    <3> QED
      BY <3>1, <3>2, Zenon
  <2>7. {"log", "note"} \subseteq DOMAIN parent' /\ sub'.pc = "idle"
    BY <2>1, <2>2 DEF NestedRunInv, NoSub
  <2>8. DOMAIN parent'["log"] = 1..Len(parent'["log"])
    BY <2>6, LenProperties
  <2> QED
    BY SMTT(20), <2>1, <2>3, <2>5, <2>6, <2>7, <2>8 DEF NestedRunInv
<1>5. CASE UNCHANGED runVars
  BY <1>5 DEF runVars, NestedRunInv
<1> QED
  BY <1>1, <1>2, <1>3, <1>4, <1>5 DEF BuildNext, RunNext, Check, Record, nestingVars

(* Any number of graphs, of goroutines that nest them, of nested nodes and   *)
(* of runs that pause, fail or are tried again: a graph never contains       *)
(* itself as long as no two calls of AddSubgraph overlap, and the list of a  *)
(* parent has the work of each finished nested run once and in order.        *)
THEOREM NestingHolds == NestingSpec => []NestingIsSound
<1>1. NestingInit => NestingTyped /\ CheckedHolds
  <2> SUFFICES ASSUME NestingInit PROVE NestingTyped /\ CheckedHolds
    OBVIOUS
  <2>1. /\ nested = [g \in Graphs |-> {}]
        /\ DOMAIN adding = Adders /\ \A a \in Adders : adding[a].pc = "idle"
    BY DEF NestingInit, NotAdding
  <2>2. \A g \in Graphs : g \notin Below(g)
    <3> SUFFICES ASSUME NEW g \in Graphs PROVE g \notin Below(g)
      OBVIOUS
    <3>1. nested[g] = {} /\ {} \in SUBSET Graphs
      BY <2>1
    <3> QED
      BY <3>1, NotBelow DEF SelfContained
  <2> QED
    BY <2>1, <2>2 DEF NestingTyped, CheckedHolds
<1> DEFINE Inv == NestingTyped /\ CheckedHolds /\ (Unshown => NestedRunInv)
<1>2. NestingInit => Inv
  BY <1>1, NestedRunBegins
<1>3. Inv /\ [BuildNext \/ RunNext]_nestingVars => Inv'
  BY BuildKept, NestedRunKept DEF Unshown
<1>4. Inv => NestingIsSound
  BY DEF CheckedHolds, NestingIsSound, NestingAcyclic, NestedWorkOnce, NestedRunInv, Unshown
<1> QED
  BY <1>2, <1>3, <1>4, PTL DEF NestingSpec

-------------------------------------------------------------------------------
(* A database: every open pool has one owner, and none has two but a pool    *)
(* of checkpointers.                                                         *)
PoolsOwned ==
    /\ pools \in Seq({"open", "closed"})
    /\ DOMAIN client = Clients
    /\ \A n \in DOMAIN connections : connections[n] \in DOMAIN pools /\ pools[connections[n]] = "open"
    /\ \A m, n \in DOMAIN connections : connections[m] = connections[n] => m = n
    /\ \A k \in checkpointers : k.pool \in DOMAIN pools
    /\ \A c \in Clients : \A p \in InHand(c) : p \in DOMAIN pools /\ pools[p] = "open"
    /\ \A c, d \in Clients : c # d => InHand(c) \cap InHand(d) = {}
    /\ \A c \in Clients, n \in DOMAIN connections : connections[n] \notin InHand(c)
    /\ \A c \in Clients, k \in checkpointers : k.pool \notin InHand(c)
    /\ \A k \in checkpointers, n \in DOMAIN connections : k.pool # connections[n]
    /\ \A p \in DOMAIN pools : pools[p] = "open" =>
          \/ \E n \in DOMAIN connections : connections[n] = p
          \/ \E k \in checkpointers : k.pool = p
          \/ \E c \in Clients : p \in InHand(c)

(* What a goroutine is in the middle of has the fields it works with.        *)
ClientTyped ==
    /\ DOMAIN client = Clients
    /\ \A c \in Clients :
          /\ "at" \in DOMAIN client[c]
          /\ client[c].at = "connect" => "pool" \in DOMAIN client[c]
          /\ client[c].at = "close" => "left" \in DOMAIN client[c]
          /\ client[c].at \in {"thread", "document", "commit"} =>
                {"thread", "threads", "documents"} \subseteq DOMAIN client[c]

(* A transaction makes a row for no thread but that of its document.         *)
RowsJustified ==
    /\ \A c \in Clients : client[c].at \in {"thread", "document", "commit"} =>
          client[c].threads \subseteq {client[c].thread}
    /\ \A t \in DOMAIN threads : threads[t] = "unnamed" => t \in named

DatabaseInv == ClientTyped /\ PoolsOwned /\ RowsJustified

LEMMA Hands ==
    ASSUME DOMAIN client = Clients, NEW c \in Clients, NEW r, client' = [client EXCEPT ![c] = r]
    PROVE  /\ DOMAIN client' = Clients /\ client'[c] = r
           /\ \A d \in Clients \ {c} : client'[d] = client[d] /\ InHand(d)' = InHand(d)
           /\ r.at \in {"connect", "register", "schema"} => InHand(c)' = {r.pool}
           /\ r.at = "close" => InHand(c)' = r.left
           /\ r.at \notin {"connect", "register", "schema", "close"} => InHand(c)' = {}
BY DEF InHand

LEMMA Holds ==
    ASSUME NEW c \in Clients
    PROVE  /\ client[c].at \in {"connect", "register", "schema"} => InHand(c) = {client[c].pool}
           /\ client[c].at = "close" => InHand(c) = client[c].left
           /\ client[c].at \notin {"connect", "register", "schema", "close"} => InHand(c) = {}
BY DEF InHand

(* Steps that leave what c has in hand as it is.                             *)
LEMMA HandKept ==
    ASSUME PoolsOwned, UNCHANGED poolVars, DOMAIN client' = Clients,
           \A d \in Clients : InHand(d)' = InHand(d)
    PROVE  PoolsOwned'
BY DEF PoolsOwned, poolVars

LEMMA PoolClosed ==
    ASSUME NEW p \in DOMAIN pools, pools \in Seq({"open", "closed"}), Close(p)
    PROVE  /\ pools' \in Seq({"open", "closed"}) /\ DOMAIN pools' = DOMAIN pools
           /\ pools'[p] = "closed" /\ \A q \in DOMAIN pools : q # p => pools'[q] = pools[q]
BY ExceptSeq DEF Close

(* Closing a pool in hand.                                                   *)
LEMMA HandCloses ==
    ASSUME PoolsOwned, NEW c \in Clients, NEW p \in InHand(c), Close(p),
           UNCHANGED <<connections, checkpointers>>, DOMAIN client' = Clients,
           InHand(c)' = InHand(c) \ {p}, \A d \in Clients \ {c} : InHand(d)' = InHand(d)
    PROVE  PoolsOwned'
<1>1. p \in DOMAIN pools /\ pools \in Seq({"open", "closed"})
  BY DEF PoolsOwned
<1>2. /\ pools' \in Seq({"open", "closed"}) /\ DOMAIN pools' = DOMAIN pools
      /\ pools'[p] = "closed" /\ \A q \in DOMAIN pools : q # p => pools'[q] = pools[q]
  BY <1>1, PoolClosed
<1>3. \A d \in Clients : InHand(d)' \subseteq InHand(d)
  OBVIOUS
<1>4. \A q \in DOMAIN pools' : pools'[q] = "open" =>
          \/ \E n \in DOMAIN connections' : connections'[n] = q
          \/ \E k \in checkpointers' : k.pool = q
          \/ \E d \in Clients : q \in InHand(d)'
  BY <1>2 DEF PoolsOwned
<1>5. \A n \in DOMAIN connections' : connections'[n] \in DOMAIN pools' /\ pools'[connections'[n]] = "open"
  BY <1>2 DEF PoolsOwned
<1>6. \A d \in Clients : p \notin InHand(d)'
  BY DEF PoolsOwned
<1>7. \A d \in Clients : \A q \in InHand(d)' : q \in DOMAIN pools' /\ pools'[q] = "open"
  BY <1>2, <1>3, <1>6 DEF PoolsOwned
<1> QED
  BY <1>2, <1>3, <1>4, <1>5, <1>7 DEF PoolsOwned

LEMMA OpenOwned ==
    ASSUME PoolsOwned, NEW c \in Clients, NEW purpose, Open(c, purpose)
    PROVE  PoolsOwned'
<1> DEFINE p == Len(pools) + 1
<1>1. /\ pools \in Seq({"open", "closed"}) /\ DOMAIN client = Clients /\ Len(pools) \in Nat
      /\ DOMAIN pools = 1..Len(pools)
  BY LenProperties DEF PoolsOwned
<1>2. /\ client[c].at = "idle" /\ pools' = Append(pools, "open")
      /\ client' = [client EXCEPT ![c] = [at |-> "connect", pool |-> p, purpose |-> purpose]]
      /\ connections' = connections /\ checkpointers' = checkpointers
  BY DEF Open, Free, Idle, Become
<1>3. /\ DOMAIN client' = Clients /\ InHand(c)' = {p} /\ InHand(c) = {}
      /\ \A d \in Clients \ {c} : InHand(d)' = InHand(d)
  <2> DEFINE r == [at |-> "connect", pool |-> p, purpose |-> purpose]
  <2>1. r.at = "connect" /\ r.pool = p /\ client' = [client EXCEPT ![c] = r]
    BY <1>2
  <2>2. InHand(c) = {}
    BY <1>2, Holds
  <2> HIDE DEF r, p
  <2> QED
    BY <1>1, <2>1, <2>2, Hands
<1>4. /\ pools' \in Seq({"open", "closed"}) /\ DOMAIN pools' = DOMAIN pools \cup {p}
      /\ pools'[p] = "open" /\ \A q \in DOMAIN pools : pools'[q] = pools[q]
      /\ p \notin DOMAIN pools
  BY <1>1, <1>2, AppendProperties
<1> HIDE DEF p
<1>5. \A q \in DOMAIN pools' : pools'[q] = "open" =>
          \/ \E n \in DOMAIN connections' : connections'[n] = q
          \/ \E k \in checkpointers' : k.pool = q
          \/ \E d \in Clients : q \in InHand(d)'
  BY <1>2, <1>3, <1>4 DEF PoolsOwned
<1> QED
  BY <1>2, <1>3, <1>4, <1>5 DEF PoolsOwned

LEMMA AddOwned ==
    ASSUME PoolsOwned, NEW c \in Clients, AddConnection(c)
    PROVE  PoolsOwned'
<1> DEFINE name == client[c].purpose
           p == client[c].pool
           old == IF name \in DOMAIN connections THEN {connections[name]} ELSE {}
<1>1. /\ client[c].at = "register" /\ connections' = With(connections, name, p)
      /\ pools' = pools /\ checkpointers' = checkpointers
      /\ client' = [client EXCEPT ![c] = IF name \in DOMAIN connections
                                         THEN [at |-> "close", left |-> {connections[name]}] ELSE Idle]
  BY DEF AddConnection, Become, Finish
<1>2. DOMAIN client = Clients /\ InHand(c) = {p}
  BY <1>1, Holds DEF PoolsOwned
<1>3. /\ DOMAIN client' = Clients /\ InHand(c)' = old
      /\ \A d \in Clients \ {c} : InHand(d)' = InHand(d)
  <2> DEFINE r == IF name \in DOMAIN connections
                  THEN [at |-> "close", left |-> {connections[name]}] ELSE Idle
  <2>1. name \in DOMAIN connections => r.at = "close" /\ r.left = old
    OBVIOUS
  <2>2. name \notin DOMAIN connections => r.at = "idle" /\ old = {}
    BY DEF Idle
  <2>3. client' = [client EXCEPT ![c] = r]
    BY <1>1
  <2> HIDE DEF r
  <2> QED
    BY ZenonT(40), <1>2, <2>1, <2>2, <2>3, Hands
<1>4. /\ DOMAIN connections' = DOMAIN connections \cup {name} /\ connections'[name] = p
      /\ \A n \in DOMAIN connections : n # name => connections'[n] = connections[n]
  BY <1>1 DEF With, WithAll
<1>5. /\ p \in DOMAIN pools /\ old \subseteq DOMAIN pools
      /\ \A n \in DOMAIN connections : connections[n] # p
      /\ \A k \in checkpointers : k.pool # p /\ k.pool \notin old
      /\ \A d \in Clients \ {c} : p \notin InHand(d) /\ old \cap InHand(d) = {}
  BY <1>2 DEF PoolsOwned
<1>6. p \notin old /\ \A n \in DOMAIN connections : n # name => connections[n] \notin old
  BY <1>5 DEF PoolsOwned
<1>7. pools[p] = "open" /\ \A q \in old : pools[q] = "open"
  BY <1>2 DEF PoolsOwned
<1> HIDE DEF p, old, name
<1>8. \A q \in DOMAIN pools' : pools'[q] = "open" =>
          \/ \E n \in DOMAIN connections' : connections'[n] = q
          \/ \E k \in checkpointers' : k.pool = q
          \/ \E d \in Clients : q \in InHand(d)'
  <2> SUFFICES ASSUME NEW q \in DOMAIN pools, pools[q] = "open"
               PROVE  \/ \E n \in DOMAIN connections' : connections'[n] = q
                      \/ \E k \in checkpointers : k.pool = q
                      \/ \E d \in Clients : q \in InHand(d)'
    BY <1>1
  <2>1. CASE \E n \in DOMAIN connections : connections[n] = q
    <3>1. PICK n \in DOMAIN connections : connections[n] = q
      BY <2>1
    <3>2. n = name => q \in old
      BY <3>1 DEF old
    <3> QED
      BY <1>3, <1>4, <3>1, <3>2
  <2>2. CASE \E d \in Clients : q \in InHand(d)
    BY <1>2, <1>3, <1>4, <2>2
  <2> QED
    BY <2>1, <2>2 DEF PoolsOwned
<1>9. \A m, n \in DOMAIN connections' : connections'[m] = connections'[n] => m = n
  BY <1>4, <1>5 DEF PoolsOwned
<1>10. \A d \in Clients, n \in DOMAIN connections' : connections'[n] \notin InHand(d)'
  BY <1>3, <1>4, <1>5, <1>6 DEF PoolsOwned
<1>11. \A d, e \in Clients : d # e => InHand(d)' \cap InHand(e)' = {}
  BY <1>3, <1>5 DEF PoolsOwned
<1>12. \A d \in Clients, k \in checkpointers' : k.pool \notin InHand(d)'
  BY <1>1, <1>3, <1>5 DEF PoolsOwned
<1>13. \A d \in Clients : \A q \in InHand(d)' : q \in DOMAIN pools' /\ pools'[q] = "open"
  BY <1>1, <1>3, <1>5, <1>7 DEF PoolsOwned
<1>14. \A n \in DOMAIN connections' : connections'[n] \in DOMAIN pools' /\ pools'[connections'[n]] = "open"
  BY <1>1, <1>4, <1>5, <1>7 DEF PoolsOwned
<1>15. \A k \in checkpointers', n \in DOMAIN connections' : k.pool # connections'[n]
  BY <1>1, <1>4, <1>5 DEF PoolsOwned
<1> QED
  BY <1>1, <1>3, <1>8, <1>9, <1>10, <1>11, <1>12, <1>13, <1>14, <1>15 DEF PoolsOwned

LEMMA CloseAllOwned ==
    ASSUME PoolsOwned, NEW c \in Clients, CloseAll(c)
    PROVE  PoolsOwned'
<1> DEFINE all == {connections[n] : n \in DOMAIN connections}
           r == [at |-> "close", left |-> all]
<1>1. /\ client[c].at = "idle" /\ connections' = <<>> /\ pools' = pools /\ checkpointers' = checkpointers
      /\ client' = [client EXCEPT ![c] = r]
  BY DEF CloseAll, Free, Idle, Become
<1>2. r.at = "close" /\ r.left = all /\ DOMAIN client = Clients
  BY DEF PoolsOwned
<1> HIDE DEF r
<1>3. /\ DOMAIN client' = Clients /\ InHand(c)' = all /\ InHand(c) = {}
      /\ \A d \in Clients \ {c} : InHand(d)' = InHand(d)
  BY <1>1, <1>2, Hands, Holds
<1>4. DOMAIN connections' = {}
  BY <1>1
<1>5. /\ \A q \in all : q \in DOMAIN pools /\ pools[q] = "open"
      /\ \A d \in Clients : all \cap InHand(d) = {}
      /\ \A k \in checkpointers : k.pool \notin all
  BY DEF PoolsOwned
<1>6. \A q \in DOMAIN pools' : pools'[q] = "open" =>
          \/ \E k \in checkpointers' : k.pool = q
          \/ \E d \in Clients : q \in InHand(d)'
  BY <1>1, <1>3 DEF PoolsOwned
<1>7. \A d, e \in Clients : d # e => InHand(d)' \cap InHand(e)' = {}
  <2> HIDE DEF all
  <2> QED
    BY <1>3, <1>5 DEF PoolsOwned
<1>8. \A d \in Clients, k \in checkpointers' : k.pool \notin InHand(d)'
  <2> HIDE DEF all
  <2> QED
    BY <1>1, <1>3, <1>5 DEF PoolsOwned
<1>9. \A d \in Clients : \A q \in InHand(d)' : q \in DOMAIN pools' /\ pools'[q] = "open"
  <2> HIDE DEF all
  <2> QED
    BY <1>1, <1>3, <1>5 DEF PoolsOwned
<1> QED
  BY <1>1, <1>3, <1>4, <1>6, <1>7, <1>8, <1>9 DEF PoolsOwned

LEMMA SchemaOwned ==
    ASSUME PoolsOwned, NEW c \in Clients, InitSchema(c)
    PROVE  PoolsOwned'
<1> DEFINE p == client[c].pool
           k == [pool |-> p, config |-> client[c].purpose]
<1>1. client[c].at = "schema" /\ client' = [client EXCEPT ![c] = Idle] /\ connections' = connections
  BY DEF InitSchema, Finish, Become
<1>2. DOMAIN client = Clients /\ InHand(c) = {p} /\ Idle.at = "idle"
  BY <1>1, Holds DEF PoolsOwned, Idle
<1>3. /\ DOMAIN client' = Clients /\ InHand(c)' = {}
      /\ \A d \in Clients \ {c} : InHand(d)' = InHand(d)
  BY <1>1, <1>2, Hands
<1>4. CASE Close(p) /\ checkpointers' = checkpointers
  <2>1. p \in InHand(c) /\ InHand(c)' = InHand(c) \ {p}
    BY <1>2, <1>3
  <2> HIDE DEF p
  <2> QED
    BY <1>1, <1>3, <1>4, <2>1, HandCloses
<1>5. CASE checkpointers' = checkpointers \union {k} /\ pools' = pools
  <2>1. k.pool = p /\ p \in DOMAIN pools /\ \A n \in DOMAIN connections : connections[n] # p
    BY <1>2 DEF PoolsOwned
  <2>2. \A d \in Clients \ {c} : p \notin InHand(d)
    BY <1>2 DEF PoolsOwned
  <2> HIDE DEF p, k
  <2>3. \A q \in DOMAIN pools' : pools'[q] = "open" =>
            \/ \E n \in DOMAIN connections' : connections'[n] = q
            \/ \E l \in checkpointers' : l.pool = q
            \/ \E d \in Clients : q \in InHand(d)'
    <3>1. \A d \in Clients : \A q \in InHand(d) : q = p \/ q \in InHand(d)'
      BY <1>2, <1>3
    <3> QED
      BY <1>1, <1>5, <2>1, <3>1 DEF PoolsOwned
  <2>4. \A d \in Clients : InHand(d)' \subseteq InHand(d) /\ p \notin InHand(d)'
    BY <1>3, <2>2
  <2> QED
    BY <1>1, <1>3, <1>5, <2>1, <2>3, <2>4 DEF PoolsOwned
<1> QED
  BY <1>4, <1>5 DEF InitSchema

LEMMA CheckpointerCloses ==
    ASSUME PoolsOwned, NEW c \in Clients, CloseCheckpointer(c)
    PROVE  PoolsOwned'
<1>1. PICK k \in checkpointers : Close(k.pool) /\ checkpointers' = checkpointers \ {k}
  BY DEF CloseCheckpointer
<1>2. client' = client /\ connections' = connections /\ \A d \in Clients : InHand(d)' = InHand(d)
  BY DEF CloseCheckpointer, InHand
<1> DEFINE p == k.pool
<1>3. p \in DOMAIN pools /\ pools \in Seq({"open", "closed"})
  BY DEF PoolsOwned
<1>4. /\ pools' \in Seq({"open", "closed"}) /\ DOMAIN pools' = DOMAIN pools
      /\ pools'[p] = "closed" /\ \A q \in DOMAIN pools : q # p => pools'[q] = pools[q]
  BY <1>1, <1>3, PoolClosed
<1>5. /\ \A n \in DOMAIN connections : connections[n] # p
      /\ \A d \in Clients : p \notin InHand(d)
  BY DEF PoolsOwned
<1>6. \A q \in DOMAIN pools' : pools'[q] = "open" =>
          \/ \E n \in DOMAIN connections' : connections'[n] = q
          \/ \E l \in checkpointers' : l.pool = q
          \/ \E d \in Clients : q \in InHand(d)'
  BY <1>1, <1>2, <1>4 DEF PoolsOwned
<1> QED
  BY <1>1, <1>2, <1>4, <1>5, <1>6 DEF PoolsOwned

LEMMA PoolsKept == ClientTyped /\ PoolsOwned /\ [DatabaseNext]_databaseVars => PoolsOwned'
<1> SUFFICES ASSUME ClientTyped, PoolsOwned, [DatabaseNext]_databaseVars PROVE PoolsOwned'
  OBVIOUS
<1>0. DOMAIN client = Clients
  BY DEF PoolsOwned
<1>1. ASSUME NEW c \in Clients, Connect(c) PROVE PoolsOwned'
  <2>1. client[c].at = "connect" /\ InHand(c) = {client[c].pool} /\ UNCHANGED <<connections, checkpointers>>
    BY <1>1, Holds DEF Connect
  <2>2. CASE Close(client[c].pool) /\ Finish(c)
    <3>1. client' = [client EXCEPT ![c] = Idle] /\ Idle.at = "idle"
      BY <2>2 DEF Finish, Become, Idle
    <3>2. /\ DOMAIN client' = Clients /\ InHand(c)' = {}
          /\ \A d \in Clients \ {c} : InHand(d)' = InHand(d)
      BY <1>0, <3>1, Hands
    <3> QED
      BY <2>1, <2>2, <3>2, HandCloses
  <2> DEFINE label == IF client[c].purpose \in ConnectionNames THEN "register" ELSE "schema"
             r == [client[c] EXCEPT !.at = label]
  <2>3. CASE pools' = pools /\ Become(c, r)
    <3>1. client' = [client EXCEPT ![c] = r]
      BY <2>3 DEF Become
    <3>2. r.pool = client[c].pool /\ r.at \in {"register", "schema"}
      BY <2>1 DEF ClientTyped
    <3> HIDE DEF r, label
    <3>4. InHand(c)' = {r.pool}
      BY <1>0, <3>1, <3>2, Hands
    <3>3. /\ DOMAIN client' = Clients /\ InHand(c)' = InHand(c)
          /\ \A d \in Clients \ {c} : InHand(d)' = InHand(d)
      BY <1>0, <2>1, <3>1, <3>2, <3>4, Hands
    <3>5. \A d \in Clients : InHand(d)' = InHand(d)
      BY <3>3
    <3> QED
      BY <2>1, <2>3, <3>3, <3>5, HandKept DEF poolVars
  <2> QED
    BY <1>1, <2>2, <2>3 DEF Connect
<1>2. ASSUME NEW c \in Clients, CloseNext(c) PROVE PoolsOwned'
  <2>1. PICK p \in client[c].left :
           /\ Close(p)
           /\ IF client[c].left = {p} THEN Finish(c) ELSE Become(c, [client[c] EXCEPT !.left = @ \ {p}])
    BY <1>2 DEF CloseNext
  <2>2. client[c].at = "close" /\ InHand(c) = client[c].left /\ UNCHANGED <<connections, checkpointers>>
    BY <1>2, Holds DEF CloseNext
  <2>3. /\ DOMAIN client' = Clients /\ InHand(c)' = InHand(c) \ {p}
        /\ \A d \in Clients \ {c} : InHand(d)' = InHand(d)
    <3>1. CASE client[c].left = {p}
      <4>1. client' = [client EXCEPT ![c] = Idle] /\ Idle.at = "idle"
        BY <2>1, <3>1 DEF Finish, Become, Idle
      <4> DEFINE i == Idle
      <4>2. client' = [client EXCEPT ![c] = i] /\ i.at = "idle"
        BY <4>1
      <4> HIDE DEF i
      <4>3. InHand(c) \ {p} = {}
        BY <2>2, <3>1
      <4> QED
        BY <1>0, <4>2, <4>3, Hands
    <3>2. CASE client[c].left # {p}
      <4> DEFINE r == [client[c] EXCEPT !.left = client[c].left \ {p}]
      <4>1. client' = [client EXCEPT ![c] = r]
        BY <2>1, <3>2 DEF Become
      <4>2. r.at = "close" /\ r.left = client[c].left \ {p}
        BY <2>2 DEF ClientTyped
      <4> HIDE DEF r
      <4> QED
        BY <1>0, <2>2, <4>1, <4>2, Hands
    <3> QED
      BY <3>1, <3>2
  <2>4. p \in InHand(c)
    BY <2>1, <2>2
  <2> QED
    BY <2>1, <2>2, <2>3, <2>4, HandCloses
<1>3. ASSUME NEW c \in Clients, UNCHANGED poolVars, InHand(c) = {},
             NEW r, client' = [client EXCEPT ![c] = r], r.at \notin {"connect", "register", "schema", "close"}
      PROVE  PoolsOwned'
  <2>1. /\ DOMAIN client' = Clients /\ InHand(c)' = InHand(c)
        /\ \A d \in Clients \ {c} : InHand(d)' = InHand(d)
    BY <1>0, <1>3, Hands
  <2> QED
    BY <1>3, <2>1, HandKept
<1>4. ASSUME NEW c \in Clients, SaveDocument(c) PROVE PoolsOwned'
  <2>1. PICK d \in Documents, t \in Threads \union {NoThread} :
           Become(c, [at |-> IF t = NoThread THEN "document" ELSE "thread", doc |-> d, thread |-> t,
                      threads |-> {}, documents |-> {}])
    BY <1>4 DEF SaveDocument
  <2> DEFINE r == [at |-> IF t = NoThread THEN "document" ELSE "thread", doc |-> d, thread |-> t,
                   threads |-> {}, documents |-> {}]
  <2>2. UNCHANGED poolVars
    BY <1>4 DEF SaveDocument
  <2>5. client[c].at = "idle"
    BY <1>4 DEF SaveDocument, Free, Idle
  <2>6. client' = [client EXCEPT ![c] = r]
    BY <2>1 DEF Become
  <2>3. r.at \notin {"connect", "register", "schema", "close"}
    OBVIOUS
  <2>4. InHand(c) = {}
    BY <2>5, Holds
  <2> HIDE DEF r
  <2> QED
    BY <1>3, <2>2, <2>3, <2>4, <2>6
<1>5. ASSUME NEW c \in Clients, InsertThread(c) \/ UpsertDocument(c) PROVE PoolsOwned'
  <2>1. PICK r : r = client'[c]
    OBVIOUS
  <2>2. UNCHANGED poolVars /\ client[c].at \in {"thread", "document"} /\ client' = [client EXCEPT ![c] = r]
    BY <1>0, <1>5, <2>1 DEF InsertThread, UpsertDocument, Become
  <2>3. r.at \in {"document", "commit"}
    BY <1>0, <1>5, <2>1 DEF InsertThread, UpsertDocument, Become, ClientTyped
  <2>4. InHand(c) = {}
    BY <2>2, Holds
  <2> QED
    BY <1>3, <2>2, <2>3, <2>4
<1>6. ASSUME NEW c \in Clients, Commit(c) \/ Rollback(c) \/ Leave(c) PROVE PoolsOwned'
  <2>1. /\ UNCHANGED poolVars /\ client' = [client EXCEPT ![c] = Idle] /\ Idle.at = "idle"
        /\ client[c].at \in {"thread", "document", "commit", "sessions"}
    BY <1>6 DEF Commit, Rollback, Leave, Transactions, Finish, Become, Idle
  <2>2. InHand(c) = {}
    BY <2>1, Holds
  <2> QED
    BY <1>3, <2>1, <2>2
<1>7. ASSUME NEW c \in Clients, GetConnection(c) PROVE PoolsOwned'
  <2>1. PICK n \in DOMAIN connections : Become(c, [at |-> "sessions", pool |-> connections[n]])
    BY <1>7 DEF GetConnection
  <2> DEFINE r == [at |-> "sessions", pool |-> connections[n]]
  <2>2. UNCHANGED poolVars
    BY <1>7 DEF GetConnection
  <2>3. client[c].at = "idle"
    BY <1>7 DEF GetConnection, Free, Idle
  <2>4. client' = [client EXCEPT ![c] = r] /\ r.at = "sessions"
    BY <2>1 DEF Become
  <2>5. InHand(c) = {}
    BY <2>3, Holds
  <2> HIDE DEF r
  <2> QED
    BY <1>3, <2>2, <2>4, <2>5
<1>8. ASSUME UNCHANGED <<poolVars, client>> PROVE PoolsOwned'
  BY <1>0, <1>8, HandKept DEF InHand
<1> QED
  BY <1>1, <1>2, <1>4, <1>5, <1>6, <1>7, <1>8, OpenOwned, AddOwned, CloseAllOwned, SchemaOwned, CheckpointerCloses
     DEF DatabaseNext, CreateThread, CreateSession, databaseVars

(* What a goroutine becomes, and the rows that go with it.                   *)
LEMMA BecomesTyped ==
    ASSUME ClientTyped, NEW c \in Clients, NEW r, client' = [client EXCEPT ![c] = r],
           "at" \in DOMAIN r,
           r.at = "connect" => "pool" \in DOMAIN r,
           r.at = "close" => "left" \in DOMAIN r,
           r.at \in {"thread", "document", "commit"} => {"thread", "threads", "documents"} \subseteq DOMAIN r
    PROVE  ClientTyped'
BY DEF ClientTyped

LEMMA FinishTyped ==
    ASSUME ClientTyped, NEW c \in Clients, Finish(c)
    PROVE  ClientTyped'
<1> DEFINE r == Idle
<1>1. client' = [client EXCEPT ![c] = r] /\ "at" \in DOMAIN r /\ r.at = "idle"
  BY DEF Finish, Become, Idle
<1> HIDE DEF r
<1> QED
  BY <1>1, BecomesTyped

LEMMA MovesTyped ==
    ASSUME ClientTyped, NEW c \in Clients, NEW label,
           Become(c, [client[c] EXCEPT !.at = label]),
           label = "connect" => "pool" \in DOMAIN client[c],
           label = "close" => "left" \in DOMAIN client[c],
           label \in {"thread", "document", "commit"} => {"thread", "threads", "documents"} \subseteq DOMAIN client[c]
    PROVE  ClientTyped'
<1> DEFINE r == [client[c] EXCEPT !.at = label]
<1>1. client' = [client EXCEPT ![c] = r] /\ DOMAIN r = DOMAIN client[c]
  BY DEF Become
<1>2. "at" \in DOMAIN r /\ r.at = label
  BY DEF ClientTyped
<1> HIDE DEF r
<1> QED
  BY <1>1, <1>2, BecomesTyped

LEMMA ClientKept == ClientTyped /\ [DatabaseNext]_databaseVars => ClientTyped'
<1> SUFFICES ASSUME ClientTyped, [DatabaseNext]_databaseVars PROVE ClientTyped'
  OBVIOUS
<1>1. ASSUME NEW c \in Clients, NEW purpose, Open(c, purpose) PROVE ClientTyped'
  <2> DEFINE r == [at |-> "connect", pool |-> Len(pools) + 1, purpose |-> purpose]
  <2>1. client' = [client EXCEPT ![c] = r] /\ "at" \in DOMAIN r /\ r.at = "connect" /\ "pool" \in DOMAIN r
    BY <1>1 DEF Open, Become
  <2> HIDE DEF r
  <2> QED
    BY <2>1, BecomesTyped
<1>2. ASSUME NEW c \in Clients, Connect(c) PROVE ClientTyped'
  <2> DEFINE label == IF client[c].purpose \in ConnectionNames THEN "register" ELSE "schema"
  <2>1. CASE Finish(c)
    BY <2>1, FinishTyped
  <2>2. CASE Become(c, [client[c] EXCEPT !.at = label])
    <3>1. label \in {"register", "schema"}
      OBVIOUS
    <3> HIDE DEF label
    <3> QED
      BY <2>2, <3>1, MovesTyped
  <2> QED
    BY <1>2, <2>1, <2>2 DEF Connect
<1>3. ASSUME NEW c \in Clients, NEW left, Become(c, [at |-> "close", left |-> left]) PROVE ClientTyped'
  <2> DEFINE r == [at |-> "close", left |-> left]
  <2>1. client' = [client EXCEPT ![c] = r] /\ "at" \in DOMAIN r /\ r.at = "close" /\ "left" \in DOMAIN r
    BY <1>3 DEF Become
  <2> HIDE DEF r
  <2> QED
    BY <2>1, BecomesTyped
<1>4. ASSUME NEW c \in Clients, AddConnection(c) PROVE ClientTyped'
  BY <1>3, <1>4, FinishTyped DEF AddConnection
<1>5. ASSUME NEW c \in Clients, CloseAll(c) PROVE ClientTyped'
  BY <1>3, <1>5 DEF CloseAll
<1>6. ASSUME NEW c \in Clients, CloseNext(c) PROVE ClientTyped'
  <2>1. PICK p \in client[c].left :
           IF client[c].left = {p} THEN Finish(c) ELSE Become(c, [client[c] EXCEPT !.left = client[c].left \ {p}])
    BY <1>6 DEF CloseNext
  <2> DEFINE r == [client[c] EXCEPT !.left = client[c].left \ {p}]
  <2>2. client[c].at = "close" /\ "left" \in DOMAIN client[c] /\ "at" \in DOMAIN client[c]
    BY <1>6 DEF CloseNext, ClientTyped
  <2>3. r.at = "close" /\ "at" \in DOMAIN r /\ "left" \in DOMAIN r
    BY <2>2
  <2>4. CASE client' = [client EXCEPT ![c] = r]
    <3> HIDE DEF r
    <3> QED
      BY <2>3, <2>4, BecomesTyped
  <2> QED
    BY <2>1, <2>4, FinishTyped DEF Become
<1>7. ASSUME NEW c \in Clients, SaveDocument(c) PROVE ClientTyped'
  <2>1. PICK d \in Documents, t \in Threads \union {NoThread} :
           Become(c, [at |-> IF t = NoThread THEN "document" ELSE "thread", doc |-> d, thread |-> t,
                      threads |-> {}, documents |-> {}])
    BY <1>7 DEF SaveDocument
  <2> DEFINE r == [at |-> IF t = NoThread THEN "document" ELSE "thread", doc |-> d, thread |-> t,
                   threads |-> {}, documents |-> {}]
  <2>2. client' = [client EXCEPT ![c] = r]
    BY <2>1 DEF Become
  <2>3. {"at", "thread", "threads", "documents"} \subseteq DOMAIN r /\ r.at \in {"thread", "document"}
    OBVIOUS
  <2> HIDE DEF r
  <2> QED
    BY <2>2, <2>3, BecomesTyped
<1>8. ASSUME NEW c \in Clients, InsertThread(c) PROVE ClientTyped'
  <2> DEFINE r == [client[c] EXCEPT !.at = "document", !.threads = {client[c].thread} \ DOMAIN threads]
  <2>1. client' = [client EXCEPT ![c] = r] /\ client[c].at = "thread"
    BY <1>8 DEF InsertThread, Become
  <2>2. DOMAIN r = DOMAIN client[c]
    OBVIOUS
  <2>3. {"at", "thread", "threads", "documents"} \subseteq DOMAIN client[c]
    BY <2>1 DEF ClientTyped
  <2>4. r.at = "document"
    BY <2>3
  <2> HIDE DEF r
  <2> QED
    BY <2>1, <2>2, <2>3, <2>4, BecomesTyped
<1>9. ASSUME NEW c \in Clients, UpsertDocument(c) PROVE ClientTyped'
  <2> DEFINE r == [client[c] EXCEPT !.at = "commit", !.documents = {client[c].doc}]
  <2>1. client' = [client EXCEPT ![c] = r] /\ client[c].at = "document"
    BY <1>9 DEF UpsertDocument, Become
  <2>2. DOMAIN r = DOMAIN client[c]
    OBVIOUS
  <2>3. {"at", "thread", "threads", "documents"} \subseteq DOMAIN client[c]
    BY <2>1 DEF ClientTyped
  <2>4. r.at = "commit"
    BY <2>3
  <2> HIDE DEF r
  <2> QED
    BY <2>1, <2>2, <2>3, <2>4, BecomesTyped
<1>10. ASSUME NEW c \in Clients, GetConnection(c) PROVE ClientTyped'
  <2>1. PICK n \in DOMAIN connections : Become(c, [at |-> "sessions", pool |-> connections[n]])
    BY <1>10 DEF GetConnection
  <2> DEFINE r == [at |-> "sessions", pool |-> connections[n]]
  <2>2. client' = [client EXCEPT ![c] = r] /\ r.at = "sessions" /\ "at" \in DOMAIN r
    BY <2>1 DEF Become
  <2> HIDE DEF r
  <2> QED
    BY <2>2, BecomesTyped
<1>11. ASSUME NEW c \in Clients, InitSchema(c) \/ Commit(c) \/ Rollback(c) \/ Leave(c) PROVE ClientTyped'
  BY <1>11, FinishTyped DEF InitSchema, Commit, Rollback, Leave
<1>12. ASSUME UNCHANGED client PROVE ClientTyped'
  BY <1>12 DEF ClientTyped
<1> QED
  BY <1>1, <1>2, <1>4, <1>5, <1>6, <1>7, <1>8, <1>9, <1>10, <1>11, <1>12
     DEF DatabaseNext, CloseCheckpointer, CreateThread, CreateSession, databaseVars

LEMMA RowsKept == ClientTyped /\ RowsJustified /\ [DatabaseNext]_databaseVars => RowsJustified'
<1> SUFFICES ASSUME ClientTyped, RowsJustified, [DatabaseNext]_databaseVars PROVE RowsJustified'
  OBVIOUS
<1> DEFINE Saving == {"thread", "document", "commit"}
<1>0. DOMAIN client = Clients
  BY DEF ClientTyped
<1>1. ASSUME NEW c \in Clients, NEW r, client' = [client EXCEPT ![c] = r], UNCHANGED <<threads, named>>,
             r.at \in Saving => r.threads \subseteq {r.thread}
      PROVE  RowsJustified'
  BY <1>0, <1>1 DEF RowsJustified
<1>2. ASSUME NEW c \in Clients, Finish(c), UNCHANGED <<threads, named>> PROVE RowsJustified'
  <2> DEFINE r == Idle
  <2>1. client' = [client EXCEPT ![c] = r] /\ r.at = "idle"
    BY <1>2 DEF Finish, Become, Idle
  <2> HIDE DEF r
  <2> QED
    BY <1>1, <1>2, <2>1
<1>3. ASSUME NEW c \in Clients, NEW purpose, Open(c, purpose) PROVE RowsJustified'
  <2> DEFINE r == [at |-> "connect", pool |-> Len(pools) + 1, purpose |-> purpose]
  <2>1. client' = [client EXCEPT ![c] = r] /\ r.at = "connect" /\ UNCHANGED <<threads, named>>
    BY <1>3 DEF Open, Become, tableVars
  <2> HIDE DEF r
  <2> QED
    BY <1>1, <2>1
<1>4. ASSUME NEW c \in Clients, Connect(c) PROVE RowsJustified'
  <2> DEFINE label == IF client[c].purpose \in ConnectionNames THEN "register" ELSE "schema"
             r == [client[c] EXCEPT !.at = label]
  <2>1. UNCHANGED <<threads, named>>
    BY <1>4 DEF Connect, tableVars
  <2>2. CASE Finish(c)
    BY <1>2, <2>1, <2>2
  <2>3. CASE client' = [client EXCEPT ![c] = r]
    <3>1. r.at = label /\ label \notin Saving
      BY DEF ClientTyped
    <3> HIDE DEF r, label
    <3> QED
      BY <1>1, <2>1, <2>3, <3>1
  <2> QED
    BY <1>4, <2>2, <2>3 DEF Connect, Become
<1>5. ASSUME NEW c \in Clients, NEW left, Become(c, [at |-> "close", left |-> left]), UNCHANGED <<threads, named>>
      PROVE  RowsJustified'
  <2> DEFINE r == [at |-> "close", left |-> left]
  <2>1. client' = [client EXCEPT ![c] = r] /\ r.at = "close"
    BY <1>5 DEF Become
  <2> HIDE DEF r
  <2> QED
    BY <1>1, <1>5, <2>1
<1>6. ASSUME NEW c \in Clients, AddConnection(c) \/ CloseAll(c) PROVE RowsJustified'
  <2>1. UNCHANGED <<threads, named>>
    BY <1>6 DEF AddConnection, CloseAll, tableVars
  <2> QED
    BY <1>2, <1>5, <1>6, <2>1 DEF AddConnection, CloseAll
<1>7. ASSUME NEW c \in Clients, CloseNext(c) PROVE RowsJustified'
  <2>1. UNCHANGED <<threads, named>>
    BY <1>7 DEF CloseNext, tableVars
  <2>2. PICK p \in client[c].left :
           IF client[c].left = {p} THEN Finish(c) ELSE Become(c, [client[c] EXCEPT !.left = client[c].left \ {p}])
    BY <1>7 DEF CloseNext
  <2> DEFINE r == [client[c] EXCEPT !.left = client[c].left \ {p}]
  <2>3. r.at = "close"
    BY <1>7 DEF CloseNext, ClientTyped
  <2>4. CASE client' = [client EXCEPT ![c] = r]
    <3> HIDE DEF r
    <3> QED
      BY <1>1, <2>1, <2>3, <2>4
  <2> QED
    BY <1>2, <2>1, <2>2, <2>4 DEF Become
<1>8. ASSUME NEW c \in Clients, SaveDocument(c) PROVE RowsJustified'
  <2>1. PICK d \in Documents, t \in Threads \union {NoThread} :
           Become(c, [at |-> IF t = NoThread THEN "document" ELSE "thread", doc |-> d, thread |-> t,
                      threads |-> {}, documents |-> {}])
    BY <1>8 DEF SaveDocument
  <2> DEFINE r == [at |-> IF t = NoThread THEN "document" ELSE "thread", doc |-> d, thread |-> t,
                   threads |-> {}, documents |-> {}]
  <2>2. client' = [client EXCEPT ![c] = r]
    BY <2>1 DEF Become
  <2>3. r.threads = {} /\ UNCHANGED <<threads, named>>
    BY <1>8 DEF SaveDocument, tableVars
  <2> HIDE DEF r
  <2> QED
    BY <1>1, <2>2, <2>3
<1>9. ASSUME NEW c \in Clients, InsertThread(c) PROVE RowsJustified'
  <2> DEFINE r == [client[c] EXCEPT !.at = "document", !.threads = {client[c].thread} \ DOMAIN threads]
  <2>1. client' = [client EXCEPT ![c] = r] /\ UNCHANGED <<threads, named>> /\ client[c].at = "thread"
    BY <1>9 DEF InsertThread, Become, tableVars
  <2>2. {"thread", "threads"} \subseteq DOMAIN client[c]
    BY <2>1 DEF ClientTyped
  <2>3. r.thread = client[c].thread /\ r.threads = {client[c].thread} \ DOMAIN threads
    BY <2>2
  <2> HIDE DEF r
  <2> QED
    BY <1>1, <2>1, <2>3
<1>10. ASSUME NEW c \in Clients, UpsertDocument(c) PROVE RowsJustified'
  <2> DEFINE r == [client[c] EXCEPT !.at = "commit", !.documents = {client[c].doc}]
  <2>1. client' = [client EXCEPT ![c] = r] /\ UNCHANGED <<threads, named>> /\ client[c].at = "document"
    BY <1>10 DEF UpsertDocument, Become, tableVars
  <2>2. {"thread", "threads"} \subseteq DOMAIN client[c] /\ client[c].threads \subseteq {client[c].thread}
    BY <2>1 DEF ClientTyped, RowsJustified
  <2>3. r.thread = client[c].thread /\ r.threads = client[c].threads
    BY <2>2
  <2> HIDE DEF r
  <2> QED
    BY <1>1, <2>1, <2>2, <2>3
<1>11. ASSUME NEW c \in Clients, Commit(c) PROVE RowsJustified'
  <2>1. /\ threads' = WithAll(threads, client[c].threads, "unnamed") /\ named' = named \union {client[c].thread}
        /\ client[c].threads \subseteq {client[c].thread}
    BY <1>11 DEF Commit, RowsJustified
  <2>2. \A t \in DOMAIN threads' : threads'[t] = "unnamed" => t \in named'
    BY <2>1 DEF WithAll, RowsJustified
  <2> DEFINE r == Idle
  <2>3. client' = [client EXCEPT ![c] = r] /\ r.at = "idle"
    BY <1>11 DEF Commit, Finish, Become, Idle
  <2> HIDE DEF r
  <2>4. \A d \in Clients : client'[d].at \in Saving => client'[d].threads \subseteq {client'[d].thread}
    BY <1>0, <2>3 DEF RowsJustified
  <2> QED
    BY <2>2, <2>4 DEF RowsJustified
<1>12. ASSUME NEW c \in Clients, InitSchema(c) \/ Rollback(c) \/ Leave(c) PROVE RowsJustified'
  <2>1. Finish(c) /\ UNCHANGED <<threads, named>>
    BY <1>12 DEF InitSchema, Rollback, Leave, tableVars
  <2> QED
    BY <1>2, <2>1
<1>13. ASSUME NEW c \in Clients, GetConnection(c) PROVE RowsJustified'
  <2>1. PICK n \in DOMAIN connections : Become(c, [at |-> "sessions", pool |-> connections[n]])
    BY <1>13 DEF GetConnection
  <2> DEFINE r == [at |-> "sessions", pool |-> connections[n]]
  <2>2. client' = [client EXCEPT ![c] = r] /\ r.at = "sessions" /\ UNCHANGED <<threads, named>>
    BY <1>13, <2>1 DEF Become, GetConnection, tableVars
  <2> HIDE DEF r
  <2> QED
    BY <1>1, <2>2
<1>14. ASSUME NEW c \in Clients, CreateThread(c) PROVE RowsJustified'
  <2>1. PICK t : threads' = With(threads, t, "named")
    BY <1>14 DEF CreateThread
  <2>2. \A u \in DOMAIN threads' : threads'[u] = "unnamed" => u \in DOMAIN threads /\ threads[u] = "unnamed"
    BY <2>1 DEF With, WithAll
  <2>3. UNCHANGED <<client, named>>
    BY <1>14 DEF CreateThread
  <2> QED
    BY <2>2, <2>3 DEF RowsJustified
<1>15. ASSUME UNCHANGED <<client, threads, named>> PROVE RowsJustified'
  BY <1>15 DEF RowsJustified
<1> QED
  BY <1>3, <1>4, <1>6, <1>7, <1>8, <1>9, <1>10, <1>11, <1>12, <1>13, <1>14, <1>15
     DEF DatabaseNext, CloseCheckpointer, CreateSession, databaseVars, tableVars

LEMMA DatabaseStarts == DatabaseInit => DatabaseInv
<1> SUFFICES ASSUME DatabaseInit PROVE DatabaseInv
  OBVIOUS
<1>1. \A c \in Clients : client[c].at = "idle" /\ "at" \in DOMAIN client[c]
  BY DEF DatabaseInit, Idle
<1>2. \A c \in Clients : InHand(c) = {}
  BY <1>1, Holds
<1>3. DOMAIN pools = {} /\ pools \in Seq({"open", "closed"}) /\ DOMAIN connections = {} /\ DOMAIN threads = {}
  BY EmptySeq DEF DatabaseInit
<1>4. DOMAIN client = Clients /\ checkpointers = {}
  BY DEF DatabaseInit
<1> QED
  BY <1>1, <1>2, <1>3, <1>4 DEF DatabaseInv, ClientTyped, PoolsOwned, RowsJustified

(* database.go: whatever connections fail, are replaced or closed by         *)
(* whichever goroutines, and wherever a transaction ends, no open pool is    *)
(* out of everyone's reach, the manager hands out no closed one, and a       *)
(* thread without a name is there only because of a document saved for it.   *)
THEOREM NothingLeaks == DatabaseSpec => []NothingIsLeaked
<1>1. DatabaseInv /\ [DatabaseNext]_databaseVars => DatabaseInv'
  BY ClientKept, PoolsKept, RowsKept DEF DatabaseInv
<1>2. DatabaseInv => NothingIsLeaked
  BY DEF DatabaseInv, PoolsOwned, RowsJustified, NothingIsLeaked
<1> QED
  BY <1>1, <1>2, DatabaseStarts, PTL DEF DatabaseSpec

-------------------------------------------------------------------------------
(* A provider's call: before an answer is begun nobody has seen any of it,   *)
(* and every attempt that is followed by another was worth one.              *)
Passing == {"rate", "unavailable"}
Errors == [kind : Passing \cup {"auth", "request", "context", "local"}, after : Int]
Attempts == [error : Errors, wait : Int]

Justified(n, a) ==
    n <= asked.retries /\ a.error.kind \in Passing /\ a.wait >= a.error.after /\ a.wait > 0

CallInv ==
    /\ asked \in Calls /\ delay \in Int /\ delay >= 1 /\ log \in Seq(Attempts)
    /\ pc = "begin" => log = <<>>
    /\ pc \in {"reading", "receive"} => Streams
    /\ pc \in {"begin", "check", "send", "wait"} => taken = 0
    /\ pc \in {"check", "send", "wait"} /\ log # <<>> => Justified(Len(log), log[Len(log)])

LEMMA ErrorsTyped ==
    ASSUME NEW f \in Failures PROVE ErrorOf(f) \in Errors
<1>1. f \in [kind : {"transport", "local", "status"}, status : Int, after : Int]
  BY CallAssumption
<1>2. ClassifyStatus(f.status) \in Passing \cup {"auth", "request"}
  BY <1>1 DEF ClassifyStatus, Passing
<1>3. CASE asked.provider = "ollama" /\ Streams
  BY <1>3 DEF ErrorOf, Errors, Passing
<1>4. CASE ~(asked.provider = "ollama" /\ Streams)
  <2>1. CASE f.kind = "transport"
    BY <1>4, <2>1 DEF ErrorOf, Errors, Passing
  <2>2. CASE f.kind = "local"
    BY <1>4, <2>2 DEF ErrorOf, Errors, LocalError
  <2>3. CASE f.kind = "status"
    BY <1>1, <1>2, <1>4, <2>3 DEF ErrorOf, Errors
  <2> QED
    BY <1>1, <2>1, <2>2, <2>3
<1> QED
  BY <1>3, <1>4

(* An attempt that fails is followed by a wait only if another may help. *)
LEMMA FailureLogged ==
    ASSUME CallInv, pc = "send", NEW err \in Errors, AttemptFails(err)
    PROVE  CallInv'
<1>1. delay \in Int /\ delay >= 1 /\ asked \in Calls /\ log \in Seq(Attempts) /\ taken = 0
  BY DEF CallInv
<1>2. UNCHANGED <<asked, delay, taken>>
  BY DEF AttemptFails
<1>3. asked.retries \in Int /\ Len(log) \in Nat
  BY <1>1, CallAssumption
<1>4. CASE MayRetry(err)
  <2> DEFINE a == [error |-> err, wait |-> Wait(err)]
  <2>1. a.wait \in Int /\ a.wait >= err.after /\ a.wait > 0 /\ a.error = err
    BY <1>1 DEF Wait, Errors
  <2>2. a \in Attempts /\ err.kind \in Passing /\ Len(log) < asked.retries
    BY <1>4, <2>1 DEF MayRetry, IsRetryable, Attempts, Passing
  <2>3. log' = Append(log, a) /\ pc' = "wait"
    BY <1>4 DEF AttemptFails, Logged
  <2> HIDE DEF a
  <2>4. log' \in Seq(Attempts) /\ Len(log') = Len(log) + 1 /\ log'[Len(log')] = a
    BY <1>1, <2>2, <2>3, AppendProperties
  <2>5. Justified(Len(log), log[Len(log)])'
    BY <1>2, <1>3, <2>1, <2>2, <2>4 DEF Justified
  <2> QED
    BY <1>1, <1>2, <2>3, <2>4, <2>5 DEF CallInv
<1>5. CASE ~MayRetry(err)
  <2> DEFINE a == [error |-> err, wait |-> 0]
  <2>1. log' = Append(log, a) /\ pc' = "done" /\ a \in Attempts
    BY <1>5 DEF AttemptFails, Logged, Fail, Return, Attempts
  <2> HIDE DEF a
  <2>2. log' \in Seq(Attempts)
    BY <1>1, <2>1, AppendProperties
  <2> QED
    BY <1>1, <1>2, <2>1, <2>2 DEF CallInv
<1> QED
  BY <1>4, <1>5

LEMMA StreamsKept == UNCHANGED asked => Streams' = Streams
BY DEF Streams, Path

LEMMA StreamsEnd == Streams /\ StreamEnds => pc' = "done"
BY DEF Streams, StreamEnds, Return, Fail

LEMMA CallKept == CallInv /\ [CallNext]_callVars => CallInv'
<1> SUFFICES ASSUME CallInv, [CallNext]_callVars PROVE CallInv'
  OBVIOUS
<1>0. asked \in Calls /\ delay \in Int /\ delay >= 1 /\ log \in Seq(Attempts) /\ asked.delay \in Int
  BY CallAssumption DEF CallInv
<1>1. CASE Begin
  <2>1. pc' \in {"check", "send", "done"} /\ UNCHANGED <<asked, log, taken>> /\ log = <<>> /\ taken = 0
    BY <1>1 DEF Begin, Fail, Return, CallInv
  <2>2. delay' \in Int /\ delay' >= 1
    BY <1>0, <1>1 DEF Begin
  <2> QED
    BY <1>0, <2>1, <2>2 DEF CallInv
<1>2. CASE CheckContext
  <2>1. pc = "check" /\ pc' \in {"send", "done"} /\ UNCHANGED <<asked, delay, log, taken>>
    BY <1>2 DEF CheckContext, Fail, Return
  <2> QED
    BY <2>1 DEF CallInv, Justified
<1>3. CASE Refuse
  <2>1. CASE AttemptFails(ContextError)
    <3>1. ContextError \in Errors
      BY DEF ContextError, Errors
    <3> QED
      BY <1>3, <2>1, <3>1, FailureLogged DEF Refuse
  <2>2. ASSUME NEW f \in Failures, AttemptFails(ErrorOf(f)) PROVE CallInv'
    BY <1>3, <2>2, ErrorsTyped, FailureLogged DEF Refuse
  <2> QED
    BY <1>3, <2>1, <2>2 DEF Refuse
<1>4. CASE AfterWait
  <2>1. pc = "wait" /\ pc' = "check" /\ UNCHANGED <<asked, log, taken>>
    BY <1>4 DEF AfterWait
  <2>2. delay' \in Int /\ delay' >= 1
    BY <1>0, <1>4 DEF AfterWait, MaxDelay
  <2> QED
    BY <2>1, <2>2 DEF CallInv, Justified
<1>5. CASE WaitCancelled
  BY <1>5 DEF WaitCancelled, Fail, Return, CallInv
<1>6. CASE AnswerWhole
  <2>1. PICK r \in Replies :
           \/ UNCHANGED <<asked, delay, log>> /\ pc' = "done"
           \/ AttemptFails(IF r.end = "error" /\ asked.provider # "openai"
                           THEN [kind |-> "request", after |-> 0] ELSE LocalError)
    BY <1>6 DEF AnswerWhole, Fail, Return
  <2>2. CASE UNCHANGED <<asked, delay, log>> /\ pc' = "done"
    BY <2>2 DEF CallInv
  <2>3. ASSUME NEW err \in {[kind |-> "request", after |-> 0], LocalError}, AttemptFails(err) PROVE CallInv'
    <3>1. err \in Errors
      BY DEF LocalError, Errors
    <3> QED
      BY <1>6, <2>3, <3>1, FailureLogged DEF AnswerWhole
  <2> QED
    BY <2>1, <2>2, <2>3
<1>7. CASE OpenStream
  BY <1>7, StreamsKept DEF OpenStream, CallInv
<1>8. CASE Look
  BY <1>8, StreamsKept DEF Look, Fail, Return, CallInv
<1>9. CASE Receive
  <2>1. pc' \in {"reading", "done"} /\ UNCHANGED <<asked, delay, log>>
    BY <1>9 DEF Receive, Callback, Fail, Return
  <2>2. Streams
    BY <1>9 DEF Receive, CallInv
  <2> QED
    BY <2>1, <2>2, StreamsKept DEF CallInv
<1>10. CASE ReceiveEnd
  <2>1. pc' = "done" /\ UNCHANGED <<asked, delay, log>>
    BY <1>10, StreamsEnd DEF ReceiveEnd, Fail, Return, CallInv
  <2> QED
    BY <2>1 DEF CallInv
<1>11. CASE ReceiveCancelled
  <2>1. pc' = "done" /\ UNCHANGED <<asked, delay, log>>
    BY <1>11, StreamsEnd DEF ReceiveCancelled, Fail, Return, CallInv
  <2> QED
    BY <2>1 DEF CallInv
<1>12. CASE ContextEnds
  BY <1>12, StreamsKept DEF ContextEnds, CallInv, Justified
<1>13. CASE UNCHANGED callVars
  BY <1>13, StreamsKept DEF callVars, CallInv, Justified
<1> QED
  BY <1>1, <1>2, <1>3, <1>4, <1>5, <1>6, <1>7, <1>8, <1>9, <1>10, <1>11, <1>12, <1>13 DEF CallNext, CallStep

(* Only two steps begin an attempt, and the second looks at the context. *)
LEMMA AttemptsBegin ==
    ASSUME CallInv, CallNext, pc # "send", pc' = "send"
    PROVE  /\ taken = 0
           /\ log # <<>> => ended = "no" /\ Justified(Len(log), log[Len(log)])
<1>1. Begin \/ CheckContext
  <2>1. ~ReceiveEnd /\ ~ReceiveCancelled
    BY StreamsEnd DEF CallInv, ReceiveEnd, ReceiveCancelled, Fail, Return
  <2>2. ~Refuse /\ ~AnswerWhole /\ ~OpenStream
    BY DEF Refuse, AnswerWhole, OpenStream
  <2>3. ~AfterWait /\ ~WaitCancelled /\ ~Look /\ ~Receive /\ ~ContextEnds
    BY DEF AfterWait, WaitCancelled, Look, Receive, Callback, ContextEnds, Fail, Return
  <2> QED
    BY <2>1, <2>2, <2>3 DEF CallNext, CallStep
<1>2. CASE Begin
  BY <1>2 DEF Begin, CallInv
<1>3. CASE CheckContext
  BY <1>3 DEF CheckContext, Fail, Return, CallInv
<1> QED
  BY <1>1, <1>2, <1>3

(* resilience.go, WithRetry, and the provider that calls it: the service is  *)
(* asked again only within the budget of retries, after a failure that may   *)
(* pass and the delay it asked for, for a caller still there who has seen    *)
(* nothing of an answer yet, whatever budget, delays and refusals there are. *)
THEOREM RetriesHelp == CallSpec => AttemptsAreJustified
<1>1. CallInit => CallInv
  <2> SUFFICES ASSUME CallInit PROVE CallInv
    OBVIOUS
  <2>1. log = <<>> /\ log \in Seq(Attempts)
    BY EmptySeq DEF CallInit
  <2> QED
    BY <2>1 DEF CallInit, CallInv
<1> DEFINE Good == pc # "send" /\ pc' = "send" =>
              /\ taken = 0
              /\ log # <<>> =>
                    LET last == log[Len(log)]
                    IN  /\ ended = "no" /\ Len(log) <= asked.retries
                        /\ last.error.kind \in {"rate", "unavailable"}
                        /\ last.wait >= last.error.after /\ last.wait > 0
<1>2. CallInv /\ [CallNext]_callVars => [Good]_callVars
  BY AttemptsBegin DEF Justified, Passing
<1> QED
  BY <1>1, <1>2, CallKept, PTL DEF CallSpec, AttemptsAreJustified

-------------------------------------------------------------------------------
(* The registry of providers, for any callers, names and modes.              *)
CONSTANTS Callers, ProviderNames, MaxProviders, Modes, None
VARIABLES providers, defaultProvider, closed, streaming, created, op, torn

Manager == INSTANCE ProviderManager WITH Names <- ProviderNames

Switching(c, o) == op[c].kind \in {"switch", "switched"} /\ op[c].object = o
Switched(c, o) == op[c].kind = "switched" /\ op[c].object = o

Switches == [kind : {"switch", "switched"}, object : Manager!Objects,
             first : {"enabled", "mode"}, mode : Modes]
Operating(it) ==
    \/ it.kind \in {"idle", "use"}
    \/ it = [kind |-> "survey", left |-> it.left]
    \/ it \in Switches

RegistryTyped ==
    /\ MaxProviders \in Nat /\ created \in 0 .. MaxProviders
    /\ providers = [n \in DOMAIN providers |-> providers[n]]
    /\ \A n \in DOMAIN providers : providers[n] \in Manager!Objects
    /\ defaultProvider \in IF DOMAIN providers = {} THEN {None} ELSE DOMAIN providers

SettingsTyped ==
    /\ streaming \in [Manager!Objects -> [enabled : BOOLEAN, mode : Modes \union {"auto"}]]
    /\ op = [c \in Callers |-> op[c]] /\ \A c \in Callers : Operating(op[c])

(* What holds of a provider's settings that no two callers edited at once:   *)
(* one caller at most is editing them, between its two writes the first      *)
(* field is as it wants it, and when nobody is, they go together.            *)
SettingsHold(o) ==
    /\ \A c, d \in Callers : Switching(c, o) /\ Switching(d, o) => c = d
    /\ \A c \in Callers : Switched(c, o) =>
          IF op[c].first = "enabled" THEN streaming[o].enabled = (op[c].mode # "none")
                                     ELSE streaming[o].mode = op[c].mode
    /\ (\A c \in Callers : ~Switched(c, o)) => ~(streaming[o].enabled /\ streaming[o].mode = "none")

ManagerInv ==
    /\ RegistryTyped /\ SettingsTyped
    /\ \A o \in Manager!Objects \ torn : SettingsHold(o)

LEMMA RegistryKept == RegistryTyped /\ [Manager!Next]_(Manager!managerVars) => RegistryTyped'
<1> SUFFICES ASSUME RegistryTyped, [Manager!Next]_(Manager!managerVars) PROVE RegistryTyped'
  OBVIOUS
<1> USE DEF RegistryTyped
<1>1. ASSUME NEW n \in ProviderNames, Manager!RegisterProvider(n) PROVE RegistryTyped'
  <2>1. /\ created' = created + 1 /\ created < MaxProviders
        /\ providers' = [x \in DOMAIN providers \union {n} |-> IF x = n THEN created' ELSE providers[x]]
    BY <1>1 DEF Manager!RegisterProvider
  <2>2. defaultProvider' = (IF defaultProvider = None THEN n ELSE defaultProvider)
    BY <1>1 DEF Manager!RegisterProvider
  <2>3. created' \in Manager!Objects /\ created' \in 0 .. MaxProviders
    BY <2>1 DEF Manager!Objects
  <2>4. \A x \in DOMAIN providers' : providers'[x] \in Manager!Objects
    BY <2>1, <2>3
  <2>5. defaultProvider' \in DOMAIN providers' /\ DOMAIN providers' # {}
    BY <2>1, <2>2
  <2>6. providers' = [x \in DOMAIN providers' |-> providers'[x]]
    BY <2>1
  <2> QED
    BY <2>3, <2>4, <2>5, <2>6
<1>2. ASSUME NEW n \in ProviderNames, Manager!UnregisterProvider(n) PROVE RegistryTyped'
  <2>1. providers' = [x \in DOMAIN providers \ {n} |-> providers[x]] /\ created' = created
    BY <1>2 DEF Manager!UnregisterProvider, Manager!Restrict
  <2>2. defaultProvider' \in Manager!NextDefault(n, DOMAIN providers')
    BY <1>2 DEF Manager!UnregisterProvider
  <2> QED
    BY <2>1, <2>2 DEF Manager!NextDefault, Manager!Objects
<1>3. ASSUME NEW n \in ProviderNames, Manager!SetDefaultProvider(n) PROVE RegistryTyped'
  BY <1>3 DEF Manager!SetDefaultProvider, Manager!Objects
<1>4. CASE UNCHANGED <<providers, defaultProvider, created>>
  BY <1>4 DEF Manager!Objects
<1> QED
  BY <1>1, <1>2, <1>3, <1>4 DEF Manager!Next, Manager!managerVars, Manager!Close, Manager!Lookup, Manager!Switch,
     Manager!WriteFirst, Manager!WriteSecond, Manager!Survey, Manager!Answer, Manager!Return

(* Whoever is not editing does not matter to any provider's settings. *)
LEMMA BecomesElse ==
    ASSUME SettingsTyped, NEW c \in Callers, NEW it, op' = [op EXCEPT ![c] = it], Operating(it),
           ~(it.kind \in {"switch", "switched"}), UNCHANGED <<streaming, torn>>,
           \A o \in Manager!Objects \ torn : SettingsHold(o), op[c].kind # "switched"
    PROVE  SettingsTyped' /\ \A o \in Manager!Objects \ torn' : SettingsHold(o)'
<1>1. SettingsTyped'
  BY DEF SettingsTyped, Manager!Objects, Operating, Switches
<1>2. ASSUME NEW o \in Manager!Objects \ torn' PROVE SettingsHold(o)'
  <2>1. SettingsHold(o) /\ streaming' = streaming
    OBVIOUS
  <2>2. \A d \in Callers : d # c => op'[d] = op[d]
    BY DEF SettingsTyped
  <2>3. op'[c] = it
    BY DEF SettingsTyped
  <2> QED
    BY <2>1, <2>2, <2>3 DEF SettingsHold, Switching, Switched
<1> QED
  BY <1>1, <1>2


(* The two writes of a caller that nobody edits the settings against. *)
LEMMA WritesKept ==
    ASSUME ManagerInv, NEW c \in Callers, Manager!WriteFirst(c) \/ Manager!WriteSecond(c)
    PROVE  SettingsTyped' /\ \A o \in Manager!Objects \ torn' : SettingsHold(o)'
<1> DEFINE it == op[c]
           field == IF it.kind = "switch" THEN it.first ELSE IF it.first = "mode" THEN "enabled" ELSE "mode"
           then == IF it.kind = "switch" THEN [it EXCEPT !.kind = "switched"] ELSE Manager!Idle
<1>1. it.kind \in {"switch", "switched"}
  BY DEF Manager!WriteFirst, Manager!WriteSecond
<1>2. it \in Switches
  BY <1>1 DEF ManagerInv, SettingsTyped, Operating
<1>3. /\ streaming' = [streaming EXCEPT ![it.object] = Manager!Written(@, field, it.mode)]
      /\ op' = [op EXCEPT ![c] = then] /\ torn' = torn
  BY <1>1 DEF Manager!WriteFirst, Manager!WriteSecond, Manager!Set
<1>4. field \in {"enabled", "mode"} /\ it.object \in Manager!Objects /\ it.mode \in Modes
  BY <1>2 DEF Switches
<1>5. SettingsTyped
  BY DEF ManagerInv
<1> DEFINE old == streaming[it.object]
           new == Manager!Written(old, field, it.mode)
<1>6. /\ new \in [enabled : BOOLEAN, mode : Modes \union {"auto"}]
      /\ field = "enabled" => new.enabled = (it.mode # "none") /\ new.mode = old.mode
      /\ field = "mode" => new.mode = it.mode /\ new.enabled = old.enabled
  BY <1>4, <1>5 DEF SettingsTyped, Manager!Written
<1>7. then.kind \in {"switched", "idle"} /\ Operating(then)
  BY <1>1, <1>2 DEF Operating, Switches, Manager!Idle
<1>8. it.kind = "switch" => then.kind = "switched" /\ then.object = it.object /\ then.first = it.first /\ then.mode = it.mode
  BY <1>2 DEF Switches
<1>9. it.kind = "switched" => then.kind = "idle"
  BY DEF Manager!Idle
<1>10. /\ streaming' \in [Manager!Objects -> [enabled : BOOLEAN, mode : Modes \union {"auto"}]]
       /\ streaming'[it.object] = new /\ \A o \in Manager!Objects \ {it.object} : streaming'[o] = streaming[o]
  BY <1>3, <1>4, <1>5, <1>6 DEF SettingsTyped
<1>11. op' = [d \in Callers |-> op'[d]] /\ op'[c] = then /\ \A d \in Callers \ {c} : op'[d] = op[d]
  BY <1>3, <1>5 DEF SettingsTyped
<1>12. SettingsTyped'
  BY <1>5, <1>7, <1>10, <1>11 DEF SettingsTyped, Manager!Objects, Operating, Switches
<1> HIDE DEF old, new, field, then
<1>13. ASSUME NEW o \in Manager!Objects \ torn' PROVE SettingsHold(o)'
  <2>1. SettingsHold(o)
    BY <1>3 DEF ManagerInv
  <2>2. CASE o # it.object
    <3>1. \A d \in Callers : (Switching(d, o)' => Switching(d, o)) /\ (Switched(d, o)' <=> Switched(d, o))
      BY <1>1, <1>7, <1>8, <1>9, <1>11, <2>2 DEF Switching, Switched
    <3>2. \A d \in Callers : Switched(d, o)' => d # c
      BY <1>1, <1>7, <1>8, <1>9, <1>11, <2>2 DEF Switching, Switched
    <3> QED
      BY <1>10, <1>11, <2>1, <2>2, <3>1, <3>2 DEF SettingsHold
  <2>3. CASE o = it.object
    <3>1. \A d \in Callers : Switching(d, o) <=> d = c
      BY <1>1, <2>1, <2>3 DEF SettingsHold, Switching
    <3>2. \A d \in Callers : Switching(d, o)' => d = c
      BY <1>11, <3>1 DEF Switching
    <3>3. \A d \in Callers : Switched(d, o)' => d = c
      BY <3>2 DEF Switching, Switched
    <3>4. CASE it.kind = "switch"
      <4>1. field = it.first /\ op'[c] = then
        BY <1>11, <3>4 DEF field
      <4>2. Switched(c, o)'
        BY <1>8, <1>11, <2>3, <3>4 DEF Switched
      <4>3. it.first \in {"enabled", "mode"}
        BY <1>2 DEF Switches
      <4> QED
        BY <1>6, <1>8, <1>10, <2>3, <3>2, <3>3, <3>4, <4>1, <4>2, <4>3 DEF SettingsHold
    <3>5. CASE it.kind = "switched"
      <4>1. \A d \in Callers : ~Switched(d, o)'
        BY <1>9, <1>11, <3>3, <3>5 DEF Switched
      <4>2. Switched(c, o)
        BY <2>3, <3>5 DEF Switched
      <4>3. IF it.first = "enabled" THEN old.enabled = (it.mode # "none") ELSE old.mode = it.mode
        BY <2>1, <2>3, <4>2 DEF SettingsHold, old
      <4>4. it.first \in {"enabled", "mode"} /\ field = IF it.first = "mode" THEN "enabled" ELSE "mode"
        BY <1>2, <3>5 DEF Switches, field
      <4>5. ~(new.enabled /\ new.mode = "none")
        BY <1>6, <4>3, <4>4
      <4> QED
        BY <1>10, <2>3, <3>2, <4>1, <4>5 DEF SettingsHold
    <3> QED
      BY <1>1, <3>4, <3>5
  <2> QED
    BY <2>2, <2>3
<1> QED
  BY <1>12, <1>13

(* A caller that begins to edit settings is alone with them, or they are torn. *)
LEMMA SwitchKept ==
    ASSUME ManagerInv, NEW c \in Callers, NEW n \in ProviderNames, NEW f \in {"enabled", "mode"}, NEW m \in Modes,
           Manager!Switch(c, n, f, m)
    PROVE  SettingsTyped' /\ \A o \in Manager!Objects \ torn' : SettingsHold(o)'
<1> DEFINE it == [kind |-> "switch", object |-> providers[n], first |-> f, mode |-> m]
<1>1. SettingsTyped /\ op[c].kind = "idle"
  BY DEF ManagerInv, Manager!Switch, Manager!Idle
<1>2. it \in Switches
  BY DEF ManagerInv, RegistryTyped, Switches, Manager!Switch
<1>3. op' = [op EXCEPT ![c] = it] /\ streaming' = streaming
  BY DEF Manager!Switch, Manager!Set
<1>4. op' = [d \in Callers |-> op'[d]] /\ op'[c] = it /\ \A d \in Callers \ {c} : op'[d] = op[d]
  BY <1>1, <1>3 DEF SettingsTyped
<1>5. SettingsTyped'
  BY <1>1, <1>2, <1>3, <1>4 DEF SettingsTyped, Manager!Objects, Operating, Switches
<1>6. torn' = torn \union {providers[n] : d \in {d \in Callers : op[d].kind \in {"switch", "switched"}
                                                                  /\ op[d].object = providers[n]}}
  BY DEF Manager!Switch
<1>7. ASSUME NEW o \in Manager!Objects \ torn' PROVE SettingsHold(o)'
  <2>1. SettingsHold(o)
    BY <1>6 DEF ManagerInv
  <2>2. o = providers[n] => \A d \in Callers : ~Switching(d, o)
    BY <1>6 DEF Switching
  <2>3. it.kind = "switch" /\ it.object = providers[n]
    OBVIOUS
  <2>4. \A d \in Callers : Switched(d, o)' => d # c /\ Switched(d, o)
    BY <1>4, <2>3 DEF Switched
  <2>5. \A d \in Callers : Switched(d, o) => d # c /\ Switched(d, o)'
    BY <1>1, <1>4 DEF Switched
  <2>6. \A d \in Callers : Switching(d, o)' => (d = c /\ o = providers[n]) \/ Switching(d, o)
    BY <1>4, <2>3 DEF Switching
  <2> HIDE DEF it
  <2> QED
    BY <1>3, <1>4, <2>1, <2>2, <2>4, <2>5, <2>6 DEF SettingsHold
<1> QED
  BY <1>5, <1>7

LEMMA ManagerKept == ManagerInv /\ [Manager!Next]_(Manager!managerVars) => ManagerInv'
<1> SUFFICES ASSUME ManagerInv, [Manager!Next]_(Manager!managerVars)
             PROVE  SettingsTyped' /\ \A o \in Manager!Objects \ torn' : SettingsHold(o)'
  BY RegistryKept DEF ManagerInv
<1>0. SettingsTyped /\ \A o \in Manager!Objects \ torn : SettingsHold(o)
  BY DEF ManagerInv
<1>1. CASE UNCHANGED <<streaming, op, torn>>
  BY <1>0, <1>1 DEF SettingsTyped, SettingsHold, Switching, Switched, Manager!Objects, Operating, Switches
<1>2. ASSUME NEW c \in Callers, NEW n \in ProviderNames \union {None}, Manager!Lookup(c, n)
      PROVE  SettingsTyped' /\ \A o \in Manager!Objects \ torn' : SettingsHold(o)'
  <2>1. op[c].kind = "idle"
    BY <1>2 DEF Manager!Lookup, Manager!Idle
  <2>2. defaultProvider # None => defaultProvider \in DOMAIN providers
    BY DEF ManagerInv, RegistryTyped
  <2>3. PICK o : op' = [op EXCEPT ![c] = [kind |-> "use", object |-> o]]
    BY <1>2, <2>2 DEF Manager!Lookup, Manager!Set
  <2> DEFINE it == [kind |-> "use", object |-> o]
  <2>4. it.kind = "use" /\ Operating(it)
    BY DEF Operating
  <2>5. UNCHANGED <<streaming, torn>>
    BY <1>2 DEF Manager!Lookup
  <2> HIDE DEF it
  <2>6. op' = [op EXCEPT ![c] = it]
    BY <2>3 DEF it
  <2> QED
    BY <1>0, <2>1, <2>4, <2>5, <2>6, BecomesElse
<1>3. ASSUME NEW c \in Callers, Manager!Survey(c) \/ Manager!Answer(c) \/ Manager!Return(c)
      PROVE  SettingsTyped' /\ \A o \in Manager!Objects \ torn' : SettingsHold(o)'
  <2>1. op[c].kind \in {"idle", "use", "survey"} /\ UNCHANGED <<streaming, torn>>
    BY <1>3 DEF Manager!Survey, Manager!Answer, Manager!Return, Manager!Idle
  <2>2. \E it : op' = [op EXCEPT ![c] = it] /\ it.kind \in {"idle", "survey"} /\ Operating(it)
    <3>1. CASE Manager!Survey(c)
      <4>1. Operating([kind |-> "survey", left |-> providers])
        BY DEF Operating
      <4> QED
        BY <3>1, <4>1 DEF Manager!Survey, Manager!Set
    <3>2. CASE Manager!Answer(c)
      <4>1. op[c] = [kind |-> "survey", left |-> op[c].left]
        BY <1>0, <3>2 DEF Manager!Answer, SettingsTyped, Operating, Switches
      <4>2. PICK n : op' = [op EXCEPT ![c] = [op[c] EXCEPT !.left = Manager!Restrict(@, DOMAIN @ \ {n})]]
        BY <3>2 DEF Manager!Answer, Manager!Set
      <4> DEFINE rest == Manager!Restrict(op[c].left, DOMAIN op[c].left \ {n})
      <4>3. op' = [op EXCEPT ![c] = [op[c] EXCEPT !.left = rest]]
        BY <4>2
      <4> HIDE DEF rest
      <4>4. [op[c] EXCEPT !.left = rest] = [kind |-> "survey", left |-> rest]
        BY <4>1
      <4>5. op' = [op EXCEPT ![c] = [kind |-> "survey", left |-> rest]]
        BY <4>3, <4>4
      <4>6. Operating([kind |-> "survey", left |-> rest])
        BY DEF Operating
      <4> QED
        BY <4>5, <4>6
    <3>3. CASE Manager!Return(c)
      <4>1. op' = [op EXCEPT ![c] = Manager!Idle]
        BY <3>3 DEF Manager!Return, Manager!Set
      <4>2. Manager!Idle.kind = "idle"
        BY DEF Manager!Idle
      <4> QED
        BY <4>1, <4>2 DEF Operating
    <3> QED
      BY <1>3, <3>1, <3>2, <3>3
  <2>3. PICK it : op' = [op EXCEPT ![c] = it] /\ it.kind \in {"idle", "survey"} /\ Operating(it)
    BY <2>2
  <2> QED
    BY <1>0, <2>1, <2>3, BecomesElse
<1> QED
  BY <1>1, <1>2, <1>3, SwitchKept, WritesKept DEF Manager!Next, Manager!managerVars, Manager!Close,
     Manager!RegisterProvider, Manager!UnregisterProvider, Manager!SetDefaultProvider

(* provider.go, ProviderManager: whatever is registered, removed, closed and *)
(* looked up by however many callers, while any provider is registered there *)
(* is a default and it is one of them, no call without a name meets a nil,   *)
(* and a provider's streaming settings go together unless two callers edited *)
(* them at once.                                                             *)
THEOREM DefaultIsThere ==
    ASSUME MaxProviders \in Nat
    PROVE  Manager!Init /\ [][Manager!Next]_(Manager!managerVars) => []Manager!RegistryIsConsistent
<1>1. Manager!Init => ManagerInv
  <2> SUFFICES ASSUME Manager!Init PROVE ManagerInv
    OBVIOUS
  <2>1. providers = <<>> /\ DOMAIN providers = {} /\ providers = [n \in DOMAIN providers |-> providers[n]]
    BY DEF Manager!Init
  <2>2. RegistryTyped
    BY <2>1 DEF Manager!Init, RegistryTyped
  <2>3. \A c \in Callers : op[c].kind = "idle"
    BY DEF Manager!Init, Manager!Idle
  <2>4. SettingsTyped
    BY <2>3 DEF Manager!Init, SettingsTyped, Operating, Manager!DefaultStreaming
  <2>5. \A o \in Manager!Objects : SettingsHold(o)
    BY <2>3 DEF Manager!Init, SettingsHold, Switching, Switched, Manager!DefaultStreaming
  <2> QED
    BY <2>2, <2>4, <2>5 DEF ManagerInv
<1>2. ManagerInv => Manager!RegistryIsConsistent
  <2> SUFFICES ASSUME ManagerInv PROVE Manager!RegistryIsConsistent
    OBVIOUS
  <2>1. providers = <<>> <=> DOMAIN providers = {}
    BY DEF ManagerInv, RegistryTyped
  <2>2. \A c \in Callers : op[c].kind # "panic"
    BY DEF ManagerInv, SettingsTyped, Operating, Switches
  <2> QED
    BY <2>1, <2>2 DEF ManagerInv, RegistryTyped, SettingsHold, Switched, Manager!RegistryIsConsistent
<1> QED
  BY <1>1, <1>2, ManagerKept, PTL

-------------------------------------------------------------------------------
(* The builder shortcuts, for any callers, environments and workflows.        *)
CONSTANTS Keys, Others, Places, MaxAgents, MaxAdded
VARIABLES quickConfig, added, quickAgents, busy, workflow, registered, execution, executions

Shortcut == INSTANCE QuickBuilder WITH config <- quickConfig, agents <- quickAgents, running <- busy,
                                       call <- execution, calls <- executions

Offered == {"openai", "gemini", "ollama"}

(* What is configured only grows, and each agent was given the best there was. *)
Suits(a) ==
    /\ a.provider \in a.among /\ a.among \subseteq DOMAIN quickConfig
    /\ a.provider # "openai" => "openai" \notin a.among
    /\ a.provider = "ollama" => a.among = {"ollama"}

ChoiceInv ==
    /\ quickAgents \in Seq([provider : Offered, among : SUBSET Offered])
    /\ DOMAIN quickConfig \subseteq Offered /\ "ollama" \in DOMAIN quickConfig
    /\ quickConfig["ollama"] = "environment"
    /\ \A i \in DOMAIN quickAgents : Suits(quickAgents[i])

(* The best of what is registered, with Ollama always among it.              *)
LEMMA BestIs ==
    ASSUME NEW available \in SUBSET Offered, "ollama" \in available,
           NEW best \in Shortcut!BestProvider(available)
    PROVE  /\ best \in available
           /\ best # "openai" => "openai" \notin available
           /\ best = "ollama" => available = {"ollama"}
<1> DEFINE known == {i \in DOMAIN Shortcut!Preferred : Shortcut!Preferred[i] \in available}
           first == CHOOSE i \in known : \A j \in known : i <= j
<1>1. /\ Shortcut!Preferred[1] = "openai" /\ Shortcut!Preferred[2] = "gemini" /\ Shortcut!Preferred[3] = "ollama"
      /\ DOMAIN Shortcut!Preferred = {1, 2, 3}
  BY DEF Shortcut!Preferred
<1>2. \A i : i \in known <=> i = 3 \/ (i = 1 /\ "openai" \in available) \/ (i = 2 /\ "gemini" \in available)
  BY <1>1
<1>3. known # {} /\ Shortcut!BestProvider(available) = {Shortcut!Preferred[first]}
  BY <1>2, Zenon DEF Shortcut!BestProvider
<1> HIDE DEF known
<1>4. \E i \in known : \A j \in known : i <= j
  BY <1>2
<1>5. first \in known /\ \A j \in known : first <= j
  BY <1>4
<1>6. best = Shortcut!Preferred[first]
  BY <1>3
<1> HIDE DEF first
<1>7. CASE first = 1
  <2>1. best = "openai" /\ "openai" \in available
    BY <1>1, <1>2, <1>5, <1>6, <1>7
  <2> QED
    BY <2>1
<1>8. CASE first = 2
  <2>1. best = "gemini" /\ "gemini" \in available /\ 1 \notin known
    BY <1>1, <1>2, <1>5, <1>6, <1>8
  <2> QED
    BY <1>2, <2>1
<1>9. CASE first = 3
  <2>1. best = "ollama" /\ 1 \notin known /\ 2 \notin known
    BY <1>1, <1>2, <1>5, <1>6, <1>9
  <2> QED
    BY <1>2, <2>1 DEF Offered
<1> QED
  BY <1>2, <1>5, <1>7, <1>8, <1>9

LEMMA ChoiceKept == ChoiceInv /\ [Shortcut!Next]_(Shortcut!vars) => ChoiceInv'
<1> SUFFICES ASSUME ChoiceInv, [Shortcut!Next]_(Shortcut!vars) PROVE ChoiceInv'
  OBVIOUS
<1>1. ASSUME NEW p \in Offered \union Others, NEW fine \in BOOLEAN, Shortcut!WithLLM(p, fine) PROVE ChoiceInv'
  <2>1. quickAgents' = quickAgents
    BY <1>1 DEF Shortcut!WithLLM
  <2>2. CASE quickConfig' = quickConfig
    BY <2>1, <2>2 DEF ChoiceInv, Suits
  <2>3. CASE /\ p \notin Others \union DOMAIN quickConfig
             /\ quickConfig' = [x \in DOMAIN quickConfig \union {p} |-> IF x = p THEN "program" ELSE quickConfig[x]]
    <3>1. DOMAIN quickConfig' = DOMAIN quickConfig \union {p} /\ p \in Offered
      BY <2>3
    <3>2. quickConfig'["ollama"] = quickConfig["ollama"]
      BY <2>3 DEF ChoiceInv
    <3> QED
      BY <2>1, <3>1, <3>2 DEF ChoiceInv, Suits
  <2> QED
    BY <1>1, <2>2, <2>3 DEF Shortcut!WithLLM
<1>2. ASSUME Shortcut!NewAgent PROVE ChoiceInv'
  <2>1. PICK best \in Shortcut!BestProvider(DOMAIN quickConfig) :
           quickAgents' = Append(quickAgents, [provider |-> best, among |-> DOMAIN quickConfig])
    BY <1>2 DEF Shortcut!NewAgent
  <2>2. quickConfig' = quickConfig
    BY <1>2 DEF Shortcut!NewAgent
  <2> DEFINE a == [provider |-> best, among |-> DOMAIN quickConfig]
  <2>3. Suits(a) /\ a \in [provider : Offered, among : SUBSET Offered]
    BY BestIs DEF ChoiceInv, Suits
  <2>4. quickAgents' = Append(quickAgents, a)
    BY <2>1
  <2>5. quickAgents \in Seq([provider : Offered, among : SUBSET Offered])
    BY DEF ChoiceInv
  <2> HIDE DEF a
  <2>6. /\ quickAgents' \in Seq([provider : Offered, among : SUBSET Offered])
        /\ \A i \in DOMAIN quickAgents' : quickAgents'[i] = a \/ (i \in DOMAIN quickAgents /\ quickAgents'[i] = quickAgents[i])
    BY <2>3, <2>4, <2>5
  <2> QED
    BY <2>2, <2>3, <2>6 DEF ChoiceInv, Suits
<1>3. CASE UNCHANGED <<quickConfig, quickAgents>>
  BY <1>3 DEF ChoiceInv, Suits
<1> QED
  BY <1>1, <1>2, <1>3 DEF Shortcut!Next, Shortcut!vars, Shortcut!building, Shortcut!NewWorkflow, Shortcut!Execute,
     Shortcut!Register, Shortcut!AgentBegins, Shortcut!AgentEnds, Shortcut!Return, Shortcut!Leave, Offered

-------------------------------------------------------------------------------
(* The workflow that is run: n agents under the names 1 to n.                 *)
Size == Len(workflow.members)
Own == [i \in 1 .. Size |-> i]

(* A pipeline has done its first agents and gives their results; a swarm has  *)
(* a result of whichever agent is done.                                      *)
InLine(work, results) ==
    LET k == Len(results) IN
    /\ k <= Size /\ \A j \in 1 .. k : work[j] = "done" /\ results[j].id = j
    /\ k < Size => \/ work[k + 1] \in {"ready", "running"} /\ \A j \in k + 2 .. Size : work[j] = "later"
                   \/ work[k + 1] = "failed" /\ \A j \in k + 2 .. Size : work[j] = "skipped"
AtOnce(work, results) ==
    /\ \A i \in 1 .. Size : work[i] \in {"ready", "running", "failed", "done"}
    /\ \A i \in 1 .. Size : work[i] = "done" => \E j \in 1 .. Len(results) : results[j].id = i

Results == Seq([id : 1 .. Size, by : Nat])

RunIsFine(r) ==
    /\ r = [at |-> "running", ids |-> Own, work |-> r.work, results |-> r.results]
    /\ r.work = [j \in 1 .. Size |-> r.work[j]] /\ r.results \in Results /\ workflow.ids = Own
    /\ \A j \in 1 .. Len(r.results) : r.results[j].by = workflow.members[r.results[j].id]
    /\ workflow.mode = "pipeline" => InLine(r.work, r.results)
    /\ workflow.mode = "swarm" => AtOnce(r.work, r.results)

AnswerIsFine(r) ==
    /\ r.at = "answered" => Len(r.results) = Size
    /\ \A i \in DOMAIN r.results : r.results[i].by = workflow.members[i]
    /\ r.at = "failed" => \E i \in DOMAIN r.work : r.work[i] = "failed"

Stands(r) ==
    \/ r.at = "idle"
    \/ r = [at |-> "register", ids |-> <<>>, work |-> <<>>, results |-> <<>>]
    \/ RunIsFine(r)
    \/ r.at \in {"answered", "failed"} /\ AnswerIsFine(r)

WorkflowInv ==
    /\ workflow = [mode |-> workflow.mode, members |-> workflow.members, ids |-> workflow.ids]
    /\ workflow.mode \in {"none", "pipeline", "swarm"} /\ workflow.members \in Seq(Nat)
    /\ workflow.ids \in {<<>>, Own}
    /\ workflow.ids # <<>> => registered = [i \in 1 .. Size |-> workflow.members[i]]
    /\ execution = [c \in Callers |-> execution[c]]
    /\ \A c \in Callers : Stands(execution[c])
    /\ workflow.mode = "none" => \A c \in Callers : execution[c].at = "idle"

(* The results of a swarm whose agents are all done are put in their order.  *)
LEMMA SizeOf == \A n \in Nat : Shortcut!Cardinality(1 .. n) = n
<1>1. \A S : Shortcut!Cardinality(S) = Cardinality(S)
  BY DEF Cardinality, Shortcut!Cardinality
<1>2. \A n \in Nat : Cardinality(1 .. n) = n
  BY FS_Interval
<1> QED
  BY <1>1, <1>2

AllIn(ids, results, n) ==
    /\ n \in Nat /\ ids = [i \in 1 .. n |-> i] /\ results \in Seq([id : 1 .. n, by : Nat])
    /\ \A i \in 1 .. n : \E j \in 1 .. Len(results) : results[j].id = i

InOrder(given, results, n) ==
    /\ DOMAIN given = 1 .. n /\ Len(given) = n
    /\ \A k \in 1 .. n : \E j \in 1 .. Len(results) : given[k] = results[j] /\ results[j].id = k

LEMMA OrderedIs ==
    ASSUME NEW ids, NEW results, NEW n, AllIn(ids, results, n)
    PROVE  InOrder(Shortcut!Ordered(ids, results), results, n)
<1>0. /\ n \in Nat /\ ids = [i \in 1 .. n |-> i] /\ results \in Seq([id : 1 .. n, by : Nat])
      /\ \A i \in 1 .. n : \E j \in 1 .. Len(results) : results[j].id = i
  BY DEF AllIn
<1> DEFINE by(i) == {j \in DOMAIN results : results[j].id = ids[i]}
           there == {i \in DOMAIN ids : by(i) # {}}
           place(k) == CHOOSE i \in there : Shortcut!Cardinality({h \in there : h <= i}) = k
           all == [k \in 1 .. Shortcut!Cardinality(there) |-> results[CHOOSE j \in by(place(k)) : TRUE]]
<1>1. DOMAIN results = 1 .. Len(results) /\ DOMAIN ids = 1 .. n /\ \A i \in 1 .. n : ids[i] = i
  BY <1>0
<1>2. there = 1 .. n
  <2>1. \A i \in 1 .. n : by(i) # {}
    BY <1>0, <1>1
  <2> HIDE DEF by
  <2> QED
    BY <1>1, <2>1
<1>8. all = Shortcut!Ordered(ids, results)
  BY Zenon DEF Shortcut!Ordered
<1> HIDE DEF there
<1>3. Shortcut!Cardinality(there) = n
  BY <1>0, <1>2, SizeOf
<1>4. ASSUME NEW i \in 1 .. n PROVE Shortcut!Cardinality({h \in there : h <= i}) = i
  <2>1. {h \in there : h <= i} = 1 .. i
    BY <1>0, <1>2
  <2>2. Shortcut!Cardinality(1 .. i) = i
    BY <1>0, SizeOf
  <2> QED
    BY <2>1, <2>2
<1>5. ASSUME NEW k \in 1 .. n PROVE place(k) = k
  <2>1. k \in there /\ Shortcut!Cardinality({h \in there : h <= k}) = k
    BY <1>2, <1>4
  <2>2. place(k) \in there /\ Shortcut!Cardinality({h \in there : h <= place(k)}) = k
    BY <2>1
  <2>3. place(k) \in 1 .. n
    BY <1>2, <2>2
  <2>4. Shortcut!Cardinality({h \in there : h <= place(k)}) = place(k)
    BY <1>4, <2>3
  <2> QED
    BY <2>2, <2>4
<1> HIDE DEF place
<1>6. ASSUME NEW k \in 1 .. n
      PROVE  \E j \in 1 .. Len(results) : all[k] = results[j] /\ results[j].id = k
  <2>1. PICK j \in 1 .. Len(results) : results[j].id = k
    BY <1>0
  <2>2. j \in by(k)
    BY <1>1, <2>1
  <2> DEFINE it == CHOOSE x \in by(k) : TRUE
  <2>3. it \in by(k)
    BY <2>2
  <2>4. it \in 1 .. Len(results) /\ results[it].id = k
    BY <1>1, <2>3
  <2>5. all[k] = results[it]
    BY <1>3, <1>5
  <2> QED
    BY <2>4, <2>5
<1>7. DOMAIN all = 1 .. n /\ Len(all) = n
  BY <1>0, <1>3
<1> HIDE DEF all
<1> QED
  BY <1>6, <1>7, <1>8 DEF InOrder

(* What a caller's call is stays so while the workflow is not given anew.     *)
LEMMA StandsOn ==
    ASSUME NEW r, Stands(r), workflow'.members = workflow.members, workflow'.mode = workflow.mode,
           workflow'.ids = workflow.ids \/ workflow'.ids = Own
    PROVE  Stands(r)'
<1>1. Size' = Size /\ Own' = Own
  BY DEF Size, Own
<1>2. RunIsFine(r) => RunIsFine(r)'
  <2> SUFFICES ASSUME RunIsFine(r) PROVE RunIsFine(r)'
    OBVIOUS
  <2>1. Results' = Results
    BY <1>1 DEF Results
  <2>2. workflow.mode = "pipeline" => InLine(r.work, r.results)'
    BY <1>1 DEF RunIsFine, InLine
  <2>3. workflow.mode = "swarm" => AtOnce(r.work, r.results)'
    BY <1>1 DEF RunIsFine, AtOnce
  <2>4. /\ r = [at |-> "running", ids |-> Own, work |-> r.work, results |-> r.results]
        /\ r.work = [j \in 1 .. Size |-> r.work[j]] /\ r.results \in Results /\ workflow.ids = Own
        /\ \A j \in 1 .. Len(r.results) : r.results[j].by = workflow.members[r.results[j].id]
    BY DEF RunIsFine
  <2> QED
    BY <1>1, <2>1, <2>2, <2>3, <2>4 DEF RunIsFine
<1>3. AnswerIsFine(r) => AnswerIsFine(r)'
  BY <1>1 DEF AnswerIsFine
<1> QED
  BY <1>2, <1>3 DEF Stands

(* One caller moves, and leaves the workflow alone.                           *)
LEMMA CallerMoves ==
    ASSUME WorkflowInv, NEW c \in Callers, NEW it, execution' = [execution EXCEPT ![c] = it],
           UNCHANGED <<workflow, registered>>, Stands(it), it.at = "idle" \/ workflow.mode # "none"
    PROVE  WorkflowInv'
<1>1. execution'[c] = it /\ execution' = [d \in Callers |-> execution'[d]]
      /\ \A d \in Callers \ {c} : execution'[d] = execution[d]
  BY DEF WorkflowInv
<1>2. \A r : Stands(r) => Stands(r)'
  BY StandsOn
<1>3. ASSUME NEW d \in Callers PROVE Stands(execution[d])'
  <2>1. PICK r : r = execution'[d]
    OBVIOUS
  <2>2. Stands(r)
    BY <1>1, <2>1 DEF WorkflowInv
  <2>3. Stands(r)'
    BY <1>2, <2>2
  <2> QED
    BY <2>1, <2>3
<1>4. Size' = Size /\ Own' = Own
  BY DEF Size, Own
<1>5. workflow'.mode = "none" => \A d \in Callers : execution'[d].at = "idle"
  BY <1>1 DEF WorkflowInv
<1> QED
  BY <1>1, <1>3, <1>4, <1>5 DEF WorkflowInv

(* The first caller registers the agents, each under its place.               *)
LEMMA RegisterKept ==
    ASSUME WorkflowInv, NEW c \in Callers, Shortcut!Register(c)
    PROVE  WorkflowInv'
<1> DEFINE ids == IF workflow.ids # <<>> THEN workflow.ids
                  ELSE [i \in DOMAIN workflow.members |-> Shortcut!AgentName(i)]
<1>1. PICK work : work = [i \in DOMAIN ids |-> IF i = 1 \/ workflow.mode = "swarm" THEN "ready" ELSE "later"]
  OBVIOUS
<1>2. PICK it : it = [at |-> "running", ids |-> Own, work |-> work, results |-> <<>>]
  OBVIOUS
<1>3. workflow.members \in Seq(Nat) /\ workflow.ids \in {<<>>, Own}
  BY DEF WorkflowInv
<1>4. DOMAIN workflow.members = 1 .. Size /\ Size \in Nat
  BY <1>3 DEF Size
<1>5. ids = Own /\ DOMAIN ids = 1 .. Size
  BY <1>3, <1>4 DEF Own, Shortcut!AgentName
<1>6. execution[c].at = "register"
  BY DEF Shortcut!Register
<1>7. execution[c] = [at |-> "register", ids |-> <<>>, work |-> <<>>, results |-> <<>>]
  <2>1. Stands(execution[c])
    BY DEF WorkflowInv
  <2>2. ~RunIsFine(execution[c])
    BY <1>6 DEF RunIsFine
  <2> QED
    BY <1>6, <2>1, <2>2 DEF Stands
<1>8. workflow.mode \in {"pipeline", "swarm"}
  BY <1>6 DEF WorkflowInv
<1>9. workflow' = [workflow EXCEPT !.ids = Own]
  BY <1>5, Zenon DEF Shortcut!Register
<1>10. workflow'.members = workflow.members /\ workflow'.mode = workflow.mode /\ workflow'.ids = Own
       /\ workflow' = [mode |-> workflow'.mode, members |-> workflow'.members, ids |-> workflow'.ids]
  BY <1>9 DEF WorkflowInv
<1>11. registered' = IF workflow.ids # <<>> THEN registered
                     ELSE [id \in Shortcut!ToSet(ids) |->
                              workflow.members[CHOOSE i \in DOMAIN ids : ids[i] = id]]
  BY Zenon DEF Shortcut!Register
<1>13. execution' = [execution EXCEPT ![c].at = "running", ![c].ids = ids, ![c].work = work]
  BY <1>1, Zenon DEF Shortcut!Register
<1> HIDE DEF ids
<1>12. registered' = [i \in 1 .. Size |-> workflow.members[i]]
  <2>1. CASE workflow.ids # <<>>
    BY <1>11, <2>1 DEF WorkflowInv
  <2>2. CASE workflow.ids = <<>>
    <3>1. \A i \in 1 .. Size : ids[i] = i
      BY <1>5 DEF Own
    <3>2. Shortcut!ToSet(ids) = 1 .. Size
      BY <1>5, <3>1 DEF Shortcut!ToSet
    <3>3. \A id \in 1 .. Size : (CHOOSE i \in DOMAIN ids : ids[i] = id) = id
      BY <1>5, <3>1
    <3> DEFINE spot(id) == CHOOSE i \in DOMAIN ids : ids[i] = id
    <3>4. registered' = [id \in 1 .. Size |-> workflow.members[spot(id)]]
      BY <1>11, <2>2, <3>2
    <3>5. \A id \in 1 .. Size : spot(id) = id
      BY <3>3
    <3> HIDE DEF spot
    <3> QED
      BY <3>4, <3>5
  <2> QED
    BY <2>1, <2>2
<1>14. execution' = [execution EXCEPT ![c] = it]
  <2>1. execution = [d \in Callers |-> execution[d]]
    BY DEF WorkflowInv
  <2>2. execution' = [execution EXCEPT ![c] = [execution[c] EXCEPT !.at = "running", !.ids = ids, !.work = work]]
    BY <1>13, <2>1
  <2>3. [execution[c] EXCEPT !.at = "running", !.ids = ids, !.work = work] = it
    <3>1. PICK b : b = execution[c]
      OBVIOUS
    <3>2. [b EXCEPT !.at = "running", !.ids = ids, !.work = work]
             = [at |-> "running", ids |-> ids, work |-> work, results |-> <<>>]
      <4>1. b = [at |-> "register", ids |-> <<>>, work |-> <<>>, results |-> <<>>]
        BY <1>7, <3>1
      <4>2. PICK one : one = [b EXCEPT !.at = "running"]
        OBVIOUS
      <4>3. PICK two : /\ two = [one EXCEPT !.ids = ids]
                       /\ [two EXCEPT !.work = work] = [b EXCEPT !.at = "running", !.ids = ids, !.work = work]
        BY <4>2
      <4>4. one \in [at : {"running"}, ids : {<<>>}, work : {<<>>}, results : {<<>>}]
        BY <4>1, <4>2
      <4>5. two \in [at : {"running"}, ids : {ids}, work : {<<>>}, results : {<<>>}]
        BY <4>3, <4>4
      <4>6. [two EXCEPT !.work = work] = [at |-> "running", ids |-> ids, work |-> work, results |-> <<>>]
        BY <4>5
      <4> QED
        BY <4>3, <4>6
    <3> QED
      BY <1>2, <1>5, <3>1, <3>2
  <2> QED
    BY <2>2, <2>3
<1>15. Size' = Size /\ Own' = Own
  BY <1>10 DEF Size, Own
<1>16. execution'[c] = it /\ execution' = [d \in Callers |-> execution'[d]]
       /\ \A d \in Callers \ {c} : execution'[d] = execution[d]
  BY <1>14 DEF WorkflowInv
<1>17. RunIsFine(it)'
  <2>1. it = [at |-> "running", ids |-> Own, work |-> it.work, results |-> it.results] /\ it.results = <<>> /\ it.work = work
    BY <1>2
  <2>2. work = [j \in 1 .. Size |-> work[j]] /\ <<>> \in Results /\ Len(<<>>) = 0
    BY <1>1, <1>5 DEF Results
  <2>3. workflow.mode = "pipeline" => InLine(work, <<>>)
    BY <1>1, <1>4, <1>5, <2>2 DEF InLine
  <2>4. workflow.mode = "swarm" => AtOnce(work, <<>>)
    BY <1>1, <1>5 DEF AtOnce
  <2>5. (workflow.mode = "pipeline" => InLine(it.work, it.results))'
    BY <1>10, <1>15, <2>1, <2>3 DEF InLine
  <2>6. (workflow.mode = "swarm" => AtOnce(it.work, it.results))'
    BY <1>10, <1>15, <2>1, <2>4 DEF AtOnce
  <2>7. Results' = Results
    BY <1>15 DEF Results
  <2> QED
    BY <1>10, <1>15, <2>1, <2>2, <2>5, <2>6, <2>7 DEF RunIsFine
<1>18. ASSUME NEW d \in Callers PROVE Stands(execution[d])'
  <2>1. PICK r : r = execution'[d]
    OBVIOUS
  <2>2. Stands(r)'
    <3>1. CASE d = c
      BY <1>16, <1>17, <2>1, <3>1 DEF Stands
    <3>2. CASE d # c
      <4>1. Stands(r)
        BY <1>16, <2>1, <3>2 DEF WorkflowInv
      <4> QED
        BY <1>10, <4>1, StandsOn
    <3> QED
      BY <3>1, <3>2
  <2> QED
    BY <2>1, <2>2 DEF Stands, RunIsFine, AnswerIsFine
<1>19. (workflow.ids \in {<<>>, Own} /\ (workflow.ids # <<>> => registered = [i \in 1 .. Size |-> workflow.members[i]]))'
  BY <1>10, <1>12, <1>15
<1> QED
  BY <1>3, <1>8, <1>10, <1>16, <1>18, <1>19 DEF WorkflowInv

LEMMA Runs ==
    ASSUME WorkflowInv, NEW c \in Callers, execution[c].at = "running"
    PROVE  /\ RunIsFine(execution[c]) /\ workflow.mode \in {"pipeline", "swarm"} /\ Size \in Nat
           /\ Size # 0 => registered = [i \in 1 .. Size |-> workflow.members[i]]
<1>1. Stands(execution[c]) /\ workflow.members \in Seq(Nat)
  BY DEF WorkflowInv
<1>2. RunIsFine(execution[c])
  <2>1. ~(execution[c] = [at |-> "register", ids |-> <<>>, work |-> <<>>, results |-> <<>>])
    OBVIOUS
  <2> QED
    BY <1>1, <2>1 DEF Stands
<1>3. workflow.mode \in {"pipeline", "swarm"}
  BY DEF WorkflowInv
<1>4. Size \in Nat
  BY <1>1 DEF Size
<1>5. Size # 0 => Own # <<>>
  BY <1>4 DEF Own
<1>6. Size # 0 => registered = [i \in 1 .. Size |-> workflow.members[i]]
  BY <1>2, <1>5 DEF WorkflowInv, RunIsFine
<1> QED
  BY <1>2, <1>3, <1>4, <1>6

(* A running call's work and results become w and res. *)
Moves(c, w, res) ==
    \/ execution' = [execution EXCEPT ![c].work = w, ![c].results = res]
    \/ execution' = [execution EXCEPT ![c].work = w] /\ res = execution[c].results

LEMMA RunBecomes ==
    ASSUME WorkflowInv, NEW c \in Callers, execution[c].at = "running", NEW w, NEW res, Moves(c, w, res)
    PROVE  execution' = [execution EXCEPT ![c] = [at |-> "running", ids |-> Own, work |-> w, results |-> res]]
<1>1. RunIsFine(execution[c])
  BY Runs
<1>2. PICK r : r = execution[c]
  OBVIOUS
<1>3. PICK own, was, had : own = Own /\ was = r.work /\ had = r.results
  OBVIOUS
<1>4. r \in [at : {"running"}, ids : {own}, work : {was}, results : {had}]
  BY <1>1, <1>2, <1>3 DEF RunIsFine
<1>5. execution = [d \in Callers |-> execution[d]]
  BY DEF WorkflowInv
<1>6. execution' = [execution EXCEPT ![c] = [at |-> "running", ids |-> own, work |-> w, results |-> res]]
  <2>1. CASE execution' = [execution EXCEPT ![c].work = w, ![c].results = res]
    <3>1. PICK one : /\ one = [r EXCEPT !.work = w]
                     /\ execution' = [execution EXCEPT ![c] = [one EXCEPT !.results = res]]
      BY <1>2, <1>5, <2>1
    <3>2. one \in [at : {"running"}, ids : {own}, work : {w}, results : {had}]
      BY <1>4, <3>1
    <3>3. [one EXCEPT !.results = res] = [at |-> "running", ids |-> own, work |-> w, results |-> res]
      BY <3>2
    <3> QED
      BY <3>1, <3>3
  <2>2. CASE execution' = [execution EXCEPT ![c].work = w] /\ res = execution[c].results
    <3>1. execution' = [execution EXCEPT ![c] = [r EXCEPT !.work = w]]
      BY <1>2, <2>2
    <3>2. [r EXCEPT !.work = w] = [at |-> "running", ids |-> own, work |-> w, results |-> had]
      BY <1>4
    <3> QED
      BY <1>2, <1>3, <2>2, <3>1, <3>2
  <2> QED
    BY <2>1, <2>2 DEF Moves
<1> QED
  BY <1>3, <1>6

(* A running call goes on with other work and other results.                 *)
(* A running call goes on with other work and other results.                 *)
LEMMA RunMoves ==
    ASSUME WorkflowInv, NEW c \in Callers, execution[c].at = "running", NEW w, NEW res, Moves(c, w, res),
           UNCHANGED <<workflow, registered>>, w = [j \in 1 .. Size |-> w[j]], res \in Results,
           \A j \in 1 .. Len(res) : res[j].by = workflow.members[res[j].id],
           workflow.mode = "pipeline" => InLine(w, res), workflow.mode = "swarm" => AtOnce(w, res)
    PROVE  WorkflowInv'
<1>1. RunIsFine(execution[c])
  BY Runs
<1>5. execution' = [execution EXCEPT ![c] = [at |-> "running", ids |-> Own, work |-> w, results |-> res]]
  BY RunBecomes
<1>6. PICK it : it = [at |-> "running", ids |-> Own, work |-> w, results |-> res] /\ execution' = [execution EXCEPT ![c] = it]
  BY <1>5
<1>7. RunIsFine(it)
  <2>1. workflow.ids = Own
    BY <1>1 DEF RunIsFine
  <2>2. it.work = w /\ it.results = res /\ it = [at |-> "running", ids |-> Own, work |-> it.work, results |-> it.results]
    BY <1>6
  <2> QED
    BY <2>1, <2>2 DEF RunIsFine
<1>8. Stands(it) /\ workflow.mode # "none"
  BY <1>7, Runs DEF Stands
<1> QED
  BY <1>6, <1>8, CallerMoves

LEMMA AgentBeginsKept ==
    ASSUME WorkflowInv, NEW c \in Callers, NEW i \in DOMAIN workflow.members, Shortcut!AgentBegins(c, i)
    PROVE  WorkflowInv'
<1> DEFINE r == execution[c]
           k == Len(r.results)
<1>1. execution[c].at = "running" /\ r.work[i] = "ready" /\ UNCHANGED <<workflow, registered>>
  BY DEF Shortcut!AgentBegins, Shortcut!building
<1>2. RunIsFine(r) /\ workflow.mode \in {"pipeline", "swarm"} /\ Size \in Nat
  BY <1>1, Runs
<1>20. DOMAIN r.work = 1 .. Size /\ k \in Nat
  BY <1>2 DEF RunIsFine, Results
<1>3. r.work = [j \in 1 .. Size |-> r.work[j]] /\ DOMAIN r.work = 1 .. Size /\ r.results \in Results /\ k \in Nat
      /\ \A j \in 1 .. Len(r.results) : r.results[j].by = workflow.members[r.results[j].id]
  BY <1>2 DEF RunIsFine, Results
<1>4. workflow.mode = "pipeline" => InLine(r.work, r.results)
  BY <1>2 DEF RunIsFine
<1>5. workflow.mode = "swarm" => AtOnce(r.work, r.results)
  BY <1>2 DEF RunIsFine
<1>6. i \in 1 .. Size
  BY DEF WorkflowInv, Size
<1>7. \E how \in {"failed", "running"} : \E w :
         /\ w = [j \in 1 .. Size |-> IF j = i THEN how
                                     ELSE IF how = "failed" /\ r.work[j] = "later" THEN "skipped" ELSE r.work[j]]
         /\ execution' = [execution EXCEPT ![c].work = w]
  <2>1. CASE execution' = [execution EXCEPT ![c].work =
                [j \in DOMAIN @ |-> IF j = i THEN "failed" ELSE IF @[j] = "later" THEN "skipped" ELSE @[j]]]
    <3>1. execution' = [execution EXCEPT ![c].work =
             [j \in 1 .. Size |-> IF j = i THEN "failed"
                                  ELSE IF "failed" = "failed" /\ r.work[j] = "later" THEN "skipped" ELSE r.work[j]]]
      BY <1>3, <2>1
    <3> QED
      BY <3>1
  <2>2. CASE execution' = [execution EXCEPT ![c].work[i] = "running"]
    <3> DEFINE w == [j \in 1 .. Size |-> IF j = i THEN "running"
                        ELSE IF "running" = "failed" /\ r.work[j] = "later" THEN "skipped" ELSE r.work[j]]
    <3>1. [r.work EXCEPT ![i] = "running"] = w
      BY <1>3, <1>6
    <3> QED
      BY <2>2, <3>1
  <2> QED
    BY <2>1, <2>2 DEF Shortcut!AgentBegins
<1>14. PICK how \in {"failed", "running"} : \E w :
         /\ w = [j \in 1 .. Size |-> IF j = i THEN how
                                     ELSE IF how = "failed" /\ r.work[j] = "later" THEN "skipped" ELSE r.work[j]]
         /\ execution' = [execution EXCEPT ![c].work = w]
  BY <1>7
<1>15. PICK w :
         /\ w = [j \in 1 .. Size |-> IF j = i THEN how
                                     ELSE IF how = "failed" /\ r.work[j] = "later" THEN "skipped" ELSE r.work[j]]
         /\ execution' = [execution EXCEPT ![c].work = w]
  BY <1>14
<1>8. w = [j \in 1 .. Size |-> w[j]] /\ w[i] = how
      /\ \A j \in (1 .. Size) \ {i} : w[j] = IF how = "failed" /\ r.work[j] = "later" THEN "skipped" ELSE r.work[j]
  BY <1>6, <1>15
<1>9. workflow.mode = "pipeline" => InLine(w, r.results)
  <2> SUFFICES ASSUME workflow.mode = "pipeline" PROVE InLine(w, r.results)
    OBVIOUS
  <2>1. /\ k <= Size /\ \A j \in 1 .. k : r.work[j] = "done" /\ r.results[j].id = j
        /\ k < Size => \/ r.work[k + 1] \in {"ready", "running"} /\ \A j \in k + 2 .. Size : r.work[j] = "later"
                       \/ r.work[k + 1] = "failed" /\ \A j \in k + 2 .. Size : r.work[j] = "skipped"
    BY <1>4 DEF InLine
  <2> HIDE DEF r, k
  <2>2. i = k + 1 /\ k < Size
    BY <1>1, <1>2, <1>6, <1>20, <2>1
  <2>3. \A j \in k + 2 .. Size : r.work[j] = "later"
    BY <1>1, <2>1, <2>2
  <2>4. \A j \in 1 .. k : w[j] = "done"
    BY <1>2, <1>8, <1>20, <2>1, <2>2
  <2>5. w[k + 1] = how /\ \A j \in k + 2 .. Size : w[j] = IF how = "failed" THEN "skipped" ELSE "later"
    BY <1>2, <1>8, <1>14, <1>20, <2>2, <2>3
  <2> QED
    BY <1>14, <2>1, <2>2, <2>4, <2>5 DEF InLine, k
<1>10. workflow.mode = "swarm" => AtOnce(w, r.results)
  <2> SUFFICES ASSUME workflow.mode = "swarm" PROVE AtOnce(w, r.results)
    OBVIOUS
  <2>1. /\ \A j \in 1 .. Size : r.work[j] \in {"ready", "running", "failed", "done"}
        /\ \A j \in 1 .. Size : r.work[j] = "done" => \E h \in 1 .. Len(r.results) : r.results[h].id = j
    BY <1>5 DEF AtOnce
  <2> HIDE DEF r
  <2>2. \A j \in (1 .. Size) \ {i} : w[j] = r.work[j]
    BY <1>8, <2>1
  <2> QED
    BY <1>14, <1>8, <2>1, <2>2 DEF AtOnce
<1>11. PICK res : res = r.results
  OBVIOUS
<1>12. Moves(c, w, res)
  BY <1>11, <1>15 DEF Moves
<1>13. /\ w = [j \in 1 .. Size |-> w[j]] /\ res \in Results
       /\ \A j \in 1 .. Len(res) : res[j].by = workflow.members[res[j].id]
       /\ workflow.mode = "pipeline" => InLine(w, res)
       /\ workflow.mode = "swarm" => AtOnce(w, res)
  BY <1>3, <1>8, <1>9, <1>10, <1>11
<1> HIDE DEF r, k
<1> QED
  BY <1>1, <1>12, <1>13, RunMoves

LEMMA AgentEndsKept ==
    ASSUME WorkflowInv, NEW c \in Callers, NEW i \in DOMAIN workflow.members, Shortcut!AgentEnds(c, i)
    PROVE  WorkflowInv'
<1> DEFINE r == execution[c]
           k == Len(r.results)
<1>1. execution[c].at = "running" /\ r.work[i] = "running" /\ UNCHANGED <<workflow, registered>>
  BY DEF Shortcut!AgentEnds, Shortcut!building
<1>2. RunIsFine(r) /\ workflow.mode \in {"pipeline", "swarm"} /\ Size \in Nat
  BY <1>1, Runs
<1>20. DOMAIN r.work = 1 .. Size /\ k \in Nat
  BY <1>2 DEF RunIsFine, Results
<1>3. r.work = [j \in 1 .. Size |-> r.work[j]] /\ DOMAIN r.work = 1 .. Size /\ r.results \in Results /\ k \in Nat
      /\ r.ids = Own /\ \A j \in 1 .. Len(r.results) : r.results[j].by = workflow.members[r.results[j].id]
  BY <1>2 DEF RunIsFine, Results
<1>4. workflow.mode = "pipeline" => InLine(r.work, r.results)
  BY <1>2 DEF RunIsFine
<1>5. workflow.mode = "swarm" => AtOnce(r.work, r.results)
  BY <1>2 DEF RunIsFine
<1>6. i \in 1 .. Size /\ workflow.members[i] \in Nat
  BY DEF WorkflowInv, Size
<1>7. r.ids[i] = i /\ registered[i] = workflow.members[i]
  BY <1>1, <1>3, <1>6, Runs DEF Own
<1>8. PICK how \in {"done", "failed"} : Shortcut!Ended(c, i, how)
  BY DEF Shortcut!AgentEnds
<1>9. PICK w : w = [j \in 1 .. Size |-> IF j = i THEN how ELSE IF r.work[j] # "later" THEN r.work[j]
                          ELSE IF how = "failed" THEN "skipped" ELSE IF j = i + 1 THEN "ready" ELSE "later"]
  OBVIOUS
<1>10. PICK one : one = [id |-> i, by |-> workflow.members[i]]
  OBVIOUS
<1>11. PICK res : res = IF how = "done" THEN Append(r.results, one) ELSE r.results
  OBVIOUS
<1>12. execution' = [execution EXCEPT ![c].work = w, ![c].results = res]
  <2>1. execution' = [execution EXCEPT
          ![c].work = [j \in DOMAIN @ |-> IF j = i THEN how ELSE IF @[j] # "later" THEN @[j]
                          ELSE IF how = "failed" THEN "skipped" ELSE IF j = i + 1 THEN "ready" ELSE "later"],
          ![c].results = IF how = "done" THEN Append(@, [id |-> r.ids[i], by |-> registered[r.ids[i]]]) ELSE @]
    BY <1>8 DEF Shortcut!Ended
  <2>2. c \in DOMAIN execution
    BY DEF WorkflowInv
  <2>3. w = [j \in DOMAIN r.work |-> IF j = i THEN how ELSE IF r.work[j] # "later" THEN r.work[j]
                  ELSE IF how = "failed" THEN "skipped" ELSE IF j = i + 1 THEN "ready" ELSE "later"]
    BY <1>3, <1>9
  <2>4. res = IF how = "done" THEN Append(r.results, [id |-> r.ids[i], by |-> registered[r.ids[i]]]) ELSE r.results
    BY <1>7, <1>10, <1>11
  <2> QED
    BY <2>1, <2>2, <2>3, <2>4
<1>13. w = [j \in 1 .. Size |-> w[j]] /\ w[i] = how
       /\ \A j \in (1 .. Size) \ {i} : w[j] = IF r.work[j] # "later" THEN r.work[j]
              ELSE IF how = "failed" THEN "skipped" ELSE IF j = i + 1 THEN "ready" ELSE "later"
  BY <1>6, <1>9
<1>14. one \in [id : 1 .. Size, by : Nat] /\ one.id = i /\ one.by = workflow.members[one.id]
  BY <1>6, <1>10
<1>15. /\ res \in Results /\ Len(res) = IF how = "done" THEN k + 1 ELSE k
       /\ \A j \in 1 .. k : res[j] = r.results[j]
       /\ how = "done" => res[k + 1] = one
  <2>1. r.results \in Seq([id : 1 .. Size, by : Nat])
    BY <1>3 DEF Results
  <2>2. PICK S, old : S = [id : 1 .. Size, by : Nat] /\ old = r.results
    OBVIOUS
  <2>3. old \in Seq(S) /\ one \in S
    BY <1>14, <2>1, <2>2
  <2>4. /\ Append(old, one) \in Seq(S) /\ Len(Append(old, one)) = Len(old) + 1
        /\ \A j \in 1 .. Len(old) : Append(old, one)[j] = old[j]
        /\ Append(old, one)[Len(old) + 1] = one
    BY <2>3, AppendProperties
  <2>5. CASE how = "done"
    <3>1. res = Append(old, one)
      BY <1>11, <2>2, <2>5
    <3> QED
      BY <2>2, <2>4, <2>5, <3>1 DEF Results
  <2>6. CASE how = "failed"
    <3>1. res = old
      BY <1>11, <2>2, <2>6
    <3> QED
      BY <2>2, <2>3, <2>6, <3>1 DEF Results
  <2> QED
    BY <1>8, <2>5, <2>6
<1>16. \A j \in 1 .. Len(res) : res[j].by = workflow.members[res[j].id]
  <2> HIDE DEF r
  <2>1. \A j \in 1 .. Len(res) : j \in 1 .. k \/ (how = "done" /\ j = k + 1)
    BY <1>3, <1>8, <1>15
  <2> QED
    BY <1>3, <1>14, <1>15, <2>1
<1>17. workflow.mode = "pipeline" => InLine(w, res)
  <2> SUFFICES ASSUME workflow.mode = "pipeline" PROVE InLine(w, res)
    OBVIOUS
  <2>1. /\ k <= Size /\ \A j \in 1 .. k : r.work[j] = "done" /\ r.results[j].id = j
        /\ k < Size => \/ r.work[k + 1] \in {"ready", "running"} /\ \A j \in k + 2 .. Size : r.work[j] = "later"
                       \/ r.work[k + 1] = "failed" /\ \A j \in k + 2 .. Size : r.work[j] = "skipped"
    BY <1>4 DEF InLine
  <2> HIDE DEF r, k
  <2>2. i = k + 1 /\ k < Size
    BY <1>1, <1>2, <1>6, <1>20, <2>1
  <2>3. \A j \in k + 2 .. Size : r.work[j] = "later"
    BY <1>1, <2>1, <2>2
  <2>4. \A j \in 1 .. k : w[j] = "done" /\ res[j].id = j
    BY <1>2, <1>13, <1>15, <1>20, <2>1, <2>2
  <2>5. w[k + 1] = how
    BY <1>13, <2>2
  <2>6. \A j \in k + 2 .. Size : w[j] = IF how = "failed" THEN "skipped" ELSE IF j = k + 2 THEN "ready" ELSE "later"
    BY <1>2, <1>13, <1>20, <2>2, <2>3
  <2>7. CASE how = "failed"
    BY <1>15, <2>1, <2>2, <2>4, <2>5, <2>6, <2>7 DEF InLine
  <2>8. CASE how = "done"
    <3>1. Len(res) = k + 1 /\ k + 1 <= Size
      BY <1>2, <1>3, <1>15, <2>2, <2>8
    <3>2. \A j \in 1 .. k + 1 : w[j] = "done" /\ res[j].id = j
      BY <1>3, <1>14, <1>15, <2>2, <2>4, <2>5, <2>8
    <3>3. k + 1 < Size => w[(k + 1) + 1] = "ready" /\ \A j \in (k + 1) + 2 .. Size : w[j] = "later"
      BY <1>2, <1>20, <2>6, <2>8
    <3> QED
      BY <3>1, <3>2, <3>3 DEF InLine
  <2> QED
    BY <1>8, <2>7, <2>8
<1>18. workflow.mode = "swarm" => AtOnce(w, res)
  <2> SUFFICES ASSUME workflow.mode = "swarm" PROVE AtOnce(w, res)
    OBVIOUS
  <2>1. /\ \A j \in 1 .. Size : r.work[j] \in {"ready", "running", "failed", "done"}
        /\ \A j \in 1 .. Size : r.work[j] = "done" => \E h \in 1 .. Len(r.results) : r.results[h].id = j
    BY <1>5 DEF AtOnce
  <2> HIDE DEF r, k
  <2>2. \A j \in (1 .. Size) \ {i} : w[j] = r.work[j]
    BY <1>13, <2>1
  <2>3. ASSUME NEW j \in 1 .. Size, w[j] = "done" PROVE \E h \in 1 .. Len(res) : res[h].id = j
    <3>1. CASE j = i
      <4>1. how = "done" /\ k + 1 \in 1 .. Len(res) /\ res[k + 1].id = i
        BY <1>3, <1>13, <1>14, <1>15, <2>3, <3>1
      <4> QED
        BY <3>1, <4>1
    <3>2. CASE j # i
      <4>1. PICK h \in 1 .. Len(r.results) : r.results[h].id = j
        BY <2>1, <2>2, <2>3, <3>2
      <4>2. h \in 1 .. Len(res) /\ res[h] = r.results[h]
        BY <1>3, <1>15, <4>1 DEF k
      <4> QED
        BY <4>1, <4>2
    <3> QED
      BY <3>1, <3>2
  <2> QED
    BY <1>8, <1>13, <2>1, <2>2, <2>3 DEF AtOnce
<1>19. Moves(c, w, res) /\ w = [j \in 1 .. Size |-> w[j]] /\ res \in Results
  BY <1>12, <1>13, <1>15 DEF Moves
<1> HIDE DEF r, k
<1> QED
  BY <1>1, <1>16, <1>17, <1>18, <1>19, RunMoves

(* What a caller is given when all its agents are done with.                 *)
LEMMA ReturnKept ==
    ASSUME WorkflowInv, NEW c \in Callers, Shortcut!Return(c)
    PROVE  WorkflowInv'
<1> DEFINE r == execution[c]
           k == Len(r.results)
           all == \A i \in DOMAIN r.work : r.work[i] = "done"
<1>1. /\ r.at = "running" /\ UNCHANGED <<workflow, registered>>
      /\ \A i \in DOMAIN r.work : r.work[i] \in {"done", "failed", "skipped"}
  BY DEF Shortcut!Return, Shortcut!building
<1>2. RunIsFine(r) /\ workflow.mode \in {"pipeline", "swarm"} /\ Size \in Nat
  BY <1>1, Runs
<1>20. DOMAIN r.work = 1 .. Size /\ k \in Nat
  BY <1>2 DEF RunIsFine, Results
<1>3. r.work = [j \in 1 .. Size |-> r.work[j]] /\ DOMAIN r.work = 1 .. Size /\ r.results \in Results /\ k \in Nat
      /\ r.ids = Own /\ \A j \in 1 .. Len(r.results) : r.results[j].by = workflow.members[r.results[j].id]
  BY <1>2 DEF RunIsFine, Results
<1>4. workflow.mode = "pipeline" => InLine(r.work, r.results)
  BY <1>2 DEF RunIsFine
<1>5. workflow.mode = "swarm" => AtOnce(r.work, r.results)
  BY <1>2 DEF RunIsFine
<1>6. PICK given : given = IF workflow.mode = "pipeline" THEN r.results
                           ELSE IF \E i \in DOMAIN r.work : r.work[i] # "done" THEN <<>>
                           ELSE Shortcut!Ordered(r.ids, r.results)
  OBVIOUS
<1>7. PICK it : it = [at |-> IF all THEN "answered" ELSE "failed", ids |-> Own, work |-> r.work, results |-> given]
  OBVIOUS
<1>8. execution = [d \in Callers |-> execution[d]]
  BY DEF WorkflowInv
<1>9. execution' = [execution EXCEPT ![c] = it]
  <2>1. execution' = [execution EXCEPT ![c].at = IF all THEN "answered" ELSE "failed", ![c].results = given]
    BY <1>6, <1>8 DEF Shortcut!Return
  <2>2. PICK b : b = execution[c]
    OBVIOUS
  <2>3. b \in [at : {"running"}, ids : {Own}, work : {r.work}, results : {r.results}]
    BY <1>2, <2>2 DEF RunIsFine
  <2>4. PICK one : /\ one = [b EXCEPT !.at = IF all THEN "answered" ELSE "failed"]
                   /\ execution' = [execution EXCEPT ![c] = [one EXCEPT !.results = given]]
    BY <1>8, <2>1, <2>2
  <2>5. one \in [at : {IF all THEN "answered" ELSE "failed"}, ids : {Own}, work : {r.work}, results : {r.results}]
    BY <2>3, <2>4
  <2>6. [one EXCEPT !.results = given] = it
    BY <1>7, <2>5
  <2> QED
    BY <2>4, <2>6
<1>10. it.at \in {"answered", "failed"} /\ it.work = r.work /\ it.results = given /\ (it.at = "answered" <=> all)
  BY <1>7
<1>11. AnswerIsFine(it)
  <2>1. CASE workflow.mode = "pipeline"
    <3>1. given = r.results
      BY <1>6, <2>1
    <3>2. /\ k <= Size /\ \A j \in 1 .. k : r.work[j] = "done" /\ r.results[j].id = j
          /\ k < Size => \/ r.work[k + 1] \in {"ready", "running"} /\ \A j \in k + 2 .. Size : r.work[j] = "later"
                         \/ r.work[k + 1] = "failed" /\ \A j \in k + 2 .. Size : r.work[j] = "skipped"
      BY <1>4, <2>1 DEF InLine
    <3>3. DOMAIN r.results = 1 .. k /\ \A j \in 1 .. k : r.results[j].by = workflow.members[r.results[j].id]
      BY <1>3 DEF Results
    <3> HIDE DEF r, k
    <3>4. k < Size => r.work[k + 1] = "failed" /\ k + 1 \in DOMAIN r.work /\ ~all
      BY <1>1, <1>2, <1>3, <3>2
    <3>5. k = Size => all
      BY <1>3, <3>2
    <3>6. all => k = Size
      BY <1>2, <1>3, <3>2, <3>4
    <3>7. \A j \in DOMAIN given : given[j].by = workflow.members[j]
      BY <3>1, <3>2, <3>3
    <3>8. ~all => \E j \in DOMAIN it.work : it.work[j] = "failed"
      BY <1>2, <1>3, <1>10, <3>2, <3>4, <3>5
    <3> HIDE DEF all
    <3> QED
      BY <1>10, <3>1, <3>6, <3>7, <3>8 DEF AnswerIsFine, k
  <2>2. CASE workflow.mode = "swarm" /\ ~all
    <3>1. given = <<>> /\ DOMAIN given = {}
      BY <1>6, <2>2
    <3>2. \E j \in DOMAIN r.work : r.work[j] = "failed"
      BY <1>1, <1>3, <1>5, <2>2 DEF AtOnce
    <3> HIDE DEF all, r
    <3> QED
      BY <1>10, <2>2, <3>1, <3>2 DEF AnswerIsFine
  <2>3. CASE workflow.mode = "swarm" /\ all
    <3>1. given = Shortcut!Ordered(r.ids, r.results)
      BY <1>6, <2>3
    <3>2. \A i \in 1 .. Size : \E j \in 1 .. Len(r.results) : r.results[j].id = i
      BY <1>3, <1>5, <2>3 DEF AtOnce
    <3>3. InOrder(given, r.results, Size)
      <4>1. AllIn(r.ids, r.results, Size)
        BY <1>2, <1>3, <3>2 DEF AllIn, Own, Results
      <4>2. PICK ids, results, n : ids = r.ids /\ results = r.results /\ n = Size
        OBVIOUS
      <4>3. AllIn(ids, results, n)
        BY <4>1, <4>2
      <4>4. InOrder(Shortcut!Ordered(ids, results), results, n)
        BY <4>3, OrderedIs
      <4>5. given = Shortcut!Ordered(ids, results)
        BY <3>1, <4>2
      <4> QED
        BY <4>2, <4>4, <4>5
    <3>4. \A i \in 1 .. Size : given[i].by = workflow.members[i]
      <4>1. \A j \in 1 .. Len(r.results) : r.results[j].by = workflow.members[r.results[j].id]
        BY <1>3
      <4> HIDE DEF r
      <4> QED
        BY <3>3, <4>1 DEF InOrder
    <3> HIDE DEF all, r
    <3> QED
      BY <1>10, <2>3, <3>3, <3>4 DEF AnswerIsFine, InOrder
  <2> QED
    BY <1>2, <2>1, <2>2, <2>3
<1>12. Stands(it) /\ workflow.mode # "none"
  BY <1>2, <1>10, <1>11 DEF Stands
<1> QED
  BY <1>1, <1>9, <1>12, CallerMoves

LEMMA WorkflowKept ==
    ASSUME Places \subseteq Seq(Nat), WorkflowInv, [Shortcut!Next]_(Shortcut!vars)
    PROVE  WorkflowInv'
<1>1. CASE UNCHANGED <<workflow, registered, execution>>
  <2>1. \A r : Stands(r) => Stands(r)'
    BY <1>1, StandsOn
  <2>2. ASSUME NEW c \in Callers PROVE Stands(execution[c])'
    <3>1. PICK r : r = execution[c] /\ r = execution'[c]
      BY <1>1
    <3>2. Stands(r)'
      BY <2>1, <3>1 DEF WorkflowInv
    <3> QED
      BY <3>1, <3>2
  <2>3. Size' = Size /\ Own' = Own
    BY <1>1 DEF Size, Own
  <2> QED
    BY <1>1, <2>2, <2>3 DEF WorkflowInv
<1>2. ASSUME NEW mode \in {"pipeline", "swarm"}, NEW members \in Places, Shortcut!NewWorkflow(mode, members)
      PROVE  WorkflowInv'
  <2>1. /\ workflow' = [mode |-> mode, members |-> members, ids |-> <<>>] /\ execution' = execution
        /\ workflow.mode = "none"
    BY <1>2 DEF Shortcut!NewWorkflow
  <2>2. \A c \in Callers : execution'[c].at = "idle"
    BY <2>1 DEF WorkflowInv
  <2>3. /\ workflow'.mode = mode /\ workflow'.members = members /\ workflow'.ids = <<>>
        /\ workflow' = [mode |-> workflow'.mode, members |-> workflow'.members, ids |-> workflow'.ids]
    BY <2>1
  <2>4. execution' = [c \in Callers |-> execution'[c]]
    BY <2>1 DEF WorkflowInv
  <2> QED
    BY <2>2, <2>3, <2>4 DEF WorkflowInv, Stands
<1>3. ASSUME NEW c \in Callers, Shortcut!Execute(c) PROVE WorkflowInv'
  <2>1. PICK it : it = [at |-> "register", ids |-> <<>>, work |-> <<>>, results |-> <<>>]
    OBVIOUS
  <2>2. execution' = [execution EXCEPT ![c] = it] /\ UNCHANGED <<workflow, registered>> /\ workflow.mode # "none"
    BY <1>3, <2>1 DEF Shortcut!Execute
  <2>3. Stands(it)
    BY <2>1 DEF Stands
  <2> QED
    BY <2>2, <2>3, CallerMoves
<1>4. ASSUME NEW c \in Callers, Shortcut!Leave(c) PROVE WorkflowInv'
  <2>1. PICK it : it = [at |-> "idle"]
    OBVIOUS
  <2>2. execution' = [execution EXCEPT ![c] = it] /\ UNCHANGED <<workflow, registered>>
    BY <1>4, <2>1 DEF Shortcut!Leave, Shortcut!Idle
  <2>3. Stands(it) /\ it.at = "idle"
    BY <2>1 DEF Stands
  <2> QED
    BY <2>2, <2>3, CallerMoves
<1> QED
  BY <1>1, <1>2, <1>3, <1>4, RegisterKept, AgentBeginsKept, AgentEndsKept, ReturnKept
  DEF Shortcut!Next, Shortcut!vars, Shortcut!WithLLM, Shortcut!NewAgent

(* quick.go: an agent names a provider that was registered when it was made, *)
(* OpenAI before Gemini before Ollama, and it still is; whichever caller      *)
(* registers first, however the callers of a workflow interleave, and        *)
(* whoever finds an agent busy, an answer has one result of each agent in    *)
(* their order, and what comes with an error is of a workflow's first agents.*)
THEOREM ShortcutsHold ==
    ASSUME Keys \subseteq SUBSET Offered, Places \subseteq Seq(Nat)
    PROVE  Shortcut!Init /\ [][Shortcut!Next]_(Shortcut!vars) => []Shortcut!ShortcutsAreSound
<1>1. Shortcut!Init => ChoiceInv /\ WorkflowInv
  <2> SUFFICES ASSUME Shortcut!Init PROVE ChoiceInv /\ WorkflowInv
    OBVIOUS
  <2>1. PICK keys \in Keys : quickConfig = [p \in keys \union {"ollama"} |-> "environment"]
    BY DEF Shortcut!Init
  <2>2. ChoiceInv
    BY <2>1 DEF Shortcut!Init, ChoiceInv, Offered, Suits
  <2>3. workflow = [mode |-> "none", members |-> <<>>, ids |-> <<>>] /\ execution = [c \in Callers |-> [at |-> "idle"]]
    BY DEF Shortcut!Init, Shortcut!Idle
  <2>4. WorkflowInv
    BY <2>3 DEF WorkflowInv, Stands
  <2> QED
    BY <2>2, <2>4
<1>2. ChoiceInv /\ WorkflowInv => Shortcut!ShortcutsAreSound
  <2> SUFFICES ASSUME ChoiceInv, WorkflowInv PROVE Shortcut!ShortcutsAreSound
    OBVIOUS
  <2>1. Shortcut!ProvidersExist
    BY DEF ChoiceInv, Suits, Shortcut!ProvidersExist
  <2>2. ASSUME NEW c \in Callers, execution[c].at \in {"answered", "failed"} PROVE AnswerIsFine(execution[c])
    <3>1. Stands(execution[c])
      BY DEF WorkflowInv
    <3>2. RunIsFine(execution[c]) => execution[c].at = "running"
      BY DEF RunIsFine
    <3> QED
      BY <2>2, <3>1, <3>2 DEF Stands
  <2>3. Shortcut!ResultsInOrder
    BY <2>2 DEF AnswerIsFine, Size, Shortcut!ResultsInOrder
  <2> QED
    BY <2>1, <2>3 DEF Shortcut!ShortcutsAreSound
<1> QED
  BY <1>1, <1>2, ChoiceKept, WorkflowKept, PTL

-------------------------------------------------------------------------------
(* Super-steps, for any channels, updates, inputs and lists of nodes.         *)
CONSTANTS StepIds, Elements

IsMap(v) == v = [x \in DOMAIN v |-> v[x]]

(* The values a channel with a reducer is for.                               *)
Combining == {"append", "messages", "sum", "map"}
Fits(reducer, v) ==
    \/ v = Nil \/ reducer \notin Combining
    \/ reducer \in {"append", "messages"} /\ v \in Seq(Elements)
    \/ reducer = "sum" /\ v \in Int
    \/ reducer = "map" /\ IsMap(v)

(* What had been said of a key by n branches, and by one more.               *)
Goes(words, more, n) ==
    /\ DOMAIN words \subseteq 1 .. n /\ DOMAIN more \subseteq 1 .. n + 1 /\ IsMap(words) /\ IsMap(more)
    /\ \A i \in 1 .. n : /\ i \in DOMAIN more <=> i \in DOMAIN words
                         /\ i \in DOMAIN words => more[i] = words[i]

(* What counts to n reaches it. *)
LEMMA CountsUp ==
    ASSUME NEW n \in Nat, NEW S, 0 \in S, \A m \in 1 .. n : m - 1 \in S => m \in S
    PROVE  \A m \in 0 .. n : m \in S
<1> DEFINE missed == (0 .. n) \ S
<1> SUFFICES ASSUME missed # {} PROVE FALSE
  OBVIOUS
<1>1. missed \in SUBSET Nat
  OBVIOUS
<1>2. PICK m \in missed : \A j \in missed : m <= j
  <2> HIDE DEF missed
  <2> QED
    BY <1>1, FirstOfIsFirst
<1>3. m \in 1 .. n /\ m - 1 \in S
  <2>1. m \in 0 .. n /\ m # 0
    BY <1>2
  <2>2. m - 1 \in 0 .. n /\ m - 1 < m
    BY <2>1
  <2> QED
    BY <1>2, <2>1, <2>2
<1> QED
  BY <1>2, <1>3

(* A slice more, or none. *)
LEMMA AppendedOn ==
    ASSUME NEW n \in Nat, NEW v \in Seq(Elements), NEW old \in Seq(Elements), NEW words, NEW more,
           NEW w \in Seq(Elements), Goes(words, more, n), Appended(v, old, words, n),
           w = IF n + 1 \in DOMAIN more THEN ToSlice(more[n + 1]) ELSE <<>>
    PROVE  Appended(v \o w, old, more, n + 1)
<1> DEFINE Word(i) == IF i \in DOMAIN words THEN ToSlice(words[i]) ELSE <<>>
           More(i) == IF i \in DOMAIN more THEN ToSlice(more[i]) ELSE <<>>
<1>1. PICK end \in [0 .. n -> 0 .. Len(v)] :
        /\ end[0] = Len(old) /\ end[n] = Len(v) /\ \A a \in 1 .. Len(old) : v[a] = old[a]
        /\ \A i \in 1 .. n : /\ end[i] = end[i - 1] + Len(Word(i))
                             /\ \A a \in 1 .. Len(Word(i)) : v[end[i - 1] + a] = Word(i)[a]
  BY Zenon DEF Appended
<1>2. \A i \in 1 .. n : More(i) = Word(i)
  BY DEF Goes
<1>3. More(n + 1) = w
  OBVIOUS
<1> HIDE DEF Word, More
<1> DEFINE ends == [i \in 0 .. n + 1 |-> IF i <= n THEN end[i] ELSE Len(v) + Len(w)]
<1>4. Len(v) \in Nat /\ Len(w) \in Nat /\ Len(old) \in Nat /\ v \o w \in Seq(Elements) /\ Len(v \o w) = Len(v) + Len(w)
  OBVIOUS
<1>5. ends \in [0 .. n + 1 -> 0 .. Len(v \o w)]
  BY <1>1, <1>4
<1>6. \A a \in 1 .. Len(v) : (v \o w)[a] = v[a]
  OBVIOUS
<1>7. \A a \in 1 .. Len(w) : (v \o w)[Len(v) + a] = w[a]
  OBVIOUS
<1>8. ends[0] = Len(old) /\ ends[n + 1] = Len(v \o w) /\ Len(old) <= Len(v)
  BY <1>1, <1>4
<1>9. \A a \in 1 .. Len(old) : (v \o w)[a] = old[a]
  BY <1>1, <1>4, <1>6, <1>8
<1>10. ASSUME NEW i \in 1 .. n + 1
       PROVE  /\ ends[i] = ends[i - 1] + Len(More(i))
              /\ \A a \in 1 .. Len(More(i)) : (v \o w)[ends[i - 1] + a] = More(i)[a]
  <2>1. CASE i = n + 1
    <3>1. ends[i] = Len(v) + Len(w) /\ ends[i - 1] = Len(v)
      BY <1>1, <2>1
    <3> QED
      BY <1>3, <1>7, <2>1, <3>1
  <2>2. CASE i \in 1 .. n
    <3>1. ends[i] = end[i] /\ ends[i - 1] = end[i - 1] /\ i - 1 \in 0 .. n /\ More(i) = Word(i)
      BY <1>2, <2>2
    <3>2. end[i] = end[i - 1] + Len(Word(i)) /\ end[i] \in 0 .. Len(v) /\ end[i - 1] \in 0 .. Len(v)
      BY <1>1, <2>2, <3>1
    <3>3. \A a \in 1 .. Len(Word(i)) : v[end[i - 1] + a] = Word(i)[a]
      BY <1>1, <2>2
    <3>4. ASSUME NEW a \in 1 .. Len(Word(i)) PROVE (v \o w)[end[i - 1] + a] = Word(i)[a]
      <4>1. Len(Word(i)) \in Int /\ end[i - 1] + a \in 1 .. Len(v)
        BY <1>4, <3>2
      <4> QED
        BY <1>6, <3>3, <4>1
    <3> QED
      BY <3>1, <3>2, <3>4
  <2>3. i = n + 1 \/ i \in 1 .. n
    OBVIOUS
  <2> HIDE DEF ends
  <2> QED
    BY <2>1, <2>2, <2>3
<1> HIDE DEF ends
<1> USE DEF More
<1> QED
  BY <1>5, <1>8, <1>9, <1>10, Zenon DEF Appended

(* Nil is neither a number, a list nor a map; an empty slice of messages can *)
(* be a message.                                                             *)
NilIsNone == Nil \notin Int \cup Seq(Elements) /\ ~IsMap(Nil) /\ NoMessages \in Elements

(* AddMessage, and AddMessages as what it comes to message by message.       *)
OneMore(res, list, msg) ==
    /\ res \in Seq(Elements) /\ Len(res) >= Len(list)
    /\ \A a \in DOMAIN list : /\ res[a].id = list[a].id
                             /\ (res[a] = list[a] \/ (list[a].id # Nil /\ list[a].id = msg.id))
    /\ \E a \in DOMAIN res : res[a] = msg
    /\ Unique(list) => Unique(res)

LEMMA AddedOne ==
    ASSUME NEW list \in Seq(Elements), NEW msg \in Elements
    PROVE  OneMore(AddMessage(list, msg), list, msg)
<1>0. PICK res : res = AddMessage(list, msg)
  OBVIOUS
<1> DEFINE same == {i \in 1 .. Len(list) : msg.id # Nil /\ list[i].id = msg.id}
           spot == CHOOSE i \in same : \A j \in same : i <= j
<1>1. res = IF same = {} THEN Append(list, msg) ELSE [list EXCEPT ![spot] = msg]
  BY <1>0 DEF AddMessage
<1>2. CASE same = {}
  <2>1. res = Append(list, msg) /\ Len(list) \in Nat /\ DOMAIN list = 1 .. Len(list)
    BY <1>1, <1>2
  <2>2. res \in Seq(Elements) /\ Len(res) = Len(list) + 1 /\ DOMAIN res = 1 .. Len(list) + 1
    BY <2>1
  <2>3. res[Len(list) + 1] = msg /\ \A a \in DOMAIN list : res[a] = list[a]
    BY <2>1
  <2>4. \A a \in DOMAIN list : msg.id # Nil => list[a].id # msg.id
    BY <1>2, <2>1
  <2>5. Unique(list) => Unique(res)
    <3> SUFFICES ASSUME Unique(list), NEW a \in DOMAIN res, NEW b \in DOMAIN res,
                        res[a].id = res[b].id, res[a].id # Nil
                 PROVE  a = b
      BY DEF Unique
    <3>1. CASE a \in DOMAIN list /\ b \in DOMAIN list
      BY <2>3, <3>1 DEF Unique
    <3>2. CASE a = Len(list) + 1 /\ b \in DOMAIN list
      BY <2>3, <2>4, <3>2
    <3>3. CASE a \in DOMAIN list /\ b = Len(list) + 1
      BY <2>3, <2>4, <3>3
    <3> QED
      BY <2>1, <2>2, <3>1, <3>2, <3>3
  <2>6. Len(res) >= Len(list) /\ Len(list) + 1 \in DOMAIN res
    BY <2>1, <2>2
  <2>7. \A a \in DOMAIN list : res[a].id = list[a].id
    BY <2>3, Zenon
  <2> HIDE DEF same
  <2> QED
    BY <1>0, <2>2, <2>3, <2>5, <2>6, <2>7, Zenon DEF OneMore
<1>3. CASE same # {}
  <2>1. same \in SUBSET Nat
    OBVIOUS
  <2>2. spot \in same
    <3> HIDE DEF same
    <3>1. \E i \in same : \A j \in same : i <= j
      BY <1>3, <2>1, FirstOfIsFirst
    <3> QED
      BY <3>1
  <2>3. PICK s : s = spot
    OBVIOUS
  <2>4. s \in DOMAIN list /\ list[s].id = msg.id /\ msg.id # Nil
    BY <2>2, <2>3
  <2>5. res = [list EXCEPT ![s] = msg]
    BY <1>1, <1>3, <2>3
  <2> HIDE DEF same, spot
  <2>6. res \in Seq(Elements) /\ Len(res) = Len(list) /\ DOMAIN res = DOMAIN list
    BY <2>4, <2>5
  <2>7. res[s] = msg /\ \A a \in DOMAIN list : a # s => res[a] = list[a]
    BY <2>4, <2>5
  <2>8. \A a \in DOMAIN list : res[a].id = list[a].id
    BY <2>4, <2>7
  <2>9. Unique(list) => Unique(res)
    BY <2>6, <2>8 DEF Unique
  <2>10. \A a \in DOMAIN list : res[a] = list[a] \/ (list[a].id # Nil /\ list[a].id = msg.id)
    BY <2>4, <2>7, Zenon
  <2>11. Len(res) >= Len(list) /\ s \in DOMAIN res
    BY <2>4, <2>6
  <2> QED
    BY <1>0, <2>6, <2>7, <2>8, <2>9, <2>10, <2>11, Zenon DEF OneMore
<1> QED
  BY <1>2, <1>3

LEMMA AddedIs ==
    ASSUME NEW old, NEW new, Incoming(new) \in Seq(Elements)
    PROVE  \E list : /\ list[0] = ToSlice(old)
                     /\ \A p \in 1 .. Len(Incoming(new)) :
                           list[p] = AddMessage(list[p - 1], Incoming(new)[p])
                     /\ AddMessages(old, new) = list[Len(Incoming(new))]
<1>1. PICK u, base, n : u \in Seq(Elements) /\ u = Incoming(new) /\ base = ToSlice(old) /\ n = Len(u)
  OBVIOUS
<1>0. n \in Nat
  BY <1>1
<1> DEFINE Laid(f, m) == f = [i \in 0 .. m |-> IF i = 0 THEN base ELSE AddMessage(f[i - 1], u[i])]
           done == {m \in 0 .. n : \E f : Laid(f, m)}
<1>2. 0 \in done
  <2>1. Laid([i \in 0 .. 0 |-> base], 0)
    OBVIOUS
  <2> HIDE DEF Laid
  <2> QED
    BY <1>0, <2>1
<1>3. ASSUME NEW m \in 1 .. n, m - 1 \in done PROVE m \in done
  <2>1. PICK g : Laid(g, m - 1)
    <3> HIDE DEF Laid
    <3> QED
      BY <1>3
  <2> DEFINE h == [i \in 0 .. m |-> IF i < m THEN g[i] ELSE AddMessage(g[m - 1], u[m])]
  <2>2. \A i \in 0 .. m - 1 : g[i] = IF i = 0 THEN base ELSE AddMessage(g[i - 1], u[i])
    BY <2>1
  <2>3. \A i \in 0 .. m : h[i] = IF i = 0 THEN base ELSE AddMessage(h[i - 1], u[i])
    BY <2>2
  <2>4. h = [i \in 0 .. m |-> h[i]]
    OBVIOUS
  <2>5. Laid(h, m)
    <3> HIDE DEF h
    <3> QED
      BY <2>3, <2>4
  <2> HIDE DEF Laid, h
  <2> QED
    BY <2>5
<1>4. \E f : Laid(f, n)
  <2> HIDE DEF Laid, done
  <2>1. \A m \in 1 .. n : m - 1 \in done => m \in done
    BY <1>3
  <2>2. n \in 0 .. n
    BY <1>0
  <2>3. n \in done
    BY <1>0, <1>2, <2>1, <2>2, CountsUp
  <2> USE DEF done
  <2> QED
    BY <2>3
<1>5. PICK f : f = (CHOOSE g : Laid(g, n))
  OBVIOUS
<1>6. Laid(f, n)
  <2> HIDE DEF Laid
  <2> QED
    BY <1>4, <1>5
<1>7. AddMessages(old, new) = f[n]
  BY <1>1, <1>5 DEF AddMessages
<1>8. \A i \in 0 .. n : f[i] = IF i = 0 THEN base ELSE AddMessage(f[i - 1], u[i])
  BY <1>6
<1>9. f[0] = base /\ \A i \in 1 .. n : f[i] = AddMessage(f[i - 1], u[i])
  <2> HIDE DEF Laid, done
  <2> QED
    BY <1>0, <1>8
<1> QED
  BY <1>1, <1>7, <1>9

(* What AddMessages made of a list and the first p messages of another.      *)
Added(res, base, u, p) ==
    /\ res \in Seq(Elements) /\ Len(res) >= Len(base)
    /\ \A a \in DOMAIN base : /\ res[a].id = base[a].id
                             /\ \/ res[a] = base[a]
                                \/ base[a].id # Nil /\ \E q \in 1 .. p : u[q].id = base[a].id
    /\ \A q \in 1 .. p : u[q].id = Nil \/ (\A h \in 1 .. p : h > q => u[h].id # u[q].id) =>
          \E a \in DOMAIN res : res[a] = u[q]
    /\ Unique(base) => Unique(res)

LEMMA AddedEach ==
    ASSUME NEW old, NEW new, NEW base \in Seq(Elements), NEW u \in Seq(Elements),
           base = ToSlice(old), u = Incoming(new)
    PROVE  Added(AddMessages(old, new), base, u, Len(u))
<1>1. PICK list : /\ list[0] = base
                  /\ \A p \in 1 .. Len(u) : list[p] = AddMessage(list[p - 1], u[p])
                  /\ AddMessages(old, new) = list[Len(u)]
  BY AddedIs
<1> DEFINE S == {p \in 0 .. Len(u) : Added(list[p], base, u, p)}
<1>2. 0 \in S
  BY <1>1 DEF Added
<1>3. ASSUME NEW p \in 1 .. Len(u), p - 1 \in S PROVE p \in S
  <2>1. PICK before, after, msg : before = list[p - 1] /\ after = list[p] /\ msg = u[p]
    OBVIOUS
  <2>2. Added(before, base, u, p - 1)
    BY <1>3, <2>1
  <2>3. before \in Seq(Elements) /\ Len(before) >= Len(base)
    BY <2>2 DEF Added
  <2>4. msg \in Elements /\ after = AddMessage(before, msg)
    BY <1>1, <2>1
  <2>5. /\ after \in Seq(Elements) /\ Len(after) >= Len(before)
        /\ \A a \in DOMAIN before : /\ after[a].id = before[a].id
                                   /\ (after[a] = before[a] \/ (before[a].id # Nil /\ before[a].id = msg.id))
        /\ \E a \in DOMAIN after : after[a] = msg
        /\ Unique(before) => Unique(after)
    BY <2>3, <2>4, AddedOne, Zenon DEF OneMore
  <2>6. /\ DOMAIN base \subseteq DOMAIN before /\ DOMAIN before \subseteq DOMAIN after
        /\ Len(after) >= Len(base)
    BY <2>3, <2>5
  <2>7. ASSUME NEW a \in DOMAIN base
        PROVE  /\ after[a].id = base[a].id
               /\ (after[a] = base[a] \/ (base[a].id # Nil /\ \E q \in 1 .. p : u[q].id = base[a].id))
    <3>1. a \in DOMAIN before /\ after[a].id = before[a].id
          /\ (after[a] = before[a] \/ (before[a].id # Nil /\ before[a].id = msg.id))
      BY <2>5, <2>6, Zenon
    <3>2. before[a].id = base[a].id
          /\ (before[a] = base[a] \/ (base[a].id # Nil /\ \E q \in 1 .. p - 1 : u[q].id = base[a].id))
      BY <2>2, Zenon DEF Added
    <3>3. 1 .. p - 1 \subseteq 1 .. p /\ p \in 1 .. p
      OBVIOUS
    <3> QED
      BY <2>1, <3>1, <3>2, <3>3
  <2>8. ASSUME NEW q \in 1 .. p, u[q].id = Nil \/ \A h \in 1 .. p : h > q => u[h].id # u[q].id
        PROVE  \E a \in DOMAIN after : after[a] = u[q]
    <3>1. CASE q = p
      BY <2>1, <2>5, <3>1
    <3>2. CASE q \in 1 .. p - 1
      <4>1. PICK a \in DOMAIN before : before[a] = u[q]
        BY <2>2, <2>8, <3>2 DEF Added
      <4>2. p \in 1 .. p /\ p > q
        BY <3>2
      <4>3. u[q].id = Nil \/ msg.id # u[q].id
        BY <2>1, <2>8, <4>2
      <4>4. after[a] = before[a]
        BY <2>5, <4>1, <4>3
      <4> QED
        BY <2>6, <4>1, <4>4
    <3> QED
      BY <3>1, <3>2
  <2>9. Unique(base) => Unique(after)
    BY <2>2, <2>5 DEF Added
  <2>10. Added(after, base, u, p)
    BY <2>5, <2>6, <2>7, <2>8, <2>9, Zenon DEF Added
  <2> QED
    BY <2>1, <2>10
<1>4. Len(u) \in S
  <2> HIDE DEF S
  <2>1. Len(u) \in Nat /\ Len(u) \in 0 .. Len(u)
    OBVIOUS
  <2>2. \A p \in 1 .. Len(u) : p - 1 \in S => p \in S
    BY <1>3
  <2> QED
    BY <1>2, <2>1, <2>2, CountsUp
<1> QED
  BY <1>1, <1>4

LEMMA AddedAll ==
    ASSUME NilIsNone, NEW old, NEW new, NEW base \in Seq(Elements), NEW u \in Seq(Elements),
           base = ToSlice(old), u = ToSlice(new)
    PROVE  Added(AddMessages(old, new), base, u, Len(u))
<1>1. CASE new # <<>>
  <2>1. u = Incoming(new)
    BY <1>1 DEF Incoming
  <2> QED
    BY <2>1, AddedEach
<1>2. CASE new = <<>>
  <2>1. Nil \notin Seq(Elements) /\ NoMessages \in Elements
    BY DEF NilIsNone
  <2>2. u = <<>> /\ Len(u) = 0
    BY <1>2 DEF ToSlice
  <2>3. PICK w : w = <<NoMessages>>
    OBVIOUS
  <2>4. w \in Seq(Elements) /\ Len(w) = 1 /\ w[1] = NoMessages
    BY <2>1, <2>3
  <2>5. w = Incoming(new)
    BY <1>2, <2>3 DEF Incoming
  <2>6. PICK res : res = AddMessages(old, new)
    OBVIOUS
  <2>7. Added(res, base, w, 1)
    BY <2>4, <2>5, <2>6, AddedEach
  <2>8. \A q \in 1 .. 1 : w[q].id = Nil
    BY <2>4 DEF NoMessages
  <2>9. Added(res, base, u, 0)
    BY <2>7, <2>8 DEF Added
  <2> QED
    BY <2>2, <2>6, <2>9
<1> QED
  BY <1>1, <1>2

(* And what a word of messages more makes of the words before it.            *)
LEMMA AddressedOn ==
    ASSUME NEW n \in Nat, NEW v \in Seq(Elements), NEW old \in Seq(Elements), NEW words, NEW more,
           NEW u \in Seq(Elements), NEW res, Goes(words, more, n), n + 1 \in DOMAIN more,
           u = ToSlice(more[n + 1]), Added(res, v, u, Len(u)), Addressed(v, old, words)
    PROVE  Addressed(res, old, more)
<1> DEFINE Later(ws, msg, i, p, j) == {q \in DOMAIN ToSlice(ws[j]) :
                                        ToSlice(ws[j])[q].id = msg.id /\ (j > i \/ q > p)}
           Latest(ws, i, p) == LET msg == ToSlice(ws[i])[p] IN
                             msg.id = Nil \/ \A j \in DOMAIN ws : j >= i => Later(ws, msg, i, p, j) = {}
<1>1. Len(res) >= Len(old) /\ \A a \in DOMAIN old : res[a].id = old[a].id
  <2>1. Len(v) >= Len(old) /\ \A a \in DOMAIN old : v[a].id = old[a].id
    BY Zenon DEF Addressed
  <2>2. res \in Seq(Elements) /\ Len(res) >= Len(v) /\ \A a \in DOMAIN v : res[a].id = v[a].id
    BY DEF Added
  <2>3. DOMAIN old \subseteq DOMAIN v
    BY <2>1
  <2> QED
    BY <2>1, <2>2, <2>3
<1>2. Unique(old) => Unique(res)
  BY Zenon DEF Added, Addressed
<1>3. ASSUME NEW i \in DOMAIN more, NEW p \in DOMAIN ToSlice(more[i]), Latest(more, i, p)
      PROVE  \E a \in DOMAIN res : res[a] = ToSlice(more[i])[p]
  <2>1. PICK msg : msg = ToSlice(more[i])[p]
    OBVIOUS
  <2>2. msg.id = Nil \/ \A j \in DOMAIN more : j >= i => Later(more, msg, i, p, j) = {}
    BY <1>3, <2>1
  <2>3. i \in 1 .. n + 1 /\ DOMAIN u = 1 .. Len(u)
    BY DEF Goes
  <2>4. CASE i = n + 1
    <3>1. p \in 1 .. Len(u) /\ u[p] = msg
      BY <2>1, <2>3, <2>4
    <3>2. msg.id = Nil \/ \A h \in 1 .. Len(u) : h > p => u[h].id # msg.id
      BY <2>2, <2>3, <2>4
    <3> QED
      BY <2>1, <3>1, <3>2 DEF Added
  <2>5. CASE i \in 1 .. n
    <3>1. i \in DOMAIN words /\ words[i] = more[i]
      BY <2>5 DEF Goes
    <3>2. msg.id = Nil \/ \A j \in DOMAIN words : j >= i => Later(words, msg, i, p, j) = {}
      <4>1. ASSUME NEW j \in DOMAIN words PROVE j \in DOMAIN more /\ words[j] = more[j]
        BY DEF Goes
      <4> QED
        BY <2>2, <4>1
    <3>3. \E a \in DOMAIN v : v[a] = msg
      <4>1. Latest(words, i, p)
        BY <2>1, <3>1, <3>2
      <4> QED
        BY <2>1, <3>1, <4>1, Zenon DEF Addressed
    <3>4. PICK a \in DOMAIN v : v[a] = msg
      BY <3>3
    <3>5. msg.id = Nil \/ \A q \in 1 .. Len(u) : u[q].id # msg.id
      BY <2>2, <2>3, <2>5
    <3>6. res[a] = msg /\ a \in DOMAIN res
      <4>1. /\ (res[a] = v[a] \/ (v[a].id # Nil /\ \E q \in 1 .. Len(u) : u[q].id = v[a].id))
            /\ res \in Seq(Elements) /\ Len(res) >= Len(v)
        BY Zenon DEF Added
      <4> QED
        BY <3>4, <3>5, <4>1
    <3> QED
      BY <2>1, <3>6
  <2>6. i = n + 1 \/ i \in 1 .. n
    BY <2>3
  <2> HIDE DEF Later, Latest
  <2> QED
    BY <2>4, <2>5, <2>6
<1> QED
  BY <1>1, <1>2, <1>3, Zenon DEF Addressed

LEMMA OneGoes ==
    ASSUME NEW n \in Nat, NEW words, NEW more, Goes(words, more, n), n + 1 \in DOMAIN more
    PROVE  /\ DOMAIN more = DOMAIN words \cup {n + 1} /\ n + 1 \notin DOMAIN words /\ DOMAIN words \subseteq 1 .. n
           /\ \A i \in DOMAIN words : more[i] = words[i]
BY DEF Goes

(* Another number of a sum. *)
LEMMA SummedOn ==
    ASSUME NilIsNone, NEW n \in Nat, NEW c, c = Nil \/ c \in Int, NEW old, old = Nil \/ old \in Int,
           NEW u, u = Nil \/ u \in Int, NEW words, NEW more, Goes(words, more, n),
           n + 1 \in DOMAIN more, more[n + 1] = u, DOMAIN words = {} => c = old,
           DOMAIN words # {} => c # Nil /\ Summed(c, old, words)
    PROVE  SumInt(c, u) \in Int /\ Summed(SumInt(c, u), old, more)
<1>1. PICK one, first : one = SumInt(Nil, u) /\ first = IF old = Nil THEN 0 ELSE old
  OBVIOUS
<1>2. one \in Int /\ first \in Int /\ one = IF u = Nil THEN 0 ELSE u
  BY <1>1 DEF SumInt
<1>3. \A m \in Int : SumInt(old, m) = first + m
  BY <1>1 DEF SumInt, NilIsNone
<1>4. SumInt(c, u) = (IF c = Nil THEN 0 ELSE c) + one
  BY <1>2 DEF SumInt
<1>5. /\ DOMAIN more = DOMAIN words \cup {n + 1} /\ n + 1 \notin DOMAIN words
      /\ IsFiniteSet(DOMAIN words) /\ \A i \in DOMAIN words : more[i] = words[i]
  <2>1. IsFiniteSet(1 .. n)
    BY FS_Interval
  <2>2. /\ DOMAIN more = DOMAIN words \cup {n + 1} /\ n + 1 \notin DOMAIN words /\ DOMAIN words \subseteq 1 .. n
        /\ \A i \in DOMAIN words : more[i] = words[i]
    BY OneGoes
  <2> QED
    BY <2>1, <2>2, FS_Subset
<1>6. PICK k : k = Cardinality(DOMAIN words)
  OBVIOUS
<1>7. k \in Nat /\ Cardinality(DOMAIN more) = k + 1 /\ (DOMAIN words = {} => k = 0)
  BY <1>5, <1>6, FS_AddElement, FS_CardinalityType, FS_EmptySet
<1>8. ASSUME NEW each, \A i \in DOMAIN more : more[i] = each
      PROVE  SumInt(c, u) = SumInt(old, Cardinality(DOMAIN more) * SumInt(Nil, each))
  <2>1. each = u
    BY <1>8
  <2>2. SumInt(old, Cardinality(DOMAIN more) * SumInt(Nil, each)) = first + (k + 1) * one
    <3>1. Cardinality(DOMAIN more) * SumInt(Nil, each) = (k + 1) * one
      BY <1>1, <1>7, <2>1
    <3>2. (k + 1) * one \in Int
      BY <1>2, <1>7
    <3> QED
      BY <1>3, <3>1, <3>2
  <2>3. (IF c = Nil THEN 0 ELSE c) = first + k * one
    <3>1. CASE DOMAIN words = {}
      BY <1>1, <1>2, <1>7, <3>1
    <3>2. CASE DOMAIN words # {}
      <4>1. PICK i \in DOMAIN words : TRUE
        BY <3>2
      <4>2. words[i] = each /\ \A j \in DOMAIN words : words[j] = each
        BY <1>5, <1>8
      <4>3. c = SumInt(old, Cardinality(DOMAIN words) * SumInt(Nil, each))
        BY <3>2, <4>2, Zenon DEF Summed
      <4>4. Cardinality(DOMAIN words) * SumInt(Nil, each) = k * one
        BY <1>1, <1>6, <2>1
      <4>5. k * one \in Int
        BY <1>2, <1>7
      <4>6. c = first + k * one
        BY <1>3, <4>3, <4>4, <4>5
      <4> QED
        BY <3>2, <4>6
    <3> QED
      BY <3>1, <3>2
  <2>4. (k + 1) * one = k * one + one /\ k * one \in Int
    <3>1. \A a, b \in Int : (a + 1) * b = a * b + b /\ a * b \in Int
      OBVIOUS
    <3> QED
      BY <1>2, <1>7, <3>1
  <2> QED
    BY <1>2, <1>4, <2>2, <2>3, <2>4
<1>9. SumInt(c, u) \in Int
  BY <1>2, <1>4
<1> QED
  BY <1>8, <1>9, Zenon DEF Summed

(* Another map. *)
LEMMA CombinedOn ==
    ASSUME NEW n \in Nat, NEW m, NEW old, NEW w, NEW words, NEW more, Goes(words, more, n),
           n + 1 \in DOMAIN more, w = ToMap(more[n + 1]), Combined(m, old, words)
    PROVE  Combined([x \in DOMAIN m \cup DOMAIN w |-> IF x \in DOMAIN w THEN w[x] ELSE m[x]], old, more)
<1>1. PICK res : res = [x \in DOMAIN m \cup DOMAIN w |-> IF x \in DOMAIN w THEN w[x] ELSE m[x]]
  OBVIOUS
<1>2. /\ DOMAIN more = DOMAIN words \cup {n + 1} /\ n + 1 \notin DOMAIN words /\ DOMAIN words \subseteq 1 .. n
      /\ \A i \in DOMAIN words : more[i] = words[i]
  BY OneGoes
<1> DEFINE Keyed(ws, i) == DOMAIN ToMap(ws[i])
           Said(ws, x) == {i \in DOMAIN ws : x \in Keyed(ws, i)}
<1>3. /\ DOMAIN m = DOMAIN old \cup UNION {Keyed(words, i) : i \in DOMAIN words}
      /\ \A x \in DOMAIN m : IF Said(words, x) = {} THEN m[x] = old[x]
                             ELSE \E i \in Said(words, x) : /\ \A j \in Said(words, x) : j <= i
                                                            /\ m[x] = ToMap(words[i])[x]
  BY Zenon DEF Combined
<1>4. Keyed(more, n + 1) = DOMAIN w /\ \A i \in DOMAIN words : Keyed(more, i) = Keyed(words, i)
  BY <1>2
<1>5. \A x : Said(more, x) = IF x \in DOMAIN w THEN Said(words, x) \cup {n + 1} ELSE Said(words, x)
  <2> HIDE DEF Keyed
  <2> SUFFICES ASSUME NEW x
               PROVE  Said(more, x) = IF x \in DOMAIN w THEN Said(words, x) \cup {n + 1} ELSE Said(words, x)
    OBVIOUS
  <2>1. \A i : i \in Said(more, x) <=> i \in Said(words, x) \/ (i = n + 1 /\ x \in DOMAIN w)
    BY <1>2, <1>4
  <2> HIDE DEF Said
  <2> QED
    BY <2>1
<1>6. DOMAIN res = DOMAIN old \cup UNION {Keyed(more, i) : i \in DOMAIN more}
  <2> DEFINE before == {Keyed(words, i) : i \in DOMAIN words}
             after == {Keyed(more, i) : i \in DOMAIN more}
  <2>1. after = before \cup {DOMAIN w}
    <3> HIDE DEF Keyed
    <3>1. \A s : s \in after <=> s \in before \/ s = DOMAIN w
      BY <1>2, <1>4
    <3> HIDE DEF before, after
    <3> QED
      BY <3>1
  <2>2. DOMAIN res = DOMAIN m \cup DOMAIN w /\ DOMAIN m = DOMAIN old \cup UNION before
    BY <1>1, <1>3
  <2> HIDE DEF before, after
  <2>3. ASSUME NEW x PROVE x \in DOMAIN res <=> x \in DOMAIN old \cup UNION after
    BY <2>1, <2>2
  <2>4. DOMAIN res = DOMAIN old \cup UNION after
    BY <2>3
  <2> USE DEF after
  <2> QED
    BY <2>4, Zenon
<1>7. ASSUME NEW x \in DOMAIN res
      PROVE  IF Said(more, x) = {} THEN res[x] = old[x]
             ELSE \E i \in Said(more, x) : /\ \A j \in Said(more, x) : j <= i
                                           /\ res[x] = ToMap(more[i])[x]
  <2>0. Said(words, x) \subseteq 1 .. n /\ Said(words, x) \subseteq DOMAIN words
    BY <1>2
  <2> HIDE DEF Said, Keyed
  <2>1. CASE x \in DOMAIN w
    <3>1. res[x] = ToMap(more[n + 1])[x] /\ Said(more, x) = Said(words, x) \cup {n + 1}
      BY <1>1, <1>5, <2>1
    <3>2. \A j \in Said(more, x) : j <= n + 1
      BY <2>0, <3>1
    <3> QED
      BY <3>1, <3>2
  <2>2. CASE x \notin DOMAIN w
    <3>1. res[x] = m[x] /\ x \in DOMAIN m /\ Said(more, x) = Said(words, x)
      BY <1>1, <1>5, <2>2
    <3>2. \A i \in Said(words, x) : more[i] = words[i]
      BY <1>2, <2>0
    <3>3. CASE Said(words, x) = {}
      BY <1>3, <3>1, <3>3
    <3>4. CASE Said(words, x) # {}
      <4>1. PICK i \in Said(words, x) : (\A j \in Said(words, x) : j <= i) /\ m[x] = ToMap(words[i])[x]
        BY <1>3, <3>1, <3>4
      <4> QED
        BY <3>1, <3>2, <3>4, <4>1
    <3> QED
      BY <3>3, <3>4
  <2> QED
    BY <2>1, <2>2
<1>8. Combined(res, old, more)
  BY <1>6, <1>7, Zenon DEF Combined
<1> QED
  BY <1>1, <1>8

(* What a channel holds after n branches, of what they said and what was     *)
(* there.                                                                    *)
Kept(r, c, old, words, n) ==
    /\ Fits(r, c) /\ (DOMAIN words = {} => c = old) /\ (DOMAIN words # {} /\ r \in Combining => c # Nil)
    /\ r = "append" => Appended(ToSlice(c), ToSlice(old), words, n)
    /\ r = "messages" => Addressed(ToSlice(c), ToSlice(old), words)
    /\ r = "sum" /\ DOMAIN words # {} => Summed(c, old, words)
    /\ r = "map" => Combined(ToMap(c), ToMap(old), words)
    /\ r \notin Combining /\ DOMAIN words # {} => Replaced(c, words)

LEMMA SliceOf ==
    ASSUME NEW r \in {"append", "messages"}, NEW v, Fits(r, v)
    PROVE  ToSlice(v) \in Seq(Elements)
<1>1. v = Nil \/ v \in Seq(Elements)
  BY DEF Fits, Combining
<1>2. <<>> \in Seq(Elements)
  OBVIOUS
<1> QED
  BY <1>1, <1>2 DEF ToSlice

LEMMA SliceIs ==
    ASSUME NilIsNone, NEW v \in Seq(Elements)
    PROVE  ToSlice(v) = v /\ v # Nil
BY DEF ToSlice, NilIsNone

LEMMA KeptFirst ==
    ASSUME NEW r, NEW old, Fits(r, old), NEW words, DOMAIN words = {}
    PROVE  Kept(r, old, old, words, 0)
<1>1. CASE r = "append"
  <2>1. PICK o : o = ToSlice(old) /\ o \in Seq(Elements)
    BY <1>1, SliceOf
  <2>2. Appended(o, o, words, 0)
    <3> DEFINE end == [i \in 0 .. 0 |-> Len(o)]
    <3>1. end \in [0 .. 0 -> 0 .. Len(o)] /\ end[0] = Len(o)
      BY <2>1
    <3>2. \A i \in 1 .. 0 : FALSE
      OBVIOUS
    <3> HIDE DEF end
    <3> QED
      BY <3>1, <3>2, Zenon DEF Appended
  <2> QED
    BY <1>1, <2>1, <2>2 DEF Kept, Combining
<1>2. CASE r = "messages"
  <2>1. PICK o : o = ToSlice(old) /\ o \in Seq(Elements)
    BY <1>2, SliceOf
  <2>2. Len(o) >= Len(o)
    BY <2>1
  <2>3. Addressed(o, o, words)
    BY <2>2, Zenon DEF Addressed
  <2> QED
    BY <1>2, <2>1, <2>3 DEF Kept, Combining
<1>3. CASE r = "map"
  <2>1. PICK m : m = ToMap(old)
    OBVIOUS
  <2>2. Combined(m, m, words)
    <3>1. UNION {DOMAIN ToMap(words[i]) : i \in DOMAIN words} = {}
      OBVIOUS
    <3>2. DOMAIN m = DOMAIN m \cup {}
      OBVIOUS
    <3>3. \A x : {i \in DOMAIN words : x \in DOMAIN ToMap(words[i])} = {}
      OBVIOUS
    <3> QED
      BY <3>1, <3>2, <3>3, Zenon DEF Combined
  <2> QED
    BY <1>3, <2>1, <2>2 DEF Kept, Combining
<1> QED
  BY <1>1, <1>2, <1>3, Zenon DEF Kept, Combining

(* A branch that failed or said nothing of the key. *)
LEMMA KeptStill ==
    ASSUME NilIsNone, NEW n \in Nat, NEW r, NEW c, NEW old, Fits(r, old), NEW words, NEW more,
           Kept(r, c, old, words, n), Goes(words, more, n), n + 1 \notin DOMAIN more
    PROVE  Kept(r, c, old, more, n + 1)
<1>1. more = words
  <2>1. DOMAIN more = DOMAIN words
    BY DEF Goes
  <2>2. \A i \in DOMAIN words : more[i] = words[i]
    BY DEF Goes
  <2>3. IsMap(words) /\ IsMap(more)
    BY DEF Goes
  <2> QED
    BY <2>1, <2>2, <2>3 DEF IsMap
<1>2. r = "append" => Appended(ToSlice(c), ToSlice(old), more, n + 1)
  <2> SUFFICES ASSUME r = "append" PROVE Appended(ToSlice(c), ToSlice(old), more, n + 1)
    OBVIOUS
  <2>1. PICK v, o : v = ToSlice(c) /\ o = ToSlice(old)
    OBVIOUS
  <2>2. v \in Seq(Elements) /\ o \in Seq(Elements) /\ Appended(v, o, words, n)
    BY <2>1, SliceOf DEF Kept
  <2>3. PICK w : w = <<>>
    OBVIOUS
  <2>4. w \in Seq(Elements) /\ v \o w = v /\ w = IF n + 1 \in DOMAIN more THEN ToSlice(more[n + 1]) ELSE <<>>
    BY <2>2, <2>3
  <2>5. Appended(v \o w, o, more, n + 1)
    BY <2>2, <2>4, AppendedOn
  <2> QED
    BY <2>1, <2>4, <2>5
<1> QED
  BY <1>1, <1>2, Zenon DEF Kept

(* A branch that said u of the key. *)
LEMMA KeptOn ==
    ASSUME NilIsNone, NEW n \in Nat, NEW r, NEW c, NEW old, Fits(r, old), NEW words, NEW more,
           NEW u, Fits(r, u), Kept(r, c, old, words, n), Goes(words, more, n),
           n + 1 \in DOMAIN more, more[n + 1] = u
    PROVE  Kept(r, Reduce(r, c, u), old, more, n + 1)
<1>0. DOMAIN more # {} /\ Fits(r, c)
  BY DEF Kept
<1>1. CASE r = "append"
  <2>1. PICK v, o, w : v = ToSlice(c) /\ o = ToSlice(old) /\ w = ToSlice(u)
    OBVIOUS
  <2>2. v \in Seq(Elements) /\ o \in Seq(Elements) /\ w \in Seq(Elements)
    BY <1>0, <1>1, <2>1, SliceOf
  <2>3. Appended(v, o, words, n)
    BY <1>1, <2>1 DEF Kept
  <2>4. Appended(v \o w, o, more, n + 1)
    BY <2>1, <2>2, <2>3, AppendedOn
  <2>5. PICK res : res = v \o w
    OBVIOUS
  <2>6. Reduce(r, c, u) = res
    BY <1>1, <2>1, <2>5 DEF Reduce
  <2>7. res \in Seq(Elements)
    BY <2>2, <2>5
  <2>8. ToSlice(res) = res /\ res # Nil
    BY <2>7, SliceIs
  <2>9. Fits(r, res)
    BY <1>1, <2>7 DEF Fits
  <2>10. Appended(ToSlice(res), ToSlice(old), more, n + 1)
    BY <2>1, <2>4, <2>5, <2>8
  <2>11. Kept(r, res, old, more, n + 1)
    BY <1>0, <1>1, <2>8, <2>9, <2>10 DEF Kept, Combining
  <2> QED
    BY <2>6, <2>11
<1>2. CASE r = "messages"
  <2>1. PICK v, o, w : v = ToSlice(c) /\ o = ToSlice(old) /\ w = ToSlice(u)
    OBVIOUS
  <2>2. v \in Seq(Elements) /\ o \in Seq(Elements) /\ w \in Seq(Elements)
    BY <1>0, <1>2, <2>1, SliceOf
  <2>3. Addressed(v, o, words)
    BY <1>2, <2>1 DEF Kept
  <2>4. PICK res : res = AddMessages(c, u)
    OBVIOUS
  <2>5. Added(res, v, w, Len(w))
    BY <2>1, <2>2, <2>4, AddedAll
  <2>6. Addressed(res, o, more)
    <3>1. w = ToSlice(more[n + 1])
      BY <2>1
    <3> QED
      BY <2>2, <2>3, <2>5, <3>1, AddressedOn
  <2>7. res \in Seq(Elements)
    BY <2>5, Zenon DEF Added
  <2>8. ToSlice(res) = res /\ res # Nil
    BY <2>7, SliceIs
  <2>9. Reduce(r, c, u) = res
    BY <1>2, <2>4 DEF Reduce
  <2>10. Fits(r, res)
    BY <1>2, <2>7 DEF Fits
  <2>11. Addressed(ToSlice(res), ToSlice(old), more)
    BY <2>1, <2>6, <2>8
  <2>12. Kept(r, res, old, more, n + 1)
    BY <1>0, <1>2, <2>8, <2>10, <2>11 DEF Kept, Combining
  <2> QED
    BY <2>9, <2>12
<1>3. CASE r = "sum"
  <2>1. /\ c = Nil \/ c \in Int
        /\ old = Nil \/ old \in Int
        /\ u = Nil \/ u \in Int
    BY <1>0, <1>3 DEF Fits, Combining
  <2>2. PICK res : res = SumInt(c, u)
    OBVIOUS
  <2>3. /\ DOMAIN words = {} => c = old
        /\ DOMAIN words # {} => c # Nil /\ Summed(c, old, words)
    BY <1>3 DEF Kept, Combining
  <2>4. res \in Int /\ Summed(res, old, more)
    BY <2>1, <2>2, <2>3, SummedOn
  <2>5. Reduce(r, c, u) = res
    BY <1>3, <2>2 DEF Reduce
  <2>6. Fits(r, res) /\ res # Nil
    BY <1>3, <2>4 DEF Fits, NilIsNone
  <2>7. Kept(r, res, old, more, n + 1)
    BY <1>0, <1>3, <2>4, <2>6 DEF Kept, Combining
  <2> QED
    BY <2>5, <2>7
<1>4. CASE r = "map"
  <2>1. PICK m, o, w : m = ToMap(c) /\ o = ToMap(old) /\ w = ToMap(u)
    OBVIOUS
  <2>2. PICK res : res = [x \in DOMAIN m \cup DOMAIN w |-> IF x \in DOMAIN w THEN w[x] ELSE m[x]]
    OBVIOUS
  <2>3. Combined(m, o, words)
    BY <1>4, <2>1 DEF Kept
  <2>4. Combined(res, o, more)
    <3>1. w = ToMap(more[n + 1])
      BY <2>1
    <3>2. Combined([x \in DOMAIN m \cup DOMAIN w |-> IF x \in DOMAIN w THEN w[x] ELSE m[x]], o, more)
      BY <2>3, <3>1, CombinedOn
    <3> QED
      BY <2>2, <3>2, Zenon
  <2>5. Reduce(r, c, u) = res
    <3>1. Reduce(r, c, u) = MergeMap(c, u)
      BY <1>4 DEF Reduce
    <3>2. MergeMap(c, u) = res
      BY <2>1, <2>2 DEF MergeMap
    <3> QED
      BY <3>1, <3>2
  <2>6. IsMap(res) /\ res # Nil
    BY <2>2 DEF IsMap, NilIsNone
  <2>7. Fits(r, res) /\ ToMap(res) = res
    BY <1>4, <2>6 DEF Fits, ToMap
  <2>8. Kept(r, res, old, more, n + 1)
    BY <1>0, <1>4, <2>1, <2>4, <2>6, <2>7 DEF Kept, Combining
  <2> QED
    BY <2>5, <2>8
<1>5. CASE r \notin Combining
  <2>1. Reduce(r, c, u) = u
    BY <1>5 DEF Reduce, Combining
  <2>2. Replaced(u, more)
    <3>1. DOMAIN more \subseteq 1 .. n + 1 /\ \A j \in DOMAIN more : j <= n + 1
      BY DEF Goes
    <3> QED
      BY <3>1 DEF Replaced
  <2>3. r \notin {"append", "messages", "sum", "map"}
    BY <1>5 DEF Combining
  <2>4. Kept(r, u, old, more, n + 1)
    BY <1>0, <1>5, <2>2, <2>3 DEF Kept
  <2> QED
    BY <2>1, <2>4
<1>6. r \in Combining => r \in {"append", "messages", "sum", "map"}
  BY DEF Combining
<1> QED
  BY <1>1, <1>2, <1>3, <1>4, <1>5, <1>6

-------------------------------------------------------------------------------
(* The values of channels are of the kind their reducers are for.             *)
Kind(k) == IF k \in DOMAIN Channels THEN Channels[k].reducer ELSE NoReducer
Held(k, s) == IF k \in DOMAIN s THEN s[k] ELSE IF k \in DOMAIN Channels THEN Channels[k].default ELSE Nil
StateFits(s) == \A k \in DOMAIN s : Fits(Kind(k), s[k])

ChannelsFit ==
    /\ NilIsNone /\ IdLists \subseteq Seq(StepIds)
    /\ \A k \in DOMAIN Channels : Fits(Channels[k].reducer, Channels[k].default)
    /\ \A n \in DOMAIN StepNodes : StateFits(StepUpdates[n])
    /\ \A s \in StepInputs : StateFits(s)

SaidOf(bs, k, n) ==
    [i \in {i \in 1 .. n : bs[i].st = "ok" /\ k \in DOMAIN StepUpdates[bs[i].node]} |-> StepUpdates[bs[i].node][k]]

(* What the first n branches have made of a key of the input.                *)
Merges(s, input, bs, k, n) ==
    /\ k \in DOMAIN s <=> k \in DOMAIN input \/ DOMAIN SaidOf(bs, k, n) # {}
    /\ Kept(Kind(k), Held(k, s), Held(k, input), SaidOf(bs, k, n), n)

LEMMA HeldFits == ASSUME ChannelsFit, NEW s, StateFits(s), NEW k PROVE Fits(Kind(k), Held(k, s))
BY DEF ChannelsFit, StateFits, Kind, Held, Fits

LEMMA SaidGoes ==
    ASSUME NEW bs, NEW k, NEW n \in Nat
    PROVE  Goes(SaidOf(bs, k, n), SaidOf(bs, k, n + 1), n)
<1>1. PICK words, more : words = SaidOf(bs, k, n) /\ more = SaidOf(bs, k, n + 1)
  OBVIOUS
<1>2. /\ words = [i \in {i \in 1 .. n : bs[i].st = "ok" /\ k \in DOMAIN StepUpdates[bs[i].node]} |->
                     StepUpdates[bs[i].node][k]]
      /\ more = [i \in {i \in 1 .. n + 1 : bs[i].st = "ok" /\ k \in DOMAIN StepUpdates[bs[i].node]} |->
                     StepUpdates[bs[i].node][k]]
  BY <1>1 DEF SaidOf
<1>3. IsMap(words) /\ IsMap(more)
  BY <1>2 DEF IsMap
<1>4. DOMAIN words \subseteq 1 .. n /\ DOMAIN more \subseteq 1 .. n + 1
  BY <1>2
<1>5. \A i \in 1 .. n : i \in DOMAIN more <=> i \in DOMAIN words
  BY <1>2
<1>6. \A i \in 1 .. n : i \in DOMAIN words => more[i] = words[i]
  BY <1>2
<1> QED
  BY <1>1, <1>3, <1>4, <1>5, <1>6 DEF Goes

(* One word on each of its keys. *)
LEMMA UpdatedOne ==
    ASSUME NEW s, NEW updates, NEW k, NEW t, t = ApplyUpdates(Channels, s, updates)
    PROVE  /\ k \in DOMAIN t <=> k \in DOMAIN s \/ k \in DOMAIN updates
           /\ Held(k, t) = IF k \in DOMAIN updates THEN Reduce(Kind(k), Held(k, s), updates[k]) ELSE Held(k, s)
<1>1. t = [x \in DOMAIN s \cup DOMAIN updates |->
            IF x \in DOMAIN updates THEN Update(Channels, s, x, updates[x])[x] ELSE s[x]]
  BY DEF ApplyUpdates
<1>2. DOMAIN t = DOMAIN s \cup DOMAIN updates
  BY <1>1
<1>3. CASE k \in DOMAIN updates
  <2>1. t[k] = Update(Channels, s, k, updates[k])[k]
    BY <1>1, <1>3
  <2>2. \A v : Set(s, k, v)[k] = v
    BY DEF Set
  <2>3. CASE k \in DOMAIN Channels /\ Channels[k].reducer # NoReducer
    <3>1. Update(Channels, s, k, updates[k]) = Set(s, k, Reduce(Kind(k), Held(k, s), updates[k]))
      BY <2>3, Zenon DEF Update, Kind, Held
    <3> QED
      BY <1>2, <1>3, <2>1, <2>2, <3>1 DEF Held
  <2>4. CASE ~(k \in DOMAIN Channels /\ Channels[k].reducer # NoReducer)
    <3>1. Update(Channels, s, k, updates[k]) = Set(s, k, updates[k])
      BY <2>4, Zenon DEF Update
    <3>2. Kind(k) = "none"
      BY <2>4 DEF Kind, NoReducer
    <3>3. Reduce(Kind(k), Held(k, s), updates[k]) = updates[k]
      BY <3>2 DEF Reduce
    <3> QED
      BY <1>2, <1>3, <2>1, <2>2, <3>1, <3>3 DEF Held
  <2> QED
    BY <2>3, <2>4
<1>4. CASE k \notin DOMAIN updates
  BY <1>1, <1>2, <1>4 DEF Held
<1> QED
  BY <1>2, <1>3, <1>4

(* One branch after another. *)
LEMMA HoldsOn ==
    ASSUME ChannelsFit, NEW s, NEW t, NEW input, StateFits(input), NEW bs, NEW k, NEW n \in Nat,
           Merges(s, input, bs, k, n), bs[n + 1].st = "ok" => bs[n + 1].node \in DOMAIN StepNodes,
           t = IF bs[n + 1].st # "ok" THEN s ELSE ApplyUpdates(Channels, s, StepUpdates[bs[n + 1].node])
    PROVE  Merges(t, input, bs, k, n + 1)
<1>1. PICK words, more, u : /\ words = SaidOf(bs, k, n) /\ more = SaidOf(bs, k, n + 1)
                            /\ u = StepUpdates[bs[n + 1].node]
  OBVIOUS
<1>2. Goes(words, more, n) /\ NilIsNone /\ Fits(Kind(k), Held(k, input))
  BY <1>1, SaidGoes, HeldFits DEF ChannelsFit
<1>3. /\ k \in DOMAIN s <=> k \in DOMAIN input \/ DOMAIN words # {}
      /\ Kept(Kind(k), Held(k, s), Held(k, input), words, n)
  BY <1>1 DEF Merges
<1>4. n + 1 \in DOMAIN more <=> bs[n + 1].st = "ok" /\ k \in DOMAIN u
  BY <1>1 DEF SaidOf
<1>5. CASE n + 1 \notin DOMAIN more
  <2>1. Held(k, t) = Held(k, s) /\ (k \in DOMAIN t <=> k \in DOMAIN s)
    <3>1. CASE bs[n + 1].st # "ok"
      BY <3>1
    <3>2. CASE bs[n + 1].st = "ok"
      <4>1. t = ApplyUpdates(Channels, s, u) /\ k \notin DOMAIN u
        BY <1>1, <1>4, <1>5, <3>2
      <4> QED
        BY <4>1, UpdatedOne
    <3> QED
      BY <3>1, <3>2
  <2>2. DOMAIN more = DOMAIN words
    BY <1>2, <1>5 DEF Goes
  <2>3. Kept(Kind(k), Held(k, s), Held(k, input), more, n + 1)
    BY <1>2, <1>3, <1>5, KeptStill
  <2> QED
    BY <1>1, <1>3, <2>1, <2>2, <2>3 DEF Merges
<1>6. CASE n + 1 \in DOMAIN more
  <2>1. t = ApplyUpdates(Channels, s, u) /\ k \in DOMAIN u /\ bs[n + 1].node \in DOMAIN StepNodes
    BY <1>1, <1>4, <1>6
  <2>2. Held(k, t) = Reduce(Kind(k), Held(k, s), u[k]) /\ k \in DOMAIN t
    BY <2>1, UpdatedOne
  <2>3. Fits(Kind(k), u[k]) /\ more[n + 1] = u[k]
    <3>1. Fits(Kind(k), u[k])
      BY <1>1, <2>1 DEF ChannelsFit, StateFits
    <3>2. more[n + 1] = u[k]
      BY <1>1, <1>6 DEF SaidOf
    <3> QED
      BY <3>1, <3>2
  <2>4. Kept(Kind(k), Reduce(Kind(k), Held(k, s), u[k]), Held(k, input), more, n + 1)
    BY <1>2, <1>3, <1>6, <2>3, KeptOn
  <2>5. DOMAIN more # {}
    BY <1>6
  <2> QED
    BY <1>1, <2>2, <2>4, <2>5 DEF Merges
<1> QED
  BY <1>5, <1>6

(* Branch after branch, as the loop goes. *)
Chained(f, input, bs, n) ==
    /\ f[0] = input
    /\ \A i \in 1 .. n :
          f[i] = IF bs[i].st # "ok" THEN f[i - 1] ELSE ApplyUpdates(Channels, f[i - 1], StepUpdates[bs[i].node])

LEMMA MergedIs ==
    ASSUME NEW input, NEW n \in Nat, n = Len(branches)
    PROVE  \E f : Chained(f, input, branches, n) /\ MergedState(input) = f[n]
<1> DEFINE Along(g, i) == IF branches[i].st # "ok" THEN g[i - 1]
                          ELSE ApplyUpdates(Channels, g[i - 1], StepUpdates[branches[i].node])
           Laid(f, m) == f = [i \in 0 .. m |->
                                IF i = 0 THEN input ELSE IF branches[i].st # "ok" THEN f[i - 1]
                                ELSE ApplyUpdates(Channels, f[i - 1], StepUpdates[branches[i].node])]
           done == {m \in 0 .. n : \E f : Laid(f, m)}
<1>2. 0 \in done
  <2>1. Laid([i \in 0 .. 0 |-> input], 0)
    OBVIOUS
  <2> HIDE DEF Laid
  <2> QED
    BY <2>1
<1>3. ASSUME NEW m \in 1 .. n, m - 1 \in done PROVE m \in done
  <2>1. PICK g : Laid(g, m - 1)
    <3> HIDE DEF Laid
    <3> QED
      BY <1>3
  <2>2. \A i \in 0 .. m - 1 : g[i] = IF i = 0 THEN input ELSE Along(g, i)
    BY <2>1
  <2> DEFINE h == [i \in 0 .. m |-> IF i < m THEN g[i] ELSE Along(g, m)]
  <2>3. \A i \in 0 .. m : h[i] = IF i = 0 THEN input ELSE Along(h, i)
    BY <2>2
  <2>4. h = [i \in 0 .. m |-> h[i]]
    OBVIOUS
  <2>5. Laid(h, m)
    <3> HIDE DEF h
    <3> QED
      BY <2>3, <2>4
  <2> HIDE DEF Laid, h
  <2> QED
    BY <2>5
<1>4. \E f : Laid(f, n)
  <2> HIDE DEF Laid, done
  <2>1. \A m \in 1 .. n : m - 1 \in done => m \in done
    BY <1>3
  <2>2. n \in 0 .. n
    OBVIOUS
  <2>3. n \in done
    BY <1>2, <2>1, <2>2, CountsUp
  <2> USE DEF done
  <2> QED
    BY <2>3
<1>5. PICK f : f = (CHOOSE g : Laid(g, n))
  OBVIOUS
<1>6. Laid(f, n)
  <2> HIDE DEF Laid
  <2> QED
    BY <1>4, <1>5
<1>7. MergedState(input) = f[n]
  BY <1>5 DEF MergedState
<1>8. \A i \in 0 .. n : f[i] = IF i = 0 THEN input ELSE Along(f, i)
  BY <1>6
<1>9. f[0] = input /\ \A i \in 1 .. n : f[i] = Along(f, i)
  <2> HIDE DEF Laid, done, Along
  <2> QED
    BY <1>8
<1>10. Chained(f, input, branches, n)
  BY <1>9 DEF Chained
<1> QED
  BY <1>7, <1>10

(* The merge, key by key. *)
LEMMA MergeHolds ==
    ASSUME ChannelsFit, NEW input, StateFits(input), NEW n \in Nat, n = Len(branches),
           \A i \in 1 .. n : branches[i].st = "ok" => branches[i].node \in DOMAIN StepNodes, NEW k
    PROVE  Merges(MergedState(input), input, branches, k, n)
<1>1. PICK bs : bs = branches
  OBVIOUS
<1>2. PICK f : Chained(f, input, bs, n) /\ MergedState(input) = f[n]
  BY <1>1, MergedIs
<1> DEFINE S == {i \in 0 .. n : Merges(f[i], input, bs, k, i)}
<1>3. 0 \in S
  <2>1. PICK words : words = SaidOf(bs, k, 0)
    OBVIOUS
  <2>2. DOMAIN words = {}
    BY <2>1 DEF SaidOf
  <2>3. Kept(Kind(k), Held(k, input), Held(k, input), words, 0)
    BY <2>2, HeldFits, KeptFirst
  <2>4. Merges(input, input, bs, k, 0)
    BY <2>1, <2>2, <2>3 DEF Merges
  <2> QED
    BY <1>2, <2>4 DEF Chained
<1>4. ASSUME NEW i \in 1 .. n, i - 1 \in S PROVE i \in S
  <2>1. PICK j \in Nat : i = j + 1 /\ i - 1 = j
    <3>1. i - 1 \in Nat /\ i = (i - 1) + 1
      OBVIOUS
    <3> QED
      BY <3>1
  <2>2. PICK s, t : s = f[j] /\ t = f[j + 1]
    OBVIOUS
  <2>3. Merges(s, input, bs, k, j)
    BY <1>4, <2>1, <2>2
  <2>4. bs[j + 1].st = "ok" => bs[j + 1].node \in DOMAIN StepNodes
    BY <1>1, <2>1
  <2>5. t = IF bs[j + 1].st # "ok" THEN s ELSE ApplyUpdates(Channels, s, StepUpdates[bs[j + 1].node])
    BY <1>2, <2>1, <2>2 DEF Chained
  <2>6. Merges(t, input, bs, k, j + 1)
    BY <2>3, <2>4, <2>5, HoldsOn
  <2> QED
    BY <2>1, <2>2, <2>6
<1>5. n \in S
  <2> HIDE DEF S
  <2>1. \A i \in 1 .. n : i - 1 \in S => i \in S
    BY <1>4
  <2>2. n \in 0 .. n
    OBVIOUS
  <2> QED
    BY <1>3, <2>1, <2>2, CountsUp
<1> QED
  BY <1>1, <1>2, <1>5

-------------------------------------------------------------------------------
(* A call from its beginning to its answer. The states before and after a     *)
(* step are given as values, so that the facts are about any two of them.     *)
States == StepInputs \cup {Empty}
Told(bs) == {i \in 1 .. Len(bs) : bs[i].st \in {"ok", "failed"}}

OneFailed(bs) == \E i \in 1 .. Len(bs) : bs[i].st = "failed"

UnderWay(c, s, bs, rep) ==
    /\ c.input = s /\ \A i \in 1 .. Len(bs) : bs[i].st # "launched" => bs[i].saw = s
    /\ c.mode = "results" => DOMAIN rep.results = {bs[i].node : i \in Told(bs)}

Over(c, bs, rep) ==
    /\ \A i \in 1 .. Len(bs) : i \in Told(bs) /\ bs[i].saw = c.input
    /\ c.mode = "results" => DOMAIN rep.results = {c.ids[i] : i \in 1 .. Len(c.ids)}
    /\ Len(c.ids) > 0 => (rep.err <=> OneFailed(bs))
    /\ c.mode = "updates" => \A k : Merges(rep.state, c.input, bs, k, Len(bs))

CallShape(c) ==
    c \in [pc : {"idle", "launch", "wait", "returned"}, mode : {"updates", "results"}, ids : Seq(StepIds),
           input : States, next : Nat]
BranchRecords == [node : StepIds, st : {"launched", "running", "ok", "failed"}, saw : States]
BranchShape(bs) == bs \in Seq(BranchRecords)
AnswerShape(rep) == rep = [state |-> rep.state, results |-> rep.results, err |-> rep.err]

Launches(c, bs) ==
    /\ Len(bs) <= Len(c.ids)
    /\ \A i \in 1 .. Len(bs) : bs[i].node = c.ids[i] /\ (bs[i].st = "ok" => bs[i].node \in DOMAIN StepNodes)
    /\ c.pc = "idle" => Len(bs) = 0
    /\ c.pc = "launch" => c.next \in 1 .. Len(c.ids) /\ Len(bs) = c.next - 1
    /\ c.pc = "wait" => Len(bs) = Len(c.ids) /\ Len(bs) > 0

Sound(c, s, bs, rep) ==
    /\ CallShape(c) /\ s \in StepInputs /\ BranchShape(bs) /\ AnswerShape(rep)
    /\ Launches(c, bs)
    /\ c.pc \in {"launch", "wait"} => UnderWay(c, s, bs, rep)
    /\ c.pc = "returned" /\ Len(bs) >= Len(c.ids) => Over(c, bs, rep)

StepInv == Sound(superstep, passed, branches, reported)

LEMMA IdleShape ==
    /\ NoCall = [pc |-> "idle", mode |-> "updates", ids |-> <<>>, input |-> Empty, next |-> 1]
    /\ NoReport = [state |-> Empty, results |-> Empty, err |-> FALSE]
    /\ DOMAIN Empty = {}
BY DEF NoCall, NoReport, Empty

LEMMA StepBegins == ASSUME StepInit PROVE StepInv
<1>1. PICK c, bs, rep : c = superstep /\ bs = branches /\ rep = reported
  OBVIOUS
<1>2. /\ c = [pc |-> "idle", mode |-> "updates", ids |-> <<>>, input |-> Empty, next |-> 1]
      /\ bs = <<>> /\ rep = [state |-> Empty, results |-> Empty, err |-> FALSE]
  BY <1>1, IdleShape DEF StepInit
<1>3. CallShape(c)
  BY <1>2 DEF CallShape, States
<1>4. BranchShape(bs) /\ AnswerShape(rep)
  BY <1>2 DEF BranchRecords, BranchShape, AnswerShape
<1>5. Len(bs) = 0 /\ Len(c.ids) = 0 /\ c.pc = "idle"
  BY <1>2
<1>6. Launches(c, bs)
  BY <1>5 DEF Launches
<1>7. passed \in StepInputs
  BY DEF StepInit
<1> QED
  BY <1>1, <1>3, <1>4, <1>5, <1>6, <1>7 DEF StepInv, Sound

(* A call that asks for nothing is over at once, one that asks for a node     *)
(* that is not there is refused.                                              *)
LEMMA BeginKept ==
    ASSUME ChannelsFit, StepInv, NEW mode \in {"updates", "results"}, NEW ids \in Seq(StepIds), BeginStep(mode, ids)
    PROVE  StepInv'
<1>1. PICK s, c, bs, rep : s = passed /\ c = superstep' /\ bs = branches' /\ rep = reported'
  OBVIOUS
<1>2. bs = <<>> /\ passed' = s /\ s \in StepInputs
  BY <1>1 DEF BeginStep, StepInv, Sound
<1>3. Len(bs) = 0 /\ BranchShape(bs) /\ s \in States
  BY <1>2 DEF BranchRecords, BranchShape, States
<1>4. CASE ids = <<>>
  <2>1. /\ c = [NoCall EXCEPT !.pc = "returned", !.mode = mode, !.input = s]
        /\ rep = [NoReport EXCEPT !.state = s]
    BY <1>1, <1>4 DEF BeginStep
  <2>2. /\ c = [pc |-> "returned", mode |-> mode, ids |-> <<>>, input |-> s, next |-> 1]
        /\ rep = [state |-> s, results |-> Empty, err |-> FALSE]
    BY <2>1, IdleShape
  <2>3. CallShape(c) /\ AnswerShape(rep) /\ Len(c.ids) = 0
    BY <1>3, <2>2 DEF CallShape, AnswerShape
  <2>4. Launches(c, bs)
    BY <1>3, <2>2 DEF Launches
  <2>5. ASSUME NEW k PROVE Merges(s, s, bs, k, 0)
    <3>1. StateFits(s)
      BY <1>2 DEF ChannelsFit
    <3>2. PICK words : words = SaidOf(bs, k, 0)
      OBVIOUS
    <3>3. DOMAIN words = {}
      BY <3>2 DEF SaidOf
    <3>4. Kept(Kind(k), Held(k, s), Held(k, s), words, 0)
      BY <3>1, <3>3, HeldFits, KeptFirst
    <3> QED
      BY <3>2, <3>3, <3>4 DEF Merges
  <2>6. DOMAIN rep.results = {c.ids[i] : i \in 1 .. Len(c.ids)}
    BY <2>2, <2>3, IdleShape
  <2>7. Over(c, bs, rep)
    <3>1. rep.state = s /\ c.input = s
      BY <2>2
    <3> QED
      BY <1>3, <2>3, <2>5, <2>6, <3>1 DEF Over
  <2>8. c.pc = "returned"
    BY <2>2
  <2> QED
    BY <1>1, <1>2, <1>3, <2>3, <2>4, <2>7, <2>8 DEF StepInv, Sound
<1>5. CASE ids # <<>> /\ mode = "updates" /\ ~(\A i \in DOMAIN ids : ids[i] \in DOMAIN StepNodes)
  <2>1. /\ c = [NoCall EXCEPT !.pc = "returned", !.ids = ids, !.input = s]
        /\ rep = [NoReport EXCEPT !.err = TRUE]
    BY <1>1, <1>5 DEF BeginStep
  <2>2. /\ c = [pc |-> "returned", mode |-> "updates", ids |-> ids, input |-> s, next |-> 1]
        /\ rep = [state |-> Empty, results |-> Empty, err |-> TRUE]
    BY <2>1, IdleShape
  <2>3. CallShape(c) /\ AnswerShape(rep) /\ Len(c.ids) > 0 /\ c.pc = "returned"
    BY <1>3, <1>5, <2>2, EmptySeq DEF CallShape, AnswerShape
  <2>4. Launches(c, bs)
    BY <1>3, <2>2, <2>3 DEF Launches
  <2> QED
    BY <1>1, <1>2, <1>3, <2>3, <2>4 DEF StepInv, Sound
<1>6. CASE ids # <<>> /\ ~(mode = "updates" /\ ~(\A i \in DOMAIN ids : ids[i] \in DOMAIN StepNodes))
  <2>1. /\ c = [pc |-> "launch", mode |-> mode, ids |-> ids, input |-> s, next |-> 1]
        /\ rep = NoReport
    BY <1>1, <1>6 DEF BeginStep
  <2>2. CallShape(c) /\ AnswerShape(rep) /\ Len(c.ids) \in Nat \ {0} /\ c.pc = "launch"
    BY <1>3, <1>6, <2>1, IdleShape, EmptySeq DEF CallShape, AnswerShape
  <2>3. Launches(c, bs)
    BY <1>3, <2>1, <2>2 DEF Launches
  <2>4. UnderWay(c, s, bs, rep)
    <3>1. DOMAIN rep.results = {} /\ Told(bs) = {}
      BY <1>3, <2>1, IdleShape DEF Told
    <3> QED
      BY <1>3, <2>1, <3>1 DEF UnderWay
  <2> QED
    BY <1>1, <1>2, <1>3, <2>2, <2>3, <2>4 DEF StepInv, Sound
<1> QED
  BY <1>4, <1>5, <1>6

(* A branch more, or a call given up with branches that run on.               *)
LEMMA LaunchKept == ASSUME StepInv, LaunchBranch PROVE StepInv'
<1>1. PICK s, c, bs, rep : s = passed /\ c = superstep /\ bs = branches /\ rep = reported
  OBVIOUS
<1>2. PICK cc, bb, rr : cc = superstep' /\ bb = branches' /\ rr = reported'
  OBVIOUS
<1>3. CallShape(c) /\ s \in StepInputs /\ BranchShape(bs) /\ AnswerShape(rep) /\ Launches(c, bs) /\ c.pc = "launch"
  BY <1>1 DEF StepInv, Sound, LaunchBranch
<1>4. UnderWay(c, s, bs, rep) /\ passed' = s
  BY <1>1, <1>3 DEF StepInv, Sound, LaunchBranch
<1>5. PICK n, len, ids : n = c.next /\ len = Len(bs) /\ ids = c.ids
  OBVIOUS
<1>6. n \in 1 .. Len(ids) /\ len = n - 1 /\ len \in Nat /\ ids \in Seq(StepIds) /\ ids[n] \in StepIds
  BY <1>3, <1>5 DEF CallShape, BranchShape, Launches
<1>7. CASE c.mode = "updates" /\ StepNodes[ids[n]] # "update"
  <2>1. /\ cc = [c EXCEPT !.pc = "returned"] /\ rr = [NoReport EXCEPT !.err = TRUE] /\ bb = bs
    BY <1>1, <1>2, <1>5, <1>7 DEF LaunchBranch, ReturnFromStep
  <2>2. /\ cc = [pc |-> "returned", mode |-> c.mode, ids |-> ids, input |-> c.input, next |-> n]
        /\ rr = [state |-> Empty, results |-> Empty, err |-> TRUE]
    BY <1>3, <1>5, <2>1, IdleShape DEF CallShape
  <2>3. CallShape(cc) /\ AnswerShape(rr)
    BY <1>3, <1>5, <2>2 DEF CallShape, AnswerShape
  <2>4. Launches(cc, bb)
    BY <1>3, <1>5, <2>1, <2>2 DEF Launches
  <2>5. cc.pc = "returned" /\ cc.ids = ids /\ Len(bb) = n - 1
    BY <1>5, <1>6, <2>1, <2>2
  <2>6. ~(Len(bb) >= Len(cc.ids))
    <3>1. ~(n - 1 >= Len(ids))
      BY <1>6
    <3> QED
      BY <2>5, <3>1
  <2> QED
    BY <1>2, <1>3, <1>4, <2>1, <2>3, <2>4, <2>5, <2>6 DEF StepInv, Sound
<1>8. CASE ~(c.mode = "updates" /\ StepNodes[ids[n]] # "update")
  <2>1. PICK b : b = [node |-> ids[n], st |-> "launched", saw |-> Empty]
    OBVIOUS
  <2>2. /\ bb = Append(bs, b) /\ rr = rep
        /\ cc = [c EXCEPT !.next = @ + 1, !.pc = IF n = Len(ids) THEN "wait" ELSE @]
    BY <1>1, <1>2, <1>5, <1>8, <2>1 DEF LaunchBranch, Branch
  <2>3. PICK where : where = IF n = Len(ids) THEN "wait" ELSE "launch"
    OBVIOUS
  <2>4. cc = [pc |-> where, mode |-> c.mode, ids |-> ids, input |-> c.input, next |-> n + 1]
    BY <1>3, <1>5, <2>2, <2>3 DEF CallShape
  <2>5. CallShape(cc)
    BY <1>3, <1>5, <1>6, <2>3, <2>4 DEF CallShape
  <2>6. BranchShape(bb) /\ Len(bb) = n /\ bb[n] = b /\ \A i \in 1 .. n - 1 : bb[i] = bs[i]
    <3> DEFINE Each == [node : StepIds, st : {"launched", "running", "ok", "failed"}, saw : States]
    <3>1. bs \in Seq(Each) /\ b \in Each
      BY <1>3, <1>6, <2>1 DEF BranchRecords, BranchShape, States
    <3> HIDE DEF Each
    <3>2. bb = Append(bs, b) /\ Len(bs) = n - 1
      BY <1>5, <1>6, <2>2
    <3>3. bb \in Seq(Each) /\ Len(bb) = n /\ bb[n] = b /\ \A i \in 1 .. n - 1 : bb[i] = bs[i]
      BY <1>6, <3>1, <3>2
    <3> USE DEF Each
    <3> QED
      BY <3>3 DEF BranchRecords, BranchShape
  <2>7. Launches(cc, bb)
    <3>1. \A i \in 1 .. n : bb[i].node = ids[i] /\ (bb[i].st = "ok" => bb[i].node \in DOMAIN StepNodes)
      <4>1. \A i \in 1 .. n : i = n \/ i \in 1 .. n - 1
        BY <1>6
      <4>2. \A i \in 1 .. n - 1 : bs[i].node = ids[i] /\ (bs[i].st = "ok" => bs[i].node \in DOMAIN StepNodes)
        BY <1>3, <1>5, <1>6 DEF Launches
      <4> QED
        BY <2>1, <2>6, <4>1, <4>2
    <3>2. CASE n = Len(ids)
      BY <1>6, <2>3, <2>4, <2>6, <3>1, <3>2 DEF Launches
    <3>3. CASE n # Len(ids)
      BY <1>6, <2>3, <2>4, <2>6, <3>1, <3>3 DEF Launches
    <3> QED
      BY <3>2, <3>3
  <2>8. UnderWay(cc, s, bb, rr)
    <3>1. cc.input = s /\ cc.mode = c.mode
      BY <1>4, <2>4 DEF UnderWay
    <3>2. \A i \in 1 .. n : i = n \/ i \in 1 .. len
      BY <1>6
    <3>3. \A i \in 1 .. n : bb[i].st # "launched" => bb[i].saw = s
      BY <1>4, <1>5, <1>6, <2>1, <2>6, <3>2 DEF UnderWay
    <3>4. Told(bb) = Told(bs)
      BY <1>5, <1>6, <2>1, <2>6, <3>2 DEF Told
    <3>5. \A i \in Told(bs) : bb[i] = bs[i]
      BY <1>5, <1>6, <2>6 DEF Told
    <3>6. {bb[i].node : i \in Told(bb)} = {bs[i].node : i \in Told(bs)}
      BY <3>4, <3>5
    <3>7. c.mode = "results" => DOMAIN rr.results = {bb[i].node : i \in Told(bb)}
      BY <1>4, <2>2, <3>6 DEF UnderWay
    <3> QED
      BY <2>6, <3>1, <3>3, <3>7 DEF UnderWay
  <2>9. cc.pc \in {"launch", "wait"}
    BY <2>3, <2>4
  <2> QED
    BY <1>2, <1>3, <1>4, <2>2, <2>5, <2>6, <2>7, <2>8, <2>9 DEF StepInv, Sound
<1> QED
  BY <1>7, <1>8

OneOn(c, bs, bb, i, b) ==
    /\ BranchShape(bb) /\ Launches(c, bb) /\ Len(bb) = Len(bs)
    /\ bb[i] = b /\ \A j \in 1 .. Len(bs) : j # i => bb[j] = bs[j]
Swapped(bs, i, b) == [j \in 1 .. Len(bs) |-> IF j = i THEN b ELSE bs[j]]

(* One branch goes a step further: a copy of the same state, or a word of     *)
(* how it ended.                                                              *)
LEMMA BranchGoes ==
    ASSUME NEW c, NEW bs, NEW bb, NEW b, BranchShape(bs), Launches(c, bs), NEW i \in 1 .. Len(bs),
           b \in BranchRecords,
           bb = Swapped(bs, i, b), b.node = bs[i].node, b.st = "ok" => b.node \in DOMAIN StepNodes
    PROVE  OneOn(c, bs, bb, i, b)
<1>2. bb \in Seq(BranchRecords) /\ Len(bb) = Len(bs) /\ bb[i] = b /\ \A j \in 1 .. Len(bs) : j # i => bb[j] = bs[j]
  BY DEF BranchShape, Swapped
<1>3. \A j \in 1 .. Len(bs) : bb[j].node = c.ids[j] /\ (bb[j].st = "ok" => bb[j].node \in DOMAIN StepNodes)
  <2> SUFFICES ASSUME NEW j \in 1 .. Len(bs)
               PROVE  bb[j].node = c.ids[j] /\ (bb[j].st = "ok" => bb[j].node \in DOMAIN StepNodes)
    OBVIOUS
  <2>1. bs[j].node = c.ids[j] /\ (bs[j].st = "ok" => bs[j].node \in DOMAIN StepNodes)
    BY DEF Launches
  <2>2. CASE j = i
    BY <1>2, <2>1, <2>2
  <2>3. CASE j # i
    BY <1>2, <2>1, <2>3
  <2> QED
    BY <2>2, <2>3
<1>4. Launches(c, bb)
  BY <1>2, <1>3 DEF Launches
<1>5. BranchShape(bb)
  BY <1>2 DEF BranchShape
<1> QED
  BY <1>2, <1>4, <1>5 DEF OneOn

LEMMA CopyKept == ASSUME StepInv, NEW i \in DOMAIN branches, CopyState(i) PROVE StepInv'
<1>1. PICK s, c, bs, rep : s = passed /\ c = superstep /\ bs = branches /\ rep = reported
  OBVIOUS
<1>2. PICK bb : bb = branches'
  OBVIOUS
<1>3. CallShape(c) /\ s \in StepInputs /\ BranchShape(bs) /\ AnswerShape(rep) /\ Launches(c, bs)
  BY <1>1 DEF StepInv, Sound
<1>4. passed' = s /\ superstep' = c /\ reported' = rep
  BY <1>1 DEF CopyState
<1>5. i \in 1 .. Len(bs)
  BY <1>1, <1>3 DEF BranchShape
<1>6. PICK a : a = bs[i]
  OBVIOUS
<1>7. a \in BranchRecords /\ a.st = "launched"
  <2>1. a \in BranchRecords
    BY <1>3, <1>5, <1>6 DEF BranchShape
  <2>2. a.st = "launched"
    BY <1>1, <1>6 DEF CopyState
  <2> QED
    BY <2>1, <2>2
<1>8. PICK b : b = [node |-> a.node, st |-> "running", saw |-> s]
  OBVIOUS
<1>9. bb = Swapped(bs, i, b)
  <2>1. bb = [bs EXCEPT ![i].st = "running", ![i].saw = s]
    BY <1>1, <1>2 DEF CopyState
  <2>2. DOMAIN bs = 1 .. Len(bs) /\ bs = [j \in 1 .. Len(bs) |-> bs[j]]
    BY <1>3 DEF BranchShape
  <2>3. b = [[a EXCEPT !.st = "running"] EXCEPT !.saw = s]
    <3>1. PICK once : once = [node |-> a.node, st |-> "running", saw |-> a.saw]
      OBVIOUS
    <3>2. once = [a EXCEPT !.st = "running"]
      BY <1>7, <3>1 DEF BranchRecords
    <3>3. b = [once EXCEPT !.saw = s]
      BY <1>8, <3>1
    <3> QED
      BY <3>2, <3>3
  <2>4. DOMAIN bb = 1 .. Len(bs) /\ bb = [j \in 1 .. Len(bs) |-> bb[j]]
    BY <2>1, <2>2
  <2>5. \A j \in 1 .. Len(bs) : j # i => bb[j] = bs[j]
    BY <2>1, <2>2
  <2>6. bb[i] = [[a EXCEPT !.st = "running"] EXCEPT !.saw = s]
    BY <1>5, <1>6, <2>1, <2>2
  <2> QED
    BY <1>5, <2>2, <2>3, <2>4, <2>5, <2>6 DEF Swapped
<1>10. /\ BranchShape(bb) /\ Launches(c, bb) /\ Len(bb) = Len(bs)
       /\ bb[i] = b /\ \A j \in 1 .. Len(bs) : j # i => bb[j] = bs[j]
  <2>1. b \in BranchRecords
    BY <1>3, <1>7, <1>8 DEF BranchRecords, States
  <2>2. b.node = bs[i].node /\ b.st # "ok"
    BY <1>6, <1>8
  <2>3. OneOn(c, bs, bb, i, b)
    BY <1>3, <1>5, <1>9, <2>1, <2>2, BranchGoes
  <2> QED
    BY <2>3 DEF OneOn
<1>11. i \notin Told(bs) /\ Told(bb) = Told(bs) /\ \A j \in Told(bs) : bb[j] = bs[j]
  BY <1>5, <1>6, <1>7, <1>8, <1>10 DEF Told
<1>12. UnderWay(c, s, bs, rep) => UnderWay(c, s, bb, rep)
  <2>1. {bb[j].node : j \in Told(bb)} = {bs[j].node : j \in Told(bs)}
    BY <1>11
  <2>2. ASSUME UnderWay(c, s, bs, rep), NEW j \in 1 .. Len(bs), bb[j].st # "launched" PROVE bb[j].saw = s
    BY <1>8, <1>10, <2>2 DEF UnderWay
  <2> QED
    BY <1>10, <2>1, <2>2 DEF UnderWay
<1>13. ~Over(c, bs, rep)
  BY <1>5, <1>11 DEF Over
<1>14. Sound(c, s, bb, rep)
  <2>1. /\ c.pc \in {"launch", "wait"} => UnderWay(c, s, bs, rep)
        /\ c.pc = "returned" /\ Len(bs) >= Len(c.ids) => Over(c, bs, rep)
    BY <1>1 DEF StepInv, Sound
  <2> QED
    BY <1>3, <1>10, <1>12, <1>13, <2>1 DEF Sound
<1> QED
  BY <1>2, <1>4, <1>14 DEF StepInv

LEMMA FinishKept ==
    ASSUME StepInv, NEW i \in DOMAIN branches, NEW st \in {"ok", "failed"}, FinishBranch(i, st)
    PROVE  StepInv'
<1>1. PICK s, c, bs, rep : s = passed /\ c = superstep /\ bs = branches /\ rep = reported
  OBVIOUS
<1>2. PICK bb, rr : bb = branches' /\ rr = reported'
  OBVIOUS
<1>3. CallShape(c) /\ s \in StepInputs /\ BranchShape(bs) /\ AnswerShape(rep) /\ Launches(c, bs)
  BY <1>1 DEF StepInv, Sound
<1>4. passed' = s /\ superstep' = c
  BY <1>1 DEF FinishBranch
<1>5. i \in 1 .. Len(bs)
  BY <1>1, <1>3 DEF BranchShape
<1>6. PICK a : a = bs[i]
  OBVIOUS
<1>7. a \in BranchRecords /\ a.st = "running"
  <2>1. a \in BranchRecords
    BY <1>3, <1>5, <1>6 DEF BranchShape
  <2>2. a.st = "running"
    BY <1>1, <1>6 DEF FinishBranch
  <2> QED
    BY <2>1, <2>2
<1>8. PICK b : b = [node |-> a.node, st |-> st, saw |-> a.saw]
  OBVIOUS
<1>9. bb = Swapped(bs, i, b)
  <2>1. bb = [bs EXCEPT ![i].st = st]
    BY <1>1, <1>2 DEF FinishBranch
  <2>2. DOMAIN bs = 1 .. Len(bs) /\ bs = [j \in 1 .. Len(bs) |-> bs[j]]
    BY <1>3 DEF BranchShape
  <2>3. b = [a EXCEPT !.st = st]
    BY <1>7, <1>8 DEF BranchRecords
  <2>4. DOMAIN bb = 1 .. Len(bs) /\ bb = [j \in 1 .. Len(bs) |-> bb[j]]
    BY <2>1, <2>2
  <2>5. \A j \in 1 .. Len(bs) : j # i => bb[j] = bs[j]
    BY <2>1, <2>2
  <2>6. bb[i] = [a EXCEPT !.st = st]
    BY <1>5, <1>6, <2>1, <2>2
  <2> QED
    BY <1>5, <2>2, <2>3, <2>4, <2>5, <2>6 DEF Swapped
<1>10. /\ BranchShape(bb) /\ Launches(c, bb) /\ Len(bb) = Len(bs)
       /\ bb[i] = b /\ \A j \in 1 .. Len(bs) : j # i => bb[j] = bs[j]
  <2>1. b \in BranchRecords
    BY <1>3, <1>7, <1>8 DEF BranchRecords, States
  <2>2. b.node = bs[i].node /\ (b.st = "ok" => b.node \in DOMAIN StepNodes)
    BY <1>1, <1>6, <1>8 DEF FinishBranch
  <2>3. OneOn(c, bs, bb, i, b)
    BY <1>3, <1>5, <1>9, <2>1, <2>2, BranchGoes
  <2> QED
    BY <2>3 DEF OneOn
<1>11. i \notin Told(bs) /\ Told(bb) = Told(bs) \cup {i} /\ \A j \in Told(bs) : bb[j] = bs[j]
  BY <1>5, <1>6, <1>7, <1>8, <1>10 DEF Told
<1>12. /\ AnswerShape(rr)
       /\ c.mode = "results" /\ c.pc # "returned" => DOMAIN rr.results = DOMAIN rep.results \cup {a.node}
       /\ ~(c.mode = "results" /\ c.pc # "returned") => rr = rep
  <2>1. rr = IF c.mode = "results" /\ c.pc # "returned"
             THEN [rep EXCEPT !.results = Set(rep.results, a.node, st)] ELSE rep
    BY <1>1, <1>2, <1>6 DEF FinishBranch
  <2>2. PICK res : res = Set(rep.results, a.node, st)
    OBVIOUS
  <2>3. DOMAIN res = DOMAIN rep.results \cup {a.node}
    BY <2>2 DEF Set
  <2>4. CASE c.mode = "results" /\ c.pc # "returned"
    <3>1. rep = [state |-> rep.state, results |-> rep.results, err |-> rep.err]
      BY <1>3 DEF AnswerShape
    <3>2. rr = [rep EXCEPT !.results = res]
      BY <2>1, <2>2, <2>4
    <3>3. rr = [state |-> rep.state, results |-> res, err |-> rep.err]
      BY <3>1, <3>2
    <3> QED
      BY <2>3, <2>4, <3>3 DEF AnswerShape
  <2>5. CASE ~(c.mode = "results" /\ c.pc # "returned")
    BY <1>3, <2>1, <2>5
  <2> QED
    BY <2>4, <2>5
<1>13. c.pc # "returned" /\ UnderWay(c, s, bs, rep) => UnderWay(c, s, bb, rr)
  <2>1. {bb[j].node : j \in Told(bb)} = {bs[j].node : j \in Told(bs)} \cup {a.node}
    BY <1>8, <1>10, <1>11
  <2>2. ASSUME UnderWay(c, s, bs, rep), NEW j \in 1 .. Len(bs), bb[j].st # "launched" PROVE bb[j].saw = s
    <3>1. CASE j = i
      BY <1>5, <1>6, <1>7, <1>8, <1>10, <2>2, <3>1 DEF UnderWay
    <3>2. CASE j # i
      BY <1>10, <2>2, <3>2 DEF UnderWay
    <3> QED
      BY <3>1, <3>2
  <2> QED
    BY <1>10, <1>12, <2>1, <2>2 DEF UnderWay
<1>14. ~Over(c, bs, rep)
  BY <1>5, <1>11 DEF Over
<1>15. Sound(c, s, bb, rr)
  <2>1. /\ c.pc \in {"launch", "wait"} => UnderWay(c, s, bs, rep)
        /\ c.pc = "returned" /\ Len(bs) >= Len(c.ids) => Over(c, bs, rep)
    BY <1>1 DEF StepInv, Sound
  <2>2. AnswerShape(rr)
    BY <1>3, <1>12
  <2> QED
    BY <1>3, <1>10, <1>13, <1>14, <2>1, <2>2 DEF Sound
<1> QED
  BY <1>2, <1>4, <1>15 DEF StepInv

(* All have told how they ended, and the answer says it. *)
LEMMA JoinKept == ASSUME ChannelsFit, StepInv, Join PROVE StepInv'
<1>1. PICK s, c, bs, rep : s = passed /\ c = superstep /\ bs = branches /\ rep = reported
  OBVIOUS
<1>2. PICK cc, rr : cc = superstep' /\ rr = reported'
  OBVIOUS
<1>3. CallShape(c) /\ s \in StepInputs /\ BranchShape(bs) /\ AnswerShape(rep) /\ Launches(c, bs) /\ c.pc = "wait"
  BY <1>1 DEF StepInv, Sound, Join
<1>4. UnderWay(c, s, bs, rep) /\ passed' = s /\ branches' = bs
  BY <1>1, <1>3 DEF StepInv, Sound, Join
<1>5. PICK len, ids : len = Len(bs) /\ ids = c.ids
  OBVIOUS
<1>6. len \in Nat \ {0} /\ len = Len(ids) /\ ids \in Seq(StepIds) /\ DOMAIN bs = 1 .. len
  BY <1>3, <1>5 DEF CallShape, BranchShape, Launches
<1>7. \A i \in 1 .. len : bs[i].st \in {"ok", "failed"}
  BY <1>1, <1>6 DEF Join, AllReported
<1>8. PICK m : m = IF c.mode = "updates" THEN MergedState(s) ELSE rep.state
  OBVIOUS
<1>9. PICK e \in BOOLEAN : e = OneFailed(bs)
  BY DEF OneFailed
<1>10. /\ cc = [c EXCEPT !.pc = "returned"]
       /\ rr = [[rep EXCEPT !.state = m] EXCEPT !.err = e]
  <2>1. e = \E i \in DOMAIN branches : branches[i].st = "failed"
    BY <1>1, <1>5, <1>6, <1>9, Zenon DEF OneFailed
  <2>2. m = IF superstep.mode = "updates" THEN MergedState(passed) ELSE reported.state
    BY <1>1, <1>8
  <2> QED
    BY <1>1, <1>2, <2>1, <2>2, Zenon DEF Join, ReturnFromStep
<1>11. cc = [pc |-> "returned", mode |-> c.mode, ids |-> ids, input |-> c.input, next |-> c.next]
  BY <1>3, <1>5, <1>10 DEF CallShape
<1>12. rr = [state |-> m, results |-> rep.results, err |-> e]
  <2>1. PICK once : once = [state |-> m, results |-> rep.results, err |-> rep.err]
    OBVIOUS
  <2>2. once = [rep EXCEPT !.state = m]
    BY <1>3, <2>1 DEF AnswerShape
  <2>3. [once EXCEPT !.err = e] = [state |-> m, results |-> rep.results, err |-> e]
    BY <2>1
  <2> QED
    BY <1>10, <2>2, <2>3
<1>13. CallShape(cc) /\ AnswerShape(rr)
  BY <1>3, <1>5, <1>11, <1>12 DEF CallShape, AnswerShape
<1>14. Launches(cc, bs)
  BY <1>3, <1>5, <1>11 DEF Launches
<1>15. Over(cc, bs, rr)
  <2>1. \A i \in 1 .. len : i \in Told(bs) /\ bs[i].saw = cc.input
    BY <1>4, <1>5, <1>7, <1>11 DEF Told, UnderWay
  <2>2. c.mode = "results" => DOMAIN rr.results = {ids[i] : i \in 1 .. len}
    <3>1. Told(bs) = 1 .. len
      BY <1>5, <1>7 DEF Told
    <3>2. \A i \in 1 .. len : bs[i].node = ids[i]
      BY <1>3, <1>5 DEF Launches
    <3>3. {bs[i].node : i \in Told(bs)} = {ids[i] : i \in 1 .. len}
      BY <3>1, <3>2
    <3> QED
      BY <1>4, <1>12, <3>3 DEF UnderWay
  <2>3. rr.err = OneFailed(bs)
    BY <1>9, <1>12, Zenon
  <2>4. c.mode = "updates" => \A k : Merges(rr.state, cc.input, bs, k, len)
    <3> SUFFICES ASSUME c.mode = "updates", NEW k PROVE Merges(m, s, bs, k, len)
      BY <1>4, <1>11, <1>12 DEF UnderWay
    <3>1. StateFits(s) /\ m = MergedState(s) /\ len = Len(branches)
      BY <1>1, <1>3, <1>5, <1>8 DEF ChannelsFit
    <3>2. \A i \in 1 .. len : branches[i].st = "ok" => branches[i].node \in DOMAIN StepNodes
      BY <1>1, <1>3, <1>5 DEF Launches
    <3>3. Merges(MergedState(s), s, branches, k, len)
      BY <1>6, <3>1, <3>2, MergeHolds
    <3> QED
      BY <1>1, <3>1, <3>3
  <2>5. cc.mode = c.mode /\ cc.ids = ids
    BY <1>11
  <2>6. Len(cc.ids) > 0 => (rr.err <=> OneFailed(bs))
    BY <2>3, Zenon
  <2> HIDE DEF OneFailed
  <2> QED
    BY <1>5, <1>6, <2>1, <2>2, <2>4, <2>5, <2>6 DEF Over
<1>16. cc.pc = "returned"
  BY <1>11
<1> QED
  BY <1>2, <1>3, <1>4, <1>13, <1>14, <1>15, <1>16 DEF StepInv, Sound

(* The caller writes, or calls again. *)
LEMMA CallerKept == ASSUME StepInv, CallerWrites \/ CallAgain PROVE StepInv'
<1>1. PICK s, c, bs, rep : s = passed' /\ c = superstep' /\ bs = branches' /\ rep = reported'
  OBVIOUS
<1>2. CASE CallerWrites
  <2>1. s \in StepInputs /\ c = superstep /\ bs = branches /\ rep = reported /\ c.pc = "returned"
    BY <1>1, <1>2 DEF CallerWrites
  <2> QED
    BY <1>1, <2>1 DEF StepInv, Sound
<1>3. CASE CallAgain
  <2>1. /\ c = [pc |-> "idle", mode |-> "updates", ids |-> <<>>, input |-> Empty, next |-> 1]
        /\ bs = <<>> /\ rep = [state |-> Empty, results |-> Empty, err |-> FALSE]
    BY <1>1, <1>3, IdleShape DEF CallAgain
  <2>2. CallShape(c)
    BY <2>1 DEF CallShape, States
  <2>3. BranchShape(bs) /\ AnswerShape(rep)
    BY <2>1 DEF BranchShape, AnswerShape
  <2>4. Len(bs) = 0 /\ Len(c.ids) = 0 /\ c.pc = "idle"
    BY <2>1
  <2>5. Launches(c, bs)
    BY <2>4 DEF Launches
  <2>6. s \in StepInputs
    BY <1>1, <1>3 DEF CallAgain, StepInv, Sound
  <2> QED
    BY <1>1, <2>2, <2>3, <2>4, <2>5, <2>6 DEF StepInv, Sound
<1> QED
  BY <1>2, <1>3

(* What the answer says of one key. *)
LEMMA KeyFollows ==
    ASSUME ChannelsFit, NEW input, NEW t, NEW bs, NEW k, NEW n \in Nat, Merges(t, input, bs, k, n),
           NEW r, r = Kind(k), NEW old, old = Held(k, input), NEW words, words = SaidOf(bs, k, n)
    PROVE  IF DOMAIN words = {}
           THEN IF k \in DOMAIN input THEN k \in DOMAIN t /\ t[k] = old ELSE k \notin DOMAIN t
           ELSE /\ k \in DOMAIN t
                /\ r = "append" => Appended(t[k], ToSlice(old), words, n)
                /\ r = "sum" => Summed(t[k], old, words)
                /\ r = "messages" => Addressed(t[k], ToSlice(old), words)
                /\ r = "map" => Combined(t[k], ToMap(old), words)
                /\ r \notin {"append", "sum", "messages", "map"} => Replaced(t[k], words)
<1>1. PICK v : v = Held(k, t)
  OBVIOUS
<1>2. (k \in DOMAIN t <=> k \in DOMAIN input \/ DOMAIN words # {}) /\ Kept(r, v, old, words, n)
  BY <1>1 DEF Merges
<1>3. k \in DOMAIN t => v = t[k]
  BY <1>1 DEF Held
<1>4. CASE DOMAIN words = {}
  BY <1>2, <1>3, <1>4 DEF Kept
<1>5. CASE DOMAIN words # {}
  <2>1. k \in DOMAIN t /\ v = t[k] /\ Fits(r, v) /\ (r \in Combining => v # Nil)
    BY <1>2, <1>3, <1>5 DEF Kept
  <2>2. r = "append" => Appended(v, ToSlice(old), words, n)
    <3>1. r = "append" => ToSlice(v) = v
      BY <2>1, SliceIs DEF Fits, Combining, ChannelsFit
    <3> QED
      BY <1>2, <3>1 DEF Kept
  <2>3. r = "messages" => Addressed(v, ToSlice(old), words)
    <3>1. r = "messages" => ToSlice(v) = v
      BY <2>1, SliceIs DEF Fits, Combining, ChannelsFit
    <3> QED
      BY <1>2, <3>1 DEF Kept
  <2>4. r = "map" => Combined(v, ToMap(old), words)
    <3>1. r = "map" => ToMap(v) = v
      BY <2>1 DEF Combining, ToMap
    <3> QED
      BY <1>2, <3>1 DEF Kept
  <2>5. r = "sum" => Summed(v, old, words)
    BY <1>2, <1>5 DEF Kept
  <2>6. r \notin {"append", "sum", "messages", "map"} => Replaced(v, words)
    BY <1>2, <1>5 DEF Kept, Combining
  <2> QED
    BY <1>5, <2>1, <2>2, <2>3, <2>4, <2>5, <2>6
<1> QED
  BY <1>4, <1>5

LEMMA SoundMeans == ASSUME ChannelsFit, StepInv PROVE MergeIsOrdered
<1>1. PICK s, c, bs, rep : s = passed /\ c = superstep /\ bs = branches /\ rep = reported
  OBVIOUS
<1>2. CallShape(c) /\ BranchShape(bs) /\ (c.pc = "returned" /\ Len(bs) >= Len(c.ids) => Over(c, bs, rep))
  BY <1>1 DEF StepInv, Sound
<1>3. PICK len : len = Len(bs)
  OBVIOUS
<1>4. DOMAIN bs = 1 .. len /\ len \in Nat /\ c.ids \in Seq(StepIds)
  BY <1>2, <1>3 DEF CallShape, BranchShape
<1>5. StepEnded => Over(c, bs, rep)
  <2>1. Len(c.ids) \in Nat
    BY <1>4
  <2> QED
    BY <1>1, <1>2, <1>3, <1>4, <2>1 DEF StepEnded, StepRefused
<1>6. GoodBranches = {i \in 1 .. len : bs[i].st = "ok"}
  BY <1>1, <1>4 DEF GoodBranches
<1>7. \A k : WordsOn(k) = SaidOf(bs, k, len)
  BY <1>1, <1>4 DEF WordsOn, GoodBranches, SaidOf
<1>8. MergeFollowsOrder
  <2> SUFFICES ASSUME StepEnded, c.mode = "updates", NEW k
               PROVE  LET channel == IF k \in DOMAIN Channels THEN Channels[k] ELSE Channel(NoReducer, Nil)
                          old == IF k \in DOMAIN superstep.input THEN superstep.input[k] ELSE channel.default
                      IN  IF DOMAIN WordsOn(k) = {}
                          THEN IF k \in DOMAIN superstep.input
                               THEN k \in DOMAIN reported.state /\ reported.state[k] = old
                               ELSE k \notin DOMAIN reported.state
                          ELSE /\ k \in DOMAIN reported.state
                               /\ LET v == reported.state[k] IN
                                  CASE channel.reducer = "append" ->
                                          Appended(v, ToSlice(old), WordsOn(k), Len(branches))
                                    [] channel.reducer = "sum" -> Summed(v, old, WordsOn(k))
                                    [] channel.reducer = "messages" ->
                                          Addressed(v, ToSlice(old), WordsOn(k))
                                    [] channel.reducer = "map" ->
                                          Combined(v, ToMap(old), WordsOn(k))
                                    [] OTHER -> Replaced(v, WordsOn(k))
    BY <1>1, Zenon DEF MergeFollowsOrder
  <2> DEFINE channel == IF k \in DOMAIN Channels THEN Channels[k] ELSE Channel(NoReducer, Nil)
  <2>1. PICK r, old, words, input, t :
            /\ r = Kind(k) /\ old = Held(k, c.input) /\ words = SaidOf(bs, k, len) /\ input = c.input /\ t = rep.state
    OBVIOUS
  <2>2. channel.reducer = r /\ old = IF k \in DOMAIN superstep.input THEN superstep.input[k] ELSE channel.default
    BY <1>1, <2>1 DEF Kind, Held, Channel
  <2>3. Merges(t, input, bs, k, len)
    BY <1>3, <1>5, <2>1 DEF Over
  <2>4. IF DOMAIN words = {}
        THEN IF k \in DOMAIN input THEN k \in DOMAIN t /\ t[k] = old ELSE k \notin DOMAIN t
        ELSE /\ k \in DOMAIN t
             /\ r = "append" => Appended(t[k], ToSlice(old), words, len)
             /\ r = "sum" => Summed(t[k], old, words)
             /\ r = "messages" => Addressed(t[k], ToSlice(old), words)
             /\ r = "map" => Combined(t[k], ToMap(old), words)
             /\ r \notin {"append", "sum", "messages", "map"} => Replaced(t[k], words)
    BY <1>4, <2>1, <2>3, KeyFollows
  <2>5. WordsOn(k) = words /\ superstep.input = input /\ reported.state = t /\ Len(branches) = len
    BY <1>1, <1>3, <1>7, <2>1
  <2> HIDE DEF channel
  <2>6. CASE DOMAIN words = {}
    BY <2>2, <2>4, <2>5, <2>6 DEF channel
  <2>7. CASE DOMAIN words # {}
    BY <2>2, <2>4, <2>5, <2>7 DEF channel
  <2> QED
    BY <2>6, <2>7
<1>9. StepEnded => /\ \A i \in DOMAIN branches : branches[i].saw = superstep.input
                   /\ superstep.mode = "results" => DOMAIN reported.results = ToSet(superstep.ids)
                   /\ superstep.ids # <<>> => (reported.err <=> GoodBranches # DOMAIN branches)
  <2> SUFFICES ASSUME StepEnded
               PROVE  /\ \A i \in DOMAIN bs : bs[i].saw = c.input
                      /\ c.mode = "results" => DOMAIN rep.results = ToSet(c.ids)
                      /\ c.ids # <<>> => (rep.err <=> GoodBranches # DOMAIN bs)
    BY <1>1, Zenon
  <2>1. Over(c, bs, rep)
    BY <1>5
  <2>2. \A i \in DOMAIN bs : bs[i].saw = c.input
    BY <1>3, <1>4, <2>1 DEF Over
  <2>3. ToSet(c.ids) = {c.ids[i] : i \in 1 .. Len(c.ids)}
    BY <1>4 DEF ToSet
  <2>4. GoodBranches # DOMAIN bs <=> OneFailed(bs)
    <3>1. \A i \in 1 .. len : bs[i].st \in {"ok", "failed"}
      BY <1>3, <2>1 DEF Over, Told
    <3> QED
      BY <1>3, <1>4, <1>6, <3>1 DEF OneFailed
  <2>5. c.ids # <<>> => Len(c.ids) > 0
    BY <1>4, EmptySeq
  <2> HIDE DEF OneFailed
  <2> QED
    BY <2>1, <2>2, <2>3, <2>4, <2>5, Zenon DEF Over
<1> QED
  BY <1>8, <1>9, Zenon DEF MergeIsOrdered

(* Whatever the channels, the updates, the inputs and the lists of nodes, as  *)
(* long as channels are given the values their reducers are for: a call that  *)
(* returns has merged the branches that succeeded in the order of the list    *)
(* and no others, every branch had worked on the state the call began with,   *)
(* and every node asked for is in the report. This is what the comment of     *)
(* ExecuteParallelUpdates promises of any order of completion.                *)
THEOREM MergesInOrder ==
    ASSUME ChannelsFit
    PROVE  StepInit /\ [][StepNext]_stepVars => []MergeIsOrdered
<1>1. StepInit => StepInv
  BY StepBegins
<1>2. StepInv /\ [StepNext]_stepVars => StepInv'
  <2> SUFFICES ASSUME StepInv, [StepNext]_stepVars PROVE StepInv'
    OBVIOUS
  <2>1. CASE \E mode \in StepModes, ids \in IdLists : BeginStep(mode, ids)
    <3>1. PICK mode \in StepModes, ids \in IdLists : BeginStep(mode, ids)
      BY <2>1
    <3>2. mode \in {"updates", "results"} /\ ids \in Seq(StepIds)
      BY DEF ChannelsFit, StepModes
    <3> QED
      BY <3>1, <3>2, BeginKept
  <2>2. CASE LaunchBranch
    BY <2>2, LaunchKept
  <2>3. CASE Join
    BY <2>3, JoinKept
  <2>4. CASE CallerWrites \/ CallAgain
    BY <2>4, CallerKept
  <2>5. CASE \E i \in DOMAIN branches : CopyState(i) \/ FinishBranch(i, "ok") \/ FinishBranch(i, "failed")
    BY <2>5, CopyKept, FinishKept
  <2>6. CASE UNCHANGED stepVars
    BY <2>6 DEF stepVars, StepInv
  <2> QED
    BY <2>1, <2>2, <2>3, <2>4, <2>5, <2>6 DEF StepNext
<1>3. StepInv => MergeIsOrdered
  BY SoundMeans DEF MergeIsOrdered
<1> QED
  BY <1>1, <1>2, <1>3, PTL
====
