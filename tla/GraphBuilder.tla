----------------------------- MODULE GraphBuilder -----------------------------
(***************************************************************************)
(* Building a Graph through its exported methods, in any order, and then   *)
(* following it the way a run does. A builder method that returns an error *)
(* leaves the graph as it was; AddNode and AddEdge return no error and     *)
(* leave a build error behind for Validate. The walk keeps only where a    *)
(* run stands: what the engine does at each node is module GraphEngine.    *)
(***************************************************************************)
EXTENDS Routing, FiniteSets

CONSTANTS Names,        \* node IDs the caller uses, registered or not
          Tables,       \* route tables the caller passes
          MaxEdges,     \* bound on the number of AddEdge calls
          MaxHops       \* bound on the length of a walk

ASSUME BuilderAssumption ==
    /\ MaxEdges \in Nat
    /\ MaxHops \in Nat

VARIABLES graph,        \* the Graph under construction
          phase,        \* "building", then "walking", then "stopped"
          at,           \* the node the walk stands on
          hops,         \* nodes left behind so far
          why           \* how the walk ended

vars == <<graph, phase, at, hops, why>>
walk == <<phase, at, hops, why>>

NewGraph == [nodes |-> {}, start |-> NoName, ends |-> {}, edges |-> <<>>,
             tables |-> [n \in {} |-> {}], broken |-> FALSE]

Init ==
    /\ graph = NewGraph
    /\ phase = "building" /\ at = NoName /\ hops = 0 /\ why = "none"

Building == phase = "building" /\ UNCHANGED walk

(* The node is stored even when the call is recorded as a build error.     *)
AddNode(id, hasFunction) ==
    /\ Building
    /\ graph' = [graph EXCEPT
         !.nodes = @ \cup {id},
         !.broken = @ \/ id \in {NoName, START, END} \/ ~hasFunction \/ id \in graph.nodes]

AddEdge(from, to, cond) ==
    /\ Building
    /\ Len(graph.edges) < MaxEdges
    /\ graph' = [graph EXCEPT
         !.edges = Append(@, Edge(from, to, cond)),
         !.broken = @ \/ NoName \in {from, to}]

AddConditionalEdges(from, table) ==
    /\ Building
    /\ from \in graph.nodes
    /\ \A k \in DOMAIN table : table[k] \in graph.nodes \cup {END, START}
    /\ from \notin DOMAIN graph.tables
    /\ graph' = [graph EXCEPT
         !.tables = [n \in DOMAIN @ \cup {from} |-> IF n = from THEN table ELSE @[n]]]

SetStartNode(id) ==
    /\ Building
    /\ id \in graph.nodes
    /\ graph' = [graph EXCEPT !.start = id]

AddEndNode(id) ==
    /\ Building
    /\ id \in graph.nodes
    /\ graph' = [graph EXCEPT !.ends = @ \cup {id}]

(* Execute validates first; an invalid graph never runs. *)
Launch ==
    /\ phase = "building"
    /\ Valid(graph)
    /\ phase' = "walking" /\ at' = graph.start
    /\ UNCHANGED <<graph, hops, why>>

Stop(reason) == phase' = "stopped" /\ why' = reason /\ UNCHANGED <<graph, at, hops>>

(* executeNodeStep: the node may have been routed to without existing. *)
MissingNode ==
    /\ phase = "walking"
    /\ at \notin graph.nodes
    /\ Stop("missing")

EndNode ==
    /\ phase = "walking"
    /\ at \in graph.nodes \cap graph.ends
    /\ Stop("end")

Hop(ask) ==
    /\ phase = "walking"
    /\ at \in graph.nodes \ graph.ends
    /\ hops < MaxHops
    /\ LET next == RouteFrom(graph, at, ask)
       IN  IF next.err # "none" THEN Stop(next.err)
           ELSE IF Terminal(next.to) THEN Stop("end")
           ELSE at' = next.to /\ hops' = hops + 1 /\ UNCHANGED <<graph, phase, why>>

Build ==
    \/ \E id \in Names, f \in BOOLEAN : AddNode(id, f)
    \/ \E from \in Names \ {END}, to \in Names, c \in BOOLEAN : AddEdge(from, to, c)
    \/ \E from \in Names, t \in Tables : AddConditionalEdges(from, t)
    \/ \E id \in Names : SetStartNode(id) \/ AddEndNode(id)

Next ==
    \/ Build
    \/ Launch
    \/ MissingNode
    \/ EndNode
    \/ \E ask \in Answers(graph, Names) : Hop(ask)

Spec == Init /\ [][Next]_vars

-----------------------------------------------------------------------------
TypeOK ==
    /\ graph.nodes \subseteq Names
    /\ graph.start \in Names \cup {NoName}
    /\ graph.ends \subseteq Names
    /\ \A i \in DOMAIN graph.edges : graph.edges[i] \in [from : Names, to : Names, cond : BOOLEAN]
    /\ DOMAIN graph.tables \subseteq Names
    /\ graph.broken \in BOOLEAN
    /\ phase \in {"building", "walking", "stopped"}
    /\ at \in Names \cup {NoName, START}
    /\ hops \in 0 .. MaxHops
    /\ why \in {"none", "missing", "end", "condition", "noRoute"}

(* A condition used without a route table names its destination itself.    *)
Untabled(g) == {n \in DOMAIN g.tables : DOMAIN g.tables[n] = {}}

(* Whatever the order of the builder calls, and whatever the conditions    *)
(* answer, a graph that Validate accepts leads a run to a node that does   *)
(* not exist only through a conditional edge without a route table: the    *)
(* "node does not exist" error of executeNodeStep is otherwise dead code.  *)
ValidGraphNeverLost == Untabled(graph) = {} => why # "missing"

(* What AddEdge promises ("edges are followed in insertion order"), stated *)
(* without the engine's own search: no edge before the one taken was       *)
(* accepted by its condition, a plain edge is taken only when every        *)
(* condition declined, and "no valid next node" is reported only where     *)
(* every way out depends on a condition. And what GetTopology promises:    *)
(* every transition is in the adjacency that Studio and the visualiser are *)
(* shown, save those of conditions that name their destination themselves. *)
RoutesInOrder ==
    phase = "walking" /\ at \in graph.nodes \ Untabled(graph) =>
        \A ask \in Answers(graph, Names) :
            LET next == RouteFrom(graph, at, ask)
                ways == Outgoing(graph, at)
                accepted == {i \in ways : graph.edges[i].cond /\ ask[i] = graph.edges[i].to}
                failed == {i \in ways : graph.edges[i].cond /\ ask[i] = Failure}
            IN  /\ next.err = "none" /\ ~Terminal(next.to) => next.to \in Topology(graph)[at]
                /\ at \notin DOMAIN graph.tables =>
                      /\ next.err = "noRoute" => \A i \in ways : graph.edges[i].cond
                      /\ next.err = "none" /\ next.to # NoName =>
                            \E i \in ways :
                               /\ next.to = graph.edges[i].to
                               /\ graph.edges[i].cond =>
                                    i \in accepted /\ \A j \in accepted \cup failed : i <= j
==============================================================================
