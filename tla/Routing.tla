------------------------------- MODULE Routing -------------------------------
(***************************************************************************)
(* Static structure of a Graph of pkg/core and the pure decisions the      *)
(* engine takes on it: Validate, routeFrom and GetTopology.                *)
(*                                                                         *)
(* A graph is a record                                                     *)
(*   nodes    the registered node IDs                                      *)
(*   start    StartNode, NoName when it was never set                      *)
(*   ends     EndNodes                                                     *)
(*   edges    the edges in insertion order (edgeOrder), each               *)
(*            [from, to, cond], cond telling whether it has a Condition    *)
(*   tables   condEdges: node -> route table (key -> target); an empty     *)
(*            table means that the condition returns the destination       *)
(*   broken   whether a builder method recorded a build error              *)
(*                                                                         *)
(* Conditions are user code. What they answer in one call of routeFrom is  *)
(* a function `ask`: ask[i] is the answer of the condition of edge i and   *)
(* ask[0] that of the routed conditional edge; Failure stands for an error *)
(* or a recovered panic.                                                   *)
(***************************************************************************)
EXTENDS Naturals, Sequences

START   == "__start__"
END     == "__end__"
NoName  == ""
Failure == "failure"        \* an answer that is not a name: the condition failed

Terminal(target) == target \in {END, NoName}

Edge(from, to, cond) == [from |-> from, to |-> to, cond |-> cond]

(* The edges leaving n, by their position in insertion order. *)
Outgoing(g, n) == {i \in DOMAIN g.edges : g.edges[i].from = n}

(* The first edge of a set, in insertion order. *)
FirstOf(S) == CHOOSE i \in S : \A j \in S : i <= j

(* routeFrom returns a pair (string, error). *)
Route(to)   == [to |-> to, err |-> "none"]
RouteErr(e) == [to |-> NoName, err |-> e]

(* Operators named Bug_... are defects the properties must catch; nothing  *)
(* of the model uses them.                                                 *)

(* The routed conditional edge: its table is a function from keys. *)
RouteByTable(table, key) ==
    IF key = Failure THEN RouteErr("condition")
    ELSE IF key \in DOMAIN table THEN Route(table[key])
    ELSE IF DOMAIN table = {} THEN Route(key)
    ELSE IF Terminal(key) THEN Route(END)
    ELSE RouteErr("noRoute")

Bug_PlainEdgeTakenFirst(g, n, ask) ==
    LET out   == Outgoing(g, n)
        first == FirstOf(out)
    IN  IF out = {} THEN Route(NoName)
        ELSE IF ~g.edges[first].cond \/ ask[first] = g.edges[first].to
             THEN Route(g.edges[first].to)
        ELSE RouteErr("noRoute")

(* Per-edge conditions: an edge is decided by the first condition that     *)
(* fails or answers the target of its edge, else by the first plain edge.  *)
RouteByEdges(g, n, ask) ==
    LET out     == Outgoing(g, n)
        plain   == {i \in out : ~g.edges[i].cond}
        decided == {i \in out \ plain : ask[i] \in {Failure, g.edges[i].to}}
    IN  IF out = {} THEN Route(NoName)
        ELSE IF decided # {}
             THEN LET i == FirstOf(decided)
                  IN  IF ask[i] = Failure THEN RouteErr("condition")
                      ELSE Route(g.edges[i].to)
        ELSE IF plain # {} THEN Route(g.edges[FirstOf(plain)].to)
        ELSE RouteErr("noRoute")

RouteFrom(g, n, ask) ==
    IF n \in DOMAIN g.tables THEN RouteByTable(g.tables[n], ask[0])
                             ELSE RouteByEdges(g, n, ask)

Bug_ValidateSkipsTables(g) ==
    /\ ~g.broken
    /\ g.start \in g.nodes
    /\ \A i \in DOMAIN g.edges :
          /\ g.edges[i].from \in g.nodes
          /\ Terminal(g.edges[i].to) \/ g.edges[i].to \in g.nodes

(* Validate, the conjuncts in the order of its checks. *)
Valid(g) ==
    /\ ~g.broken
    /\ g.start # NoName
    /\ g.start \in g.nodes
    /\ g.ends \subseteq g.nodes
    /\ \A i \in DOMAIN g.edges :
          /\ g.edges[i].from \in g.nodes
          /\ Terminal(g.edges[i].to) \/ g.edges[i].to \in g.nodes
    /\ DOMAIN g.tables \subseteq g.nodes
    /\ \A n \in DOMAIN g.tables : \A k \in DOMAIN g.tables[n] :
          Terminal(g.tables[n][k]) \/ g.tables[n][k] \in g.nodes

Bug_TopologySkipsTables(g) ==
    [n \in g.nodes |-> {g.edges[i].to : i \in Outgoing(g, n)}]

(* GetTopology: the adjacency of the graph, conditional routes included. *)
Topology(g) ==
    [n \in g.nodes |->
        {g.edges[i].to : i \in Outgoing(g, n)} \cup
        (IF n \in DOMAIN g.tables
         THEN {g.tables[n][k] : k \in DOMAIN g.tables[n]} ELSE {})]

(* All answers the conditions of a graph can give, over a set of names.    *)
Answers(g, names) == [0 .. Len(g.edges) -> names \cup {Failure}]
==============================================================================
