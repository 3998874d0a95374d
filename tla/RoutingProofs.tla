---------------------------- MODULE RoutingProofs ----------------------------
(* Facts about the routing operators, for every graph. *)
EXTENDS Routing, TLAPS, FiniteSetTheorems

(* The fields of a graph that routing reads, over a set of names. *)
GraphShape(g, names) ==
    /\ g.edges \in Seq([from : names, to : names, cond : BOOLEAN])
    /\ \A n \in DOMAIN g.tables : \A k \in DOMAIN g.tables[n] : g.tables[n][k] \in names

(* An edge is chosen by insertion order: the first of a set of edges is in *)
(* the set and no other edge of the set comes before it.                   *)
LEMMA FirstOfIsFirst ==
    ASSUME NEW S \in SUBSET Nat, S # {}
    PROVE  FirstOf(S) \in S /\ \A j \in S : FirstOf(S) <= j
<1> DEFINE below == {0 .. i : i \in S}
<1>1. below \subseteq FiniteSubsetsOf(Nat)
  <2>1. ASSUME NEW i \in S PROVE 0 .. i \in SUBSET Nat /\ IsFiniteSet(0 .. i)
    BY FS_Interval
  <2> QED
    BY <2>1 DEF FiniteSubsetsOf
<1>2. IsWellFoundedOn(StrictSubsetOrdering(Nat), FiniteSubsetsOf(Nat))
  BY FS_StrictSubsetOrderingWellFounded
<1>3. below # {}
  OBVIOUS
<1>4. PICK x \in below : \A y \in below : ~(<<y, x>> \in StrictSubsetOrdering(Nat))
  <2> HIDE DEF below
  <2> QED
    BY <1>1, <1>2, <1>3, WFMin
<1>5. PICK i \in S : x = 0 .. i
  OBVIOUS
<1>6. ASSUME NEW j \in S, j < i PROVE FALSE
  <2>1. 0 .. j \subseteq 0 .. i /\ 0 .. j # 0 .. i
    BY <1>6, i \in Nat, j \in Nat, i \in 0 .. i
  <2>2. <<0 .. j, 0 .. i>> \in StrictSubsetOrdering(Nat)
    BY <2>1 DEF StrictSubsetOrdering
  <2> QED
    BY <1>4, <1>5, <2>2
<1>7. \A j \in S : i <= j
  BY <1>6
<1> QED
  BY <1>7 DEF FirstOf

(* routeFrom on edges either fails, ends the run at a node without edges,  *)
(* or takes one of the outgoing edges.                                     *)
LEMMA EdgeRouteTakesEdge ==
    ASSUME NEW g, DOMAIN g.edges \in SUBSET Nat, NEW n, NEW ask
    PROVE  \/ RouteByEdges(g, n, ask) \in {Route(NoName), RouteErr("condition"), RouteErr("noRoute")}
           \/ \E i \in Outgoing(g, n) : RouteByEdges(g, n, ask) = Route(g.edges[i].to)
<1> DEFINE out     == Outgoing(g, n)
           plain   == {i \in out : ~g.edges[i].cond}
           decided == {i \in out \ plain : ask[i] \in {Failure, g.edges[i].to}}
<1>1. out \in SUBSET Nat
  BY DEF Outgoing
<1>2. decided # {} => FirstOf(decided) \in out
  <2>1. decided \in SUBSET Nat /\ decided \subseteq out
    BY <1>1
  <2> QED
    BY <2>1, FirstOfIsFirst
<1>3. plain # {} => FirstOf(plain) \in out
  <2>1. plain \in SUBSET Nat /\ plain \subseteq out
    BY <1>1
  <2> QED
    BY <2>1, FirstOfIsFirst
<1> QED
  BY <1>2, <1>3 DEF RouteByEdges

(* The node a graph that Validate accepts routes to exists, whatever the   *)
(* conditions answer, unless a condition without a route table names it:   *)
(* Validate's checks are enough to rule out "node does not exist" during a *)
(* run, for every graph.                                                   *)
THEOREM ValidRoutesStayInside ==
    ASSUME NEW names, NEW g, GraphShape(g, names), Valid(g),
           NEW n \in g.nodes,
           n \in DOMAIN g.tables => DOMAIN g.tables[n] # {},
           NEW ask,
           RouteFrom(g, n, ask).err = "none"
    PROVE  Terminal(RouteFrom(g, n, ask).to) \/ RouteFrom(g, n, ask).to \in g.nodes
<1>1. CASE n \in DOMAIN g.tables
  BY <1>1 DEF RouteFrom, RouteByTable, Route, RouteErr, Valid, Terminal
<1>2. CASE n \notin DOMAIN g.tables
  <2>1. RouteFrom(g, n, ask) = RouteByEdges(g, n, ask)
    BY <1>2 DEF RouteFrom
  <2>2. CASE \E i \in Outgoing(g, n) : RouteByEdges(g, n, ask) = Route(g.edges[i].to)
    BY <2>1, <2>2 DEF Route, Outgoing, Valid
  <2>3. CASE RouteByEdges(g, n, ask) \in
               {Route(NoName), RouteErr("condition"), RouteErr("noRoute")}
    BY <2>1, <2>3 DEF Route, RouteErr, Terminal
  <2>4. DOMAIN g.edges \in SUBSET Nat
    BY DEF GraphShape
  <2> QED
    BY <2>2, <2>3, <2>4, EdgeRouteTakesEdge
<1> QED
  BY <1>1, <1>2
==============================================================================
