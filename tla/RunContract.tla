----------------------------- MODULE RunContract -----------------------------
(***************************************************************************)
(* What Graph.Execute and Graph.Resume promise of one graph used by many   *)
(* callers at once, without locks, channels or goroutines: every call is   *)
(* on its own; it follows the arcs of the graph one completed node at a    *)
(* time, never past the recursion limit, takes up a paused run exactly     *)
(* where that run stopped, and ends with an honest reason. Module          *)
(* GraphEngine implements it.                                              *)
(***************************************************************************)
EXTENDS Naturals, Sequences, TLAPS

CONSTANTS Runs,         \* calls of Execute or Resume
          Nodes,        \* the nodes of the graph
          Entry,        \* its start node
          Arcs,         \* <<n, m>> : m may be routed to after n
          Exits,        \* nodes after which a run may complete
          Limit         \* MaxIterations; 0 is no limit

VARIABLES phase,        \* "idle", "running" or "over"
          path,         \* the nodes completed by the run and by those it resumes
          end           \* how the run ended

vars == <<phase, path, end>>

Paused == {"pausedBefore", "pausedAfter"}
Ends   == {"ok", "limit", "noRoute", "condition", "failed", "interrupted", "context",
           "refused"} \cup Paused

Follows(p, n) == IF p = <<>> THEN n = Entry ELSE <<p[Len(p)], n>> \in Arcs

Init ==
    /\ phase = [r \in Runs |-> "idle"]
    /\ path = [r \in Runs |-> <<>>]
    /\ end = [r \in Runs |-> "none"]

(* A call starts from nothing or from where a paused run stopped. *)
From(p) == p = <<>> \/ \E q \in Runs : end[q] \in Paused /\ p = path[q]

Begin(r) ==
    /\ phase[r] = "idle"
    /\ phase' = [phase EXCEPT ![r] = "running"]
    /\ \E p \in {<<>>} \cup {path[q] : q \in Runs} :
          From(p) /\ path' = [path EXCEPT ![r] = p]
    /\ UNCHANGED end

Advance(r) ==
    /\ phase[r] = "running"
    /\ Limit > 0 => Len(path[r]) < Limit
    /\ \E n \in Nodes :
          Follows(path[r], n) /\ path' = [path EXCEPT ![r] = Append(@, n)]
    /\ UNCHANGED <<phase, end>>

(* A reason to end is given only where it is true. *)
Honest(p, why) ==
    /\ why = "ok" => p # <<>> /\ p[Len(p)] \in Exits
    /\ why = "limit" => Limit > 0 /\ Len(p) >= Limit
    /\ why \in {"noRoute", "condition", "pausedAfter"} => p # <<>>

Finish(r, why) ==
    /\ phase[r] = "running"
    /\ Honest(path[r], why)
    /\ phase' = [phase EXCEPT ![r] = "over"]
    /\ end' = [end EXCEPT ![r] = why]
    /\ UNCHANGED path

(* A call may also be answered at once: the graph is invalid or closed, or *)
(* a resumed run has nothing left to do.                                   *)
Answer(r, why) ==
    /\ phase[r] = "idle"
    /\ phase' = [phase EXCEPT ![r] = "over"]
    /\ \E p \in {<<>>} \cup {path[q] : q \in Runs} :
          From(p) /\ Honest(p, why) /\ path' = [path EXCEPT ![r] = p]
    /\ end' = [end EXCEPT ![r] = why]

Next == \E r \in Runs :
    \/ Begin(r)
    \/ Advance(r)
    \/ \E why \in Ends : Finish(r, why) \/ Answer(r, why)

Spec == Init /\ [][Next]_vars

-----------------------------------------------------------------------------
(* A path is a walk: it starts at the entry and every node is one the      *)
(* previous node routes to.                                                *)
IsWalk(p) ==
    /\ p # <<>> => p[1] = Entry
    /\ \A i \in 1 .. Len(p) - 1 : <<p[i], p[i + 1]>> \in Arcs

PathsAreWalks == \A r \in Runs : IsWalk(path[r])
WithinLimit   == Limit > 0 => \A r \in Runs : Len(path[r]) <= Limit

------------------------------------------------------------------------------
(* What every implementation of the run contract inherits.                   *)
PathInv ==
    /\ path \in [Runs -> Seq(Nodes)]
    /\ phase \in [Runs -> {"idle", "running", "over"}]
    /\ PathsAreWalks
    /\ WithinLimit

LEMMA ContractInit == Limit \in Nat /\ Init => PathInv
<1> SUFFICES ASSUME Limit \in Nat, Init PROVE PathInv
  OBVIOUS
<1>1. <<>> \in Seq(Nodes) /\ Len(<<>>) = 0 /\ IsWalk(<<>>)
  BY DEF IsWalk
<1> QED
  BY <1>1 DEF Init, PathInv, PathsAreWalks, WithinLimit

(* A run that begins or is answered takes over the path of another run,    *)
(* which is a walk within the limit already.                               *)
LEMMA TakenOver ==
    ASSUME PathInv, NEW r \in Runs, NEW p \in {<<>>} \cup {path[q] : q \in Runs},
           path' = [path EXCEPT ![r] = p], phase' \in [Runs -> {"idle", "running", "over"}],
           Limit \in Nat
    PROVE  PathInv'
<1>1. p \in Seq(Nodes) /\ IsWalk(p) /\ (Limit > 0 => Len(p) <= Limit)
  <2>1. CASE p = <<>>
    BY <2>1 DEF IsWalk
  <2>2. ASSUME NEW q \in Runs, p = path[q]
        PROVE  p \in Seq(Nodes) /\ IsWalk(p) /\ (Limit > 0 => Len(p) <= Limit)
    BY <2>2 DEF PathInv, PathsAreWalks, WithinLimit
  <2> QED
    BY <2>1, <2>2
<1> QED
  BY <1>1 DEF PathInv, PathsAreWalks, WithinLimit, IsWalk

(* Appending a node that follows the path extends the walk by one arc.     *)
LEMMA WalkGrows ==
    ASSUME NEW p \in Seq(Nodes), IsWalk(p), NEW n \in Nodes, Follows(p, n)
    PROVE  IsWalk(Append(p, n))
<1> DEFINE w == Append(p, n)
<1>1. /\ Len(w) = Len(p) + 1 /\ w[Len(p) + 1] = n
      /\ \A i \in 1 .. Len(p) : w[i] = p[i]
  OBVIOUS
<1>2. w # <<>>
  BY <1>1
<1>3. w[1] = Entry
  <2>1. CASE p = <<>>
    BY <1>1, <2>1 DEF Follows
  <2>2. CASE p # <<>>
    BY <1>1, <2>2 DEF IsWalk
  <2> QED
    BY <2>1, <2>2
<1>4. ASSUME NEW i \in 1 .. Len(w) - 1 PROVE <<w[i], w[i + 1]>> \in Arcs
  <2>1. CASE i = Len(p)
    BY <1>1, <1>4, <2>1 DEF Follows
  <2>2. CASE i # Len(p)
    <3>1. i \in 1 .. Len(p) - 1 /\ i \in 1 .. Len(p) /\ i + 1 \in 1 .. Len(p)
      BY <1>1, <1>4, <2>2
    <3> QED
      BY <1>1, <3>1 DEF IsWalk
  <2> QED
    BY <2>1, <2>2
<1> QED
  BY <1>3, <1>4 DEF IsWalk

LEMMA ContractStep == Limit \in Nat /\ PathInv /\ [Next]_vars => PathInv'
<1> SUFFICES ASSUME Limit \in Nat, PathInv, [Next]_vars PROVE PathInv'
  OBVIOUS
<1>1. CASE UNCHANGED vars
  BY <1>1 DEF vars, PathInv, PathsAreWalks, WithinLimit, IsWalk
<1>2. ASSUME NEW r \in Runs, Begin(r) PROVE PathInv'
  BY <1>2, TakenOver DEF Begin, PathInv
<1>3. ASSUME NEW r \in Runs, NEW why \in Ends, Answer(r, why) PROVE PathInv'
  BY <1>3, TakenOver DEF Answer, PathInv
<1>4. ASSUME NEW r \in Runs, NEW why \in Ends, Finish(r, why) PROVE PathInv'
  BY <1>4 DEF Finish, PathInv, PathsAreWalks, WithinLimit, IsWalk
<1>5. ASSUME NEW r \in Runs, Advance(r) PROVE PathInv'
  <2>1. PICK n \in Nodes : Follows(path[r], n) /\ path' = [path EXCEPT ![r] = Append(@, n)]
    BY <1>5 DEF Advance
  <2>2. path[r] \in Seq(Nodes) /\ path \in [Runs -> Seq(Nodes)]
    BY DEF PathInv
  <2>3. IsWalk(Append(path[r], n))
    BY <2>1, <2>2, WalkGrows DEF PathInv, PathsAreWalks
  <2>4. Append(path[r], n) \in Seq(Nodes) /\ Len(Append(path[r], n)) = Len(path[r]) + 1
    BY <2>2
  <2>5. PathsAreWalks'
    BY <2>1, <2>2, <2>3 DEF PathInv, PathsAreWalks, IsWalk
  <2>6. WithinLimit'
    <3>1. Limit > 0 => Len(path[r]) + 1 <= Limit
      BY <1>5, <2>2 DEF Advance
    <3> QED
      BY <2>1, <2>2, <2>4, <3>1 DEF PathInv, WithinLimit
  <2>7. path' \in [Runs -> Seq(Nodes)] /\ phase' = phase
    BY <1>5, <2>1, <2>2, <2>4 DEF Advance
  <2> QED
    BY <2>5, <2>6, <2>7 DEF PathInv
<1> QED
  BY <1>1, <1>2, <1>3, <1>4, <1>5 DEF Next

(* Whatever implements the contract, with any graph and limit: what a run   *)
(* and the runs it resumes execute is one walk of the graph from the entry. *)
THEOREM ContractWalks == ASSUME Limit \in Nat PROVE Spec => []PathsAreWalks
<1>1. PathInv => PathsAreWalks
  BY DEF PathInv
<1>2. PathInv /\ [Next]_vars => PathInv'
  BY ContractStep
<1> QED
  BY <1>1, <1>2, ContractInit, PTL DEF Spec

(* And it stays within the recursion limit, resumptions included.           *)
THEOREM ContractLimit == ASSUME Limit \in Nat PROVE Spec => []WithinLimit
<1>1. PathInv => WithinLimit
  BY DEF PathInv
<1>2. PathInv /\ [Next]_vars => PathInv'
  BY ContractStep
<1> QED
  BY <1>1, <1>2, ContractInit, PTL DEF Spec
==============================================================================
