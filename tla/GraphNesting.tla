---------------------------- MODULE GraphNesting -----------------------------
(* Graphs used as nodes of graphs: AddSubgraph with its check against       *)
(* cycles, called by several goroutines, and a parent run whose node is a   *)
(* nested run that may pause, fail or be tried again.                       *)
EXTENDS StateSchema

CONSTANTS Graphs, Adders,
          MaxAdds,       \* bound: successful AddSubgraph calls
          NestedNodes,   \* nodes of the nested graph, in a line
          Input, Output, \* InputKeys and OutputKeys of the nested run
          Namespace,     \* the key its output goes under, or Nil
          ParentSchema,
          MaxNestedRuns  \* bound: times the nested graph is run

(* What nested nodes write to is an accumulating list of the parent, empty  *)
(* at first, and a plain channel.                                           *)
ASSUME NestingAssumption ==
    /\ NestedNodes \in Seq(STRING) /\ Nil \notin Seq(STRING)
    /\ {"log", "note"} \subseteq DOMAIN ParentSchema
    /\ ParentSchema["log"] = Channel("append", <<>>)
    /\ ParentSchema["note"].reducer = NoReducer /\ ParentSchema["note"].default # Nil

VARIABLES nested,        \* graph -> set of graphs nested in it
          adding,        \* adder -> what it is adding to what, and how far it is
          overlapped,    \* history: two calls of AddSubgraph were under way at once
          parent,        \* state of the parent run
          sub,           \* the nested run
          nestedRuns, merges

buildVars == <<nested, adding, overlapped>>
runVars == <<parent, sub, nestedRuns, merges>>

NotAdding == [pc |-> "idle", to |-> Nil, sub |-> Nil]
NoSub == [pc |-> "idle", at |-> 1, state |-> Empty]

NestingInit ==
    /\ nested = [g \in Graphs |-> {}]
    /\ adding = [a \in Adders |-> NotAdding]
    /\ overlapped = FALSE
    /\ parent = NewState(ParentSchema)
    /\ sub = NoSub /\ nestedRuns = 0 /\ merges = 0

------------------------------------------------------------------------------
(* graphContains: what is reachable through nested graphs is in every set of *)
(* graphs that holds what the root nests and what its members nest.         *)
Below(root) ==
    {g \in Graphs : \A S \in SUBSET Graphs :
        nested[root] \subseteq S /\ (\A h \in S : nested[h] \subseteq S) => g \in S}
Bug_DirectOnly(root, target) == target \in nested[root]
GraphContains(root, target) == target \in Below(root)

(* Operators named Bug_... are defects the properties must catch; nothing   *)
(* else uses them.                                                          *)

(* The checks of AddSubgraph: a graph is not its own part, and the nested   *)
(* one does not contain the other (each graph is read under its own lock).  *)
Check(a, g, s) ==
    /\ adding[a].pc = "idle"
    /\ s # g /\ ~GraphContains(s, g)
    /\ adding' = [adding EXCEPT ![a] = [pc |-> "checked", to |-> g, sub |-> s]]
    /\ overlapped' = (overlapped \/ \E b \in Adders : adding[b].pc = "checked")
    /\ UNCHANGED <<nested, runVars>>

(* The node is added and the nesting recorded under the lock of the graph,  *)
(* later and without a second look.                                         *)
Record(a) ==
    /\ adding[a].pc = "checked"
    /\ Cardinality({e \in Graphs \X Graphs : e[2] \in nested[e[1]]}) < MaxAdds
    /\ nested' = [nested EXCEPT ![adding[a].to] = @ \cup {adding[a].sub}]
    /\ adding' = [adding EXCEPT ![a] = NotAdding]
    /\ UNCHANGED <<overlapped, runVars>>

------------------------------------------------------------------------------
(* The node function: the nested run gets the projection of the attempt's   *)
(* copy of the parent state, with its own step count and routing.           *)
StartNested ==
    /\ sub.pc = "idle" /\ nestedRuns < MaxNestedRuns
    /\ sub' = [pc |-> "running", at |-> 1, state |-> ProjectState(parent, Input)]
    /\ nestedRuns' = nestedRuns + 1
    /\ UNCHANGED <<buildVars, parent, merges>>

(* A node of the nested graph adds its name to the list and sets a note.    *)
Wrote(state, n) ==
    Set(Set(state, "log", (IF "log" \in DOMAIN state THEN state["log"] ELSE <<>>) \o <<n>>),
        "note", n)

NestedNode ==
    /\ sub.pc = "running" /\ sub.at <= Len(NestedNodes)
    /\ sub' = [sub EXCEPT !.at = @ + 1, !.state = Wrote(@, NestedNodes[sub.at])]
    /\ UNCHANGED <<buildVars, parent, nestedRuns, merges>>

Bug_UnfinishedMerged ==
    /\ sub.pc = "running"
    /\ sub' = NoSub
    /\ parent' = MergeWithSchema(ParentSchema, parent, ProjectState(sub.state, Output))
    /\ UNCHANGED <<buildVars, nestedRuns, merges>>

(* A pause or an error of the nested run is an error of the node, with or   *)
(* without PropagateInterrupts; the state of the nested run is dropped, and *)
(* a retry, or the caller who runs the parent again from this node, starts  *)
(* the nested graph from its start.                                         *)
NestedStops ==
    /\ sub.pc = "running"
    /\ sub' = NoSub
    /\ UNCHANGED <<buildVars, parent, nestedRuns, merges>>

(* The output goes under one key or through the reducers of the parent. *)
MergeOutput ==
    /\ sub.pc = "running" /\ sub.at > Len(NestedNodes)
    /\ parent' = IF Namespace # Nil THEN Set(parent, Namespace, sub.state)
                 ELSE MergeWithSchema(ParentSchema, parent, ProjectState(sub.state, Output))
    /\ sub' = NoSub /\ merges' = merges + 1
    /\ UNCHANGED <<buildVars, nestedRuns>>

(* Building and running do not touch each other. *)
BuildNext == \E a \in Adders : (\E g, s \in Graphs : Check(a, g, s)) \/ Record(a)
RunNext == StartNested \/ NestedNode \/ NestedStops \/ MergeOutput

nestingVars == <<buildVars, runVars>>
NestingSpec == NestingInit /\ [][BuildNext \/ RunNext]_nestingVars

------------------------------------------------------------------------------
(* No graph ever contains itself, which would recurse without end, whatever *)
(* the order of the calls, as long as no two of them overlap. (AddSubgraph: *)
(* "would create a cycle of graphs"; the check and the record are separate  *)
(* critical sections, so two goroutines that add two graphs to each other   *)
(* both pass.)                                                              *)
NestingAcyclic == ~overlapped => \A g \in Graphs : g \notin Below(g)

(* Each nested node is in the parent's list once for each nested run that   *)
(* came to its end, and not at all for one that paused, failed or was       *)
(* retried, in the order of the nested graph; other keys stay as they were. *)
(* (This needs the nested graph not to be shown the accumulating channels   *)
(* of its parent: an inherited list would be appended to itself.)           *)
NestedWorkOnce ==
    Namespace = Nil /\ "log" \in Output /\ Input # {} /\ "log" \notin Input =>
        /\ Len(parent["log"]) = merges * Len(NestedNodes)
        /\ \A i \in DOMAIN parent["log"] :
             parent["log"][i] = NestedNodes[((i - 1) % Len(NestedNodes)) + 1]
        /\ "note" \notin Output => parent["note"] = ParentSchema["note"].default

(* Graphs do not contain themselves, and a nested run is merged once.       *)
NestingIsSound == NestingAcyclic /\ NestedWorkOnce
==============================================================================
