---------------------------- MODULE DurableThread ----------------------------
(***************************************************************************)
(* Durable execution of one thread: a graph that saves a checkpoint after  *)
(* every node (WithCheckpointer), a process that may die between any two   *)
(* steps, and the documented restart: Latest, GetNextNodes, then           *)
(* ExecuteWithOptions from that node with the saved state.                 *)
(*                                                                         *)
(* Only what survives or decides a restart is kept of the engine, whose    *)
(* loop is module GraphEngine; the state of a run is the sequence of nodes *)
(* that wrote to it. Timestamps grow from one process to the next.         *)
(***************************************************************************)
EXTENDS Routing, Latest

CONSTANTS
    Graph,      \* the graph, a record of module Routing
    Names,      \* names the conditions may answer
    MaxFaults   \* bound: crashes, node errors and failed saves together

ASSUME DurableAssumption == MaxFaults \in Nat /\ Graph.nodes \subseteq Names

VARIABLES
    saved,      \* the checkpoints of the thread
    pc,         \* where the process stands; "down" when there is none, or it gave up
    node, step, work,   \* currentNode, step and state of the run
    clock,      \* checkpoints saved so far
    faults,     \* faults so far
    from        \* history: stamp of the checkpoint the run restarted from, 0 for none

vars == <<saved, pc, node, step, work, clock, faults, from>>

(* Answers of the table of node n and of the conditions on its edges.      *)
Asks(n) == [{0} \cup Outgoing(Graph, n) -> Names \cup {Failure}]

Init ==
    /\ saved = {} /\ clock = 0 /\ faults = 0
    /\ pc = "down" /\ node = NoName /\ step = 0 /\ work = <<>> /\ from = 0

(* ExecuteWithOptions with StartNode n: its step counter starts at 0. *)
RunFrom(n, w) == pc' = "loop" /\ node' = n /\ step' = 0 /\ work' = w

(* Operators named Bug_... are defects the properties must catch; nothing  *)
(* of the model uses them.                                                 *)
Bug_StartAtSavedNode ==
    /\ pc = "down"
    /\ IF saved = {} THEN RunFrom(Graph.start, <<>>) /\ from' = 0
       ELSE /\ from' = Latest(saved).stamp
            /\ RunFrom(Latest(saved).node, Latest(saved).work)
    /\ UNCHANGED <<saved, clock, faults>>

(* The restart. Without a checkpoint the thread starts afresh; a failing   *)
(* condition ends the attempt, and no next node means that there is        *)
(* nothing left to do.                                                     *)
Restart ==
    /\ pc = "down"
    /\ IF saved = {} THEN RunFrom(Graph.start, <<>>) /\ from' = 0
       ELSE LET latest == Latest(saved)
            IN  \E ask \in Asks(latest.node) :
                  LET next == RouteFrom(Graph, latest.node, ask)
                  IN  /\ from' = latest.stamp
                      /\ CASE next.err # "none" -> UNCHANGED <<pc, node, step, work>>
                           [] next.err = "none" /\ next.to = NoName ->
                                pc' = "finished" /\ work' = latest.work /\ UNCHANGED <<node, step>>
                           [] OTHER -> RunFrom(next.to, latest.work)
    /\ UNCHANGED <<saved, clock, faults>>

(* One turn of the loop: the node runs on a clone of the state. A name     *)
(* that is no node fails the run.                                          *)
RunNode ==
    /\ pc = "loop"
    /\ IF node \in Graph.nodes
       THEN pc' = "save" /\ work' = Append(work, node)
       ELSE pc' = "refused" /\ UNCHANGED work
    /\ UNCHANGED <<saved, node, step, clock, faults, from>>

Bug_SaveStateBeforeNode ==
    /\ pc = "save"
    /\ saved' = saved \cup {[node |-> node, step |-> step, stamp |-> clock + 1,
                             work |-> SubSeq(work, 1, Len(work) - 1)]}
    /\ clock' = clock + 1 /\ step' = step + 1
    /\ pc' = "decide"
    /\ UNCHANGED <<node, work, faults, from>>

(* A failed save is logged; the run goes on.                               *)
Save ==
    /\ pc = "save"
    /\ \/ /\ saved' = saved \cup {[node |-> node, step |-> step, work |-> work,
                                   stamp |-> clock + 1]}
          /\ clock' = clock + 1
          /\ UNCHANGED faults
       \/ /\ faults < MaxFaults /\ faults' = faults + 1
          /\ UNCHANGED <<saved, clock>>
    /\ step' = step + 1
    /\ pc' = "decide"
    /\ UNCHANGED <<node, work, from>>

Follow(next) ==
    CASE next.err # "none" -> pc' = "down" /\ UNCHANGED node
      [] next.err = "none" /\ Terminal(next.to) -> pc' = "finished" /\ UNCHANGED node
      [] OTHER -> pc' = "loop" /\ node' = next.to

Decide ==
    /\ pc = "decide"
    /\ IF node \in Graph.ends THEN pc' = "finished" /\ UNCHANGED node
       ELSE \E ask \in Asks(node) : Follow(RouteFrom(Graph, node, ask))
    /\ UNCHANGED <<saved, step, work, clock, faults, from>>

(* The process dies, or its node fails for good and the call returns.      *)
Fault ==
    /\ pc \in {"loop", "save", "decide"} /\ faults < MaxFaults
    /\ faults' = faults + 1
    /\ pc' = "down"
    /\ UNCHANGED <<saved, node, step, work, clock, from>>

Run == Restart \/ RunNode \/ Save \/ Decide

Next == Run \/ Fault

(* Somebody restarts the thread as long as it has not finished. *)
Spec == Init /\ [][Next]_vars /\ WF_vars(Run)

-----------------------------------------------------------------------------
TypeOK ==
    /\ saved \subseteq [node : Graph.nodes, step : Nat, work : Seq(Graph.nodes), stamp : 1 .. clock]
    /\ pc \in {"down", "loop", "save", "decide", "finished", "refused"}
    /\ node \in Names \cup {NoName, START, END}
    /\ step \in Nat /\ work \in Seq(Graph.nodes)
    /\ clock \in Nat /\ faults \in 0 .. MaxFaults /\ from \in 0 .. clock

Leads(m, n) == \E ask \in Asks(m) : RouteFrom(Graph, m, ask) = Route(n)

(* "Resume instead of starting over": however often the process dies, and  *)
(* whatever was not saved, the state holds the writes of one walk of the   *)
(* graph from its start: no node is missing from it and none ran twice on  *)
(* it.                                                                     *)
WorkIsAWalk ==
    /\ work # <<>> => work[1] = Graph.start
    /\ \A i \in 1 .. Len(work) - 1 : Leads(work[i], work[i + 1])
    /\ pc = "loop" /\ work # <<>> => Leads(work[Len(work)], node)

(* "Resume from its last checkpoint": the state of a run holds more nodes  *)
(* than the highest step number ever saved on the thread, so no restart    *)
(* falls behind the longest run before it. (It can fall behind later,      *)
(* shorter ones: RestartsFromMostRecent.)                                  *)
SavedStepsSurvive ==
    pc # "down" => \A cp \in saved : Len(work) > cp.step

(* Both: crashes cost at most the work since the last step of the longest   *)
(* run, and never mix two runs.                                             *)
WorkSurvives == WorkIsAWalk /\ SavedStepsSurvive

(* A thread that is restarted until it ends ends with the whole work done, *)
(* once faults stop: its state was left by an end node.                    *)
Finished == pc = "finished" /\ work # <<>> /\ work[Len(work)] \in Graph.ends
Finishes == <>[]Finished

(* "Latest returns the most recent checkpoint for a thread": a restarted   *)
(* run counts its steps from 0 again, and its checkpoints stay in the      *)
(* shadow of those of the run before.                                      *)
RestartsFromMostRecent ==
    [][pc = "down" /\ saved # {} => from' = clock]_<<pc, from>>
==============================================================================
