---------------------------- MODULE StateSharing -----------------------------
(* Which *BaseState objects of a run are the same object. The engine copies *)
(* the state it is given, hands each attempt a copy, and keeps what a node  *)
(* returns both as the state it goes on with and in the result it records   *)
(* and streams; a pause and a return hand that very object to the caller,   *)
(* and whoever reads the stream, GetExecutionHistory or the snapshots holds *)
(* the live objects and can write to them.                                  *)
(* An object is a position of the heap and its content the number of times  *)
(* each writer wrote to it.                                                 *)
EXTENDS Naturals, Sequences, SequencesExt

CONSTANTS MaxRuns,      \* bound: calls of Execute and Resume
          MaxAttempts,  \* bound: node attempts
          MaxEdits,     \* bound: edits by those who hold a state
          HistorySize   \* how many snapshots a state keeps

VARIABLES heap,         \* contents of the state objects
          run,          \* the object the run goes on with, 0 between runs
          current,      \* g.currentState
          history,      \* objects of the recorded results, 0 for a failure
          saved,        \* contents of the checkpoints
          callers,      \* objects the caller holds
          readers,      \* objects that streams and histories handed to their readers
          snapshots,    \* the last snapshots, which are no states themselves
          runs, attempts, edits

sharingVars == <<heap, run, current, history, saved, callers, readers, snapshots, runs, attempts, edits>>

Fresh == [node |-> 0, holder |-> 0]

SharingInit ==
    /\ heap = <<Fresh, Fresh>>      \* the caller's state, and NewGraph's own
    /\ run = 0 /\ current = 2
    /\ history = <<>> /\ saved = <<>>
    /\ callers = {1} /\ readers = {} /\ snapshots = <<>>
    /\ runs = 0 /\ attempts = 0 /\ edits = 0

Clone(o) == Append(heap, heap[o])
NewObject == Len(heap) + 1

(* Operators named Bug_... are defects the properties must catch; nothing   *)
(* else uses them.                                                          *)

(* The run and currentState get a copy each of the state of the call, which *)
(* is the paused one when the caller resumes, and the history starts empty. *)
Execute(o) ==
    /\ run = 0 /\ runs < MaxRuns
    /\ runs' = runs + 1
    /\ heap' = heap \o <<heap[o], heap[o]>>
    /\ run' = NewObject + 1
    /\ current' = NewObject
    /\ history' = <<>>
    /\ UNCHANGED <<saved, callers, readers, snapshots, attempts, edits>>

Bug_AttemptOnTheState == [heap |-> heap, arg |-> run]

(* The object an attempt works on. *)
Attempt == [heap |-> Clone(run), arg |-> NewObject]

(* Mutant: currentState is the state of the run. *)
Bug_TheStateItself(h, o) == [heap |-> h, current |-> o]

(* currentState after a node: a copy. *)
Mirrored(h, o) == [heap |-> Append(h, h[o]), current |-> Len(h) + 1]

(* A node writes to its copy and returns it, keeps the run on the state it  *)
(* had by returning nil, or fails; the next attempt or node starts over     *)
(* from the run's state. After a success currentState becomes a copy and    *)
(* the checkpoint holds the content.                                        *)
NodeStep(outcome) ==
    LET a == Attempt
        written == [a.heap EXCEPT ![a.arg].node = @ + 1]
        after == IF outcome = "state" THEN a.arg ELSE run
    IN  /\ run # 0 /\ attempts < MaxAttempts
        /\ attempts' = attempts + 1
        /\ history' = Append(history, IF outcome = "state" THEN a.arg ELSE 0)
        /\ readers' = readers \cup (IF outcome = "state" THEN {a.arg} ELSE {})
        /\ IF outcome = "error"
           THEN /\ heap' = written
                /\ run' = 0 /\ callers' = callers \cup {run}
                /\ UNCHANGED <<current, saved>>
           ELSE /\ heap' = Mirrored(written, after).heap
                /\ current' = Mirrored(written, after).current
                /\ saved' = Append(saved, written[after])
                /\ run' = after
                /\ UNCHANGED callers
        /\ UNCHANGED <<snapshots, runs, edits>>

(* An attempt that fails and is tried again leaves nothing behind. *)
FailedAttempt ==
    LET a == Attempt IN
    /\ run # 0 /\ attempts < MaxAttempts
    /\ attempts' = attempts + 1
    /\ heap' = [a.heap EXCEPT ![a.arg].node = @ + 1]
    /\ UNCHANGED <<run, current, history, saved, callers, readers, snapshots, runs, edits>>

(* A pause, an end node, an interrupt: InterruptError.State or the returned *)
(* state is the object itself.                                              *)
HandOver ==
    /\ run # 0
    /\ callers' = callers \cup {run}
    /\ run' = 0
    /\ UNCHANGED <<heap, current, history, saved, readers, snapshots, runs, attempts, edits>>

(* GetCurrentState answers a copy. *)
GetCurrentState ==
    /\ edits < MaxEdits
    /\ heap' = Clone(current)
    /\ callers' = callers \cup {NewObject}
    /\ edits' = edits + 1
    /\ UNCHANGED <<run, current, history, saved, readers, snapshots, runs, attempts>>

(* The states that are in other hands than the engine's; a snapshot is read *)
(* and edited as the map it is (GetSnapshots copies the list, not the maps). *)
Handed == callers \cup readers
Snapshots == {snapshots[i] : i \in DOMAIN snapshots}

(* Whoever holds a state or a snapshot edits it, while the run goes on or   *)
(* before a paused one is resumed.                                          *)
HolderEdits(o) ==
    /\ edits < MaxEdits
    /\ heap' = [heap EXCEPT ![o].holder = @ + 1]
    /\ edits' = edits + 1
    /\ UNCHANGED <<run, current, history, saved, callers, readers, snapshots, runs, attempts>>

(* StateHistory.AddSnapshot: the oldest one gives way. *)
AddSnapshot(o) ==
    LET all == Append(snapshots, o)
    IN  IF Len(all) > HistorySize THEN Tail(all) ELSE all

(* CreateSnapshot keeps a copy in the history of the state;                 *)
(* RestoreFromSnapshot copies it back over the state.                       *)
CreateSnapshot(o) ==
    /\ edits < MaxEdits
    /\ heap' = Clone(o)
    /\ snapshots' = AddSnapshot(NewObject)
    /\ edits' = edits + 1
    /\ UNCHANGED <<run, current, history, saved, callers, readers, runs, attempts>>

RestoreFromSnapshot(o, i) ==
    /\ edits < MaxEdits
    /\ heap' = [heap EXCEPT ![o] = heap[snapshots[i]]]
    /\ edits' = edits + 1
    /\ UNCHANGED <<run, current, history, saved, callers, readers, snapshots, runs, attempts>>

SharingNext ==
    \/ \E o \in Handed : Execute(o)
    \/ \E o \in Handed \cup Snapshots : HolderEdits(o)
    \/ \E outcome \in {"state", "nil", "error"} : NodeStep(outcome)
    \/ \E o \in Handed : CreateSnapshot(o) \/ \E i \in DOMAIN snapshots : RestoreFromSnapshot(o, i)
    \/ FailedAttempt \/ HandOver \/ GetCurrentState

SharingSpec == SharingInit /\ [][SharingNext]_sharingVars

------------------------------------------------------------------------------
(* The last result that carries a state; nothing when there is none. *)
LastStateful ==
    {i \in DOMAIN history : history[i] # 0 /\ \A j \in DOMAIN history :
                              history[j] # 0 => j <= i}

Rewritten(o) == heap'[o] # heap[o]

(* What was recorded stays what it was, but for the edits of those who read *)
(* that very record. No run, attempt, pause or copy changes a state that    *)
(* exists; nobody's edit reaches currentState, nor more than one result or  *)
(* snapshot; and the state of a run changes only at the hands of a reader   *)
(* of its latest result, which is the same object (graph.go:600): his edit  *)
(* reaches the next node. The caller is handed one result, the last, when   *)
(* the run is over: InterruptError.State is that object.                    *)
EarlierResultsStay ==
    [][/\ history' = history \/ history' = <<>> \/ Len(history') = Len(history) + 1
       /\ edits' = edits => \A o \in DOMAIN heap : ~Rewritten(o)
       /\ current' = current => ~Rewritten(current)
       /\ \A i, j \in DOMAIN history :
             history[i] # 0 /\ history[j] # 0 /\ Rewritten(history[i]) /\ Rewritten(history[j]) => i = j
       /\ \A i \in DOMAIN history, o \in Snapshots : history[i] # 0 /\ Rewritten(history[i]) => ~Rewritten(o)
       /\ run # 0 /\ Rewritten(run) => \E i \in LastStateful : history[i] = run
       /\ \A i \in DOMAIN history : history[i] \in callers => run = 0 /\ i \in LastStateful]_sharingVars
==============================================================================
