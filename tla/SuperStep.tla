------------------------------ MODULE SuperStep ------------------------------
(* ExecuteParallelUpdates and ExecuteParallel: branches that run at the     *)
(* same time on copies of one state. The first merges the updates of the    *)
(* branches through the reducers, in the order of the node IDs; the second  *)
(* reports a result per node. The caller goes on when the call returns; a   *)
(* call that finds a node it cannot run returns at once and leaves the      *)
(* branches it had launched running.                                        *)
EXTENDS StateSchema

CONSTANTS StepNodes,    \* node ID -> kind: "update" or "plain"
          Channels,     \* the schema of the graph
          StepUpdates,  \* node ID -> what its update function returns
          IdLists,      \* the lists of node IDs a caller may ask for
          StepInputs,   \* states a caller may pass
          MaxCalls      \* bound: calls

VARIABLES superstep,    \* pc, mode, ids and input of the call under way
          passed,       \* the caller's state object
          branches,     \* one record per branch launched
          reported,     \* what the call returned: state or results, and whether with an error
          supersteps

stepVars == <<superstep, passed, branches, reported, supersteps>>

StepModes == {"updates", "results"}
NoReport == [state |-> Empty, results |-> Empty, err |-> FALSE]
NoCall == [pc |-> "idle", mode |-> "updates", ids |-> <<>>, input |-> Empty, next |-> 1]
Branch(n) == [node |-> n, st |-> "launched", saw |-> Empty]

StepInit ==
    /\ superstep = NoCall
    /\ passed \in StepInputs
    /\ branches = <<>>
    /\ reported = NoReport
    /\ supersteps = 0

ReturnFromStep(a) ==
    /\ reported' = a
    /\ superstep' = [superstep EXCEPT !.pc = "returned"]

------------------------------------------------------------------------------
(* Operators named Bug_... are defects the properties must catch; nothing   *)
(* else uses them.                                                          *)

(* The lookup of the nodes is one critical section and comes before any     *)
(* launch; ExecuteParallel leaves it to the branches.                       *)
BeginStep(mode, ids) ==
    /\ superstep.pc = "idle" /\ supersteps < MaxCalls
    /\ supersteps' = supersteps + 1
    /\ branches' = <<>>
    /\ IF ids = <<>>
       THEN /\ superstep' = [NoCall EXCEPT !.pc = "returned", !.mode = mode, !.input = passed]
            /\ reported' = [NoReport EXCEPT !.state = passed]
       ELSE IF mode = "updates" /\ ~(\A i \in DOMAIN ids : ids[i] \in DOMAIN StepNodes)
       THEN /\ superstep' = [NoCall EXCEPT !.pc = "returned", !.ids = ids, !.input = passed]
            /\ reported' = [NoReport EXCEPT !.err = TRUE]
       ELSE /\ superstep' = [pc |-> "launch", mode |-> mode, ids |-> ids, input |-> passed, next |-> 1]
            /\ reported' = NoReport
    /\ UNCHANGED passed

(* One round of the loop that starts the goroutines; a node without update  *)
(* function makes the call return while earlier branches run.               *)
LaunchBranch ==
    LET n == superstep.ids[superstep.next]
        last == superstep.next = Len(superstep.ids)
    IN  /\ superstep.pc = "launch"
        /\ IF superstep.mode = "updates" /\ StepNodes[n] # "update"
           THEN ReturnFromStep([NoReport EXCEPT !.err = TRUE]) /\ UNCHANGED branches
           ELSE /\ branches' = Append(branches, Branch(n))
                /\ superstep' = [superstep EXCEPT !.next = @ + 1, !.pc = IF last THEN "wait" ELSE @]
                /\ UNCHANGED reported
        /\ UNCHANGED <<passed, supersteps>>

(* The goroutine copies the state itself, some time after it was started. *)
CopyState(i) ==
    /\ branches[i].st = "launched"
    /\ branches' = [branches EXCEPT ![i].st = "running", ![i].saw = passed]
    /\ UNCHANGED <<superstep, passed, reported, supersteps>>

(* A node function returns, fails or panics; whether it also changed its    *)
(* copy makes no difference to anybody. ExecuteParallel files its result    *)
(* under the node ID, where a second branch of the same node replaces it; a *)
(* node that does not exist fails there.                                    *)
FinishBranch(i, st) ==
    /\ branches[i].st = "running"
    /\ st = "ok" => branches[i].node \in DOMAIN StepNodes
    /\ branches' = [branches EXCEPT ![i].st = st]
    /\ reported' = IF superstep.mode = "results" /\ superstep.pc # "returned"
                   THEN [reported EXCEPT !.results = Set(@, branches[i].node, st)]
                   ELSE reported
    /\ UNCHANGED <<superstep, passed, supersteps>>

Bug_MergeFromTheEnd(input) ==
    LET merged[i \in 0..Len(branches)] ==
            LET b == branches[Len(branches) + 1 - i] IN
            IF i = 0 THEN input ELSE IF b.st # "ok" THEN merged[i - 1]
            ELSE ApplyUpdates(Channels, merged[i - 1], StepUpdates[b.node])
    IN  merged[Len(branches)]

(* The loop over the updates leaves out the branches with an error.          *)
MergedState(input) ==
    LET merged[i \in 0..Len(branches)] ==
            IF i = 0 THEN input ELSE IF branches[i].st # "ok" THEN merged[i - 1]
            ELSE ApplyUpdates(Channels, merged[i - 1], StepUpdates[branches[i].node])
    IN  merged[Len(branches)]

Bug_OneReported == \E i \in DOMAIN branches : branches[i].st \in {"ok", "failed"}

(* wg.Wait, then the merge on a copy of the caller's state. *)
AllReported == \A i \in DOMAIN branches : branches[i].st \in {"ok", "failed"}

Join ==
    /\ superstep.pc = "wait" /\ AllReported
    /\ ReturnFromStep([reported EXCEPT
                 !.state = IF superstep.mode = "updates" THEN MergedState(passed) ELSE @,
                 !.err = \E i \in DOMAIN branches : branches[i].st = "failed"])
    /\ UNCHANGED <<passed, branches, supersteps>>

(* The caller owns the state again and may write to it, also while branches *)
(* of a refused call are still running. It calls again when those are done: *)
(* they share nothing with a later call.                                    *)
CallerWrites ==
    /\ superstep.pc = "returned"
    /\ passed' \in StepInputs
    /\ UNCHANGED <<superstep, branches, reported, supersteps>>

CallAgain ==
    /\ superstep.pc = "returned" /\ AllReported
    /\ superstep' = NoCall /\ branches' = <<>> /\ reported' = NoReport
    /\ UNCHANGED <<passed, supersteps>>

StepNext ==
    \/ \E mode \in StepModes, ids \in IdLists : BeginStep(mode, ids)
    \/ LaunchBranch \/ Join \/ CallerWrites \/ CallAgain
    \/ \E i \in DOMAIN branches : CopyState(i) \/ FinishBranch(i, "ok") \/ FinishBranch(i, "failed")

------------------------------------------------------------------------------
StepRefused == superstep.pc = "returned" /\ Len(branches) < Len(superstep.ids)
StepEnded == superstep.pc = "returned" /\ ~StepRefused

(* The branches that count, as positions in the list the caller gave, and   *)
(* what they had to say of a key.                                            *)
GoodBranches == {i \in DOMAIN branches : branches[i].st = "ok"}
WordsOn(k) ==
    [i \in {i \in GoodBranches : k \in DOMAIN StepUpdates[branches[i].node]} |->
        StepUpdates[branches[i].node][k]]

(* A list: the slices of the words laid end to end behind what was there.    *)
Appended(v, old, words, n) ==
    \E end \in [0..n -> 0..Len(v)] :
        /\ end[0] = Len(old) /\ end[n] = Len(v) /\ \A a \in 1..Len(old) : v[a] = old[a]
        /\ \A i \in 1..n :
              LET word == IF i \in DOMAIN words THEN ToSlice(words[i]) ELSE <<>> IN
              /\ end[i] = end[i - 1] + Len(word)
              /\ \A a \in 1..Len(word) : v[end[i - 1] + a] = word[a]

(* A sum: each word counts once. *)
Summed(v, old, words) ==
    \A each \in {words[i] : i \in DOMAIN words} :
        (\A i \in DOMAIN words : words[i] = each) => v = SumInt(old, Cardinality(DOMAIN words) * SumInt(Nil, each))

(* Messages stay where they were first put, ids that were unique are so      *)
(* still, and the last message with an id is there, as is each without one.  *)
Unique(list) == \A a, b \in DOMAIN list : list[a].id = list[b].id /\ list[a].id # Nil => a = b
Addressed(v, old, words) ==
    /\ Len(v) >= Len(old) /\ \A a \in DOMAIN old : v[a].id = old[a].id
    /\ Unique(old) => Unique(v)
    /\ \A i \in DOMAIN words : \A p \in DOMAIN ToSlice(words[i]) :
          LET msg == ToSlice(words[i])[p]
              later(j) == {q \in DOMAIN ToSlice(words[j]) : ToSlice(words[j])[q].id = msg.id /\ (j > i \/ q > p)} IN
          msg.id = Nil \/ (\A j \in DOMAIN words : j >= i => later(j) = {}) => \E a \in DOMAIN v : v[a] = msg

(* A map: every key of every word, with what the last said of it.            *)
Combined(v, old, words) ==
    /\ DOMAIN v = DOMAIN old \cup UNION {DOMAIN ToMap(words[i]) : i \in DOMAIN words}
    /\ \A x \in DOMAIN v :
          LET said == {i \in DOMAIN words : x \in DOMAIN ToMap(words[i])} IN
          IF said = {} THEN v[x] = old[x]
          ELSE \E i \in said : (\A j \in said : j <= i) /\ v[x] = ToMap(words[i])[x]

Replaced(v, words) == \E i \in DOMAIN words : (\A j \in DOMAIN words : j <= i) /\ v = words[i]

(* Whatever the order in which branches finish, the merged state is the     *)
(* input, then the contributions of the branches that succeeded in the      *)
(* order of their IDs: lists hold each of them once and in order, sums      *)
(* count each once, a map has the last word on each of its keys, a          *)
(* last-write key holds the last one's, and a message stays where it was    *)
(* first put. Branches that failed leave no trace.                          *)
(* (ExecuteParallelUpdates: "deterministic regardless of completion order") *)
StepKeys ==
    DOMAIN Channels \cup DOMAIN superstep.input \cup
    UNION {DOMAIN StepUpdates[n] : n \in DOMAIN StepUpdates}
MergeFollowsOrder ==
    StepEnded /\ superstep.mode = "updates" =>
        \A k \in StepKeys :
            LET channel == IF k \in DOMAIN Channels THEN Channels[k] ELSE Channel(NoReducer, Nil)
                old == IF k \in DOMAIN superstep.input THEN superstep.input[k] ELSE channel.default
            IN  IF DOMAIN WordsOn(k) = {}
                THEN IF k \in DOMAIN superstep.input THEN k \in DOMAIN reported.state /\ reported.state[k] = old
                                                ELSE k \notin DOMAIN reported.state
                ELSE /\ k \in DOMAIN reported.state
                     /\ LET v == reported.state[k] IN
                        CASE channel.reducer = "append" -> Appended(v, ToSlice(old), WordsOn(k), Len(branches))
                          [] channel.reducer = "sum" -> Summed(v, old, WordsOn(k))
                          [] channel.reducer = "messages" -> Addressed(v, ToSlice(old), WordsOn(k))
                          [] channel.reducer = "map" -> Combined(v, ToMap(old), WordsOn(k))
                          [] OTHER -> Replaced(v, WordsOn(k))

(* And every branch of a call that waited for its branches worked on the    *)
(* state the caller passed, and every node the caller named is in the       *)
(* report, an error being returned exactly if one failed. (A refused call   *)
(* is no exception to worry about only because nobody reads its branches.)  *)
MergeIsOrdered ==
    /\ MergeFollowsOrder
    /\ StepEnded => /\ \A i \in DOMAIN branches : branches[i].saw = superstep.input
                    /\ superstep.mode = "results" => DOMAIN reported.results = ToSet(superstep.ids)
                    /\ superstep.ids # <<>> => (reported.err <=> GoodBranches # DOMAIN branches)
==============================================================================
