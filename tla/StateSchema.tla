----------------------------- MODULE StateSchema -----------------------------
(* The channels of a graph state and how updates are combined: the reducers *)
(* of schema.go, BaseState.Update, Merge, MergeWithSchema and projectState. *)
(* A state is a function from the keys written so far to values, copied     *)
(* whenever it changes hands; a schema maps each declared key to a reducer  *)
(* and a default. Slices are sequences, messages records with an id, and a  *)
(* nil value is Nil.                                                        *)
EXTENDS Integers, Sequences, FiniteSets, SequencesExt

CONSTANT Nil

Channel(reducer, default) == [reducer |-> reducer, default |-> default]
NoReducer == "none"

(* toSlice and the type assertion of MergeMap: nil counts as an empty slice  *)
(* or map. A channel is given values of the kind its reducer is for.         *)
ToSlice(v) == IF v = Nil THEN <<>> ELSE v
ToMap(v) == IF v = Nil THEN <<>> ELSE v

(* AddMessages: a message that shares its id with one already there takes   *)
(* its place, any other goes to the end. An update that is an empty slice   *)
(* is taken for a message of its own, which has no id.                      *)
NoMessages == [id |-> Nil, from |-> <<>>]
Incoming(update) == IF update = <<>> THEN <<NoMessages>> ELSE ToSlice(update)
AddMessage(list, msg) ==
    LET same == {i \in 1..Len(list) : msg.id # Nil /\ list[i].id = msg.id}
    IN  IF same = {} THEN Append(list, msg)
        ELSE [list EXCEPT ![CHOOSE i \in same : \A j \in same : i <= j] = msg]
AddMessages(old, new) ==
    LET list[n \in 0..Len(Incoming(new))] ==
            IF n = 0 THEN ToSlice(old) ELSE AddMessage(list[n - 1], Incoming(new)[n])
    IN  list[Len(Incoming(new))]

SumInt(old, new) == (IF old = Nil THEN 0 ELSE old) + (IF new = Nil THEN 0 ELSE new)

MergeMap(old, new) ==
    [k \in DOMAIN ToMap(old) \cup DOMAIN ToMap(new) |->
        IF k \in DOMAIN ToMap(new) THEN ToMap(new)[k] ELSE ToMap(old)[k]]

Reduce(reducer, old, new) ==
    CASE reducer = "append"   -> ToSlice(old) \o ToSlice(new)
      [] reducer = "messages" -> AddMessages(old, new)
      [] reducer = "sum"      -> SumInt(old, new)
      [] reducer = "map"      -> MergeMap(old, new)
      [] OTHER                -> new

Empty == [k \in {} |-> Nil]
Set(state, key, v) == [k \in DOMAIN state \cup {key} |-> IF k = key THEN v ELSE state[k]]

(* BaseState.Update: a channel that was never written starts from its       *)
(* default; a key without channel or reducer keeps the last value.          *)
Update(schema, state, key, v) ==
    IF key \in DOMAIN schema /\ schema[key].reducer # NoReducer
    THEN Set(state, key, Reduce(schema[key].reducer,
                IF key \in DOMAIN state THEN state[key] ELSE schema[key].default, v))
    ELSE Set(state, key, v)

(* ApplyUpdates and MergeWithSchema go through the keys one by one; no key  *)
(* depends on another, so the order of the keys makes no difference.        *)
ApplyUpdates(schema, state, updates) ==
    [k \in DOMAIN state \cup DOMAIN updates |->
        IF k \in DOMAIN updates THEN Update(schema, state, k, updates[k])[k] ELSE state[k]]

(* A graph without a schema merges by last write. *)
MergeWithSchema(schema, state, other) == ApplyUpdates(schema, state, other)

(* No keys means the whole state; keys that were never written are left out. *)
ProjectState(state, keys) ==
    IF keys = {} THEN state ELSE [k \in keys \cap DOMAIN state |-> state[k]]

(* NewState: every channel with a default starts with it. *)
NewState(schema) ==
    [k \in {k \in DOMAIN schema : schema[k].default # Nil} |-> schema[k].default]
==============================================================================
