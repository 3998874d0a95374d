------------------------------- MODULE Routers -------------------------------
(* The ready-made routing functions and what becomes of them when the state *)
(* they read has been through a checkpoint. Values carry their Go type: a   *)
(* state is a function from keys to [type, v], with "absent" for a key that *)
(* was never set. MarshalJSON and UnmarshalJSON keep strings and booleans,  *)
(* but turn numbers into float64 and typed slices into []interface{}.       *)
EXTENDS Integers, Sequences, FiniteSets

CONSTANTS MaxCount,      \* maxCount of RouteByCounter
          MaxRestarts,   \* bound: restarts
          MaxSteps       \* bound: nodes run

(* A counter is read after a node has added to it.                          *)
ASSUME LoopAssumption == MaxCount \in Nat \ {0}

VARIABLES standing, counter, toolCalls, restarts, ran,
          toolRounds     \* history: rounds taken for tools

loopVars == <<standing, counter, toolCalls, restarts, ran, toolRounds>>

Value(type, v) == [type |-> type, v |-> v]
Absent == Value("absent", 0)
NoList == Value("absent", <<>>)
Failed == "error"

(* Operators named Bug_... are defects the properties must catch; nothing   *)
(* else uses them.                                                          *)

JSON(val) ==
    CASE val.type = "int"   -> Value("float64", val.v)
      [] val.type = "typed" -> Value("list", val.v)
      [] OTHER              -> val

RouteByMessageType(messages) ==
    IF messages.type # "list" \/ messages.v = <<>> THEN Failed
    ELSE LET last == messages.v[Len(messages.v)] IN
         IF last \in {"human", "ai", "tool"} THEN last ELSE "default_processor"

RouteByToolCalls(calls) ==
    IF calls.type = "list" /\ calls.v # <<>> THEN "execute_tools" ELSE "no_tools"

RouteByCondition(flag, whenTrue, whenFalse) ==
    IF flag.type = "bool" /\ flag.v THEN whenTrue ELSE whenFalse

Bug_CounterExclusive(val, max, more, exit) ==
    IF val.type = "int" /\ val.v > max THEN exit ELSE more

RouteByCounter(val, max, more, exit) ==
    IF val.type = "int" /\ val.v >= max THEN exit ELSE more

(* ConditionalRouter.Route: the first answer in the order of registration   *)
(* that is neither an error nor empty, or else the fallback.                *)
FirstRoute(answers, fallback) ==
    LET useful == {i \in 1..Len(answers) : answers[i] \notin {Failed, ""}}
    IN  IF useful = {} THEN fallback
        ELSE answers[CHOOSE i \in useful : \A j \in useful : i <= j]

------------------------------------------------------------------------------
(* A loop: a node adds one to the counter (SumInt, which answers an int     *)
(* whatever it reads) and leaves its tool calls; then the router decides.   *)
LoopInit ==
    /\ standing = "node" /\ counter = Absent /\ toolCalls = NoList
    /\ restarts = 0 /\ ran = 0 /\ toolRounds = 0

RunNode(calls) ==
    /\ standing = "node" /\ ran < MaxSteps
    /\ counter' = Value("int", counter.v + 1)
    /\ toolCalls' = calls
    /\ standing' = "route" /\ ran' = ran + 1
    /\ UNCHANGED <<restarts, toolRounds>>

(* A request for tools goes before the limit. *)
Decide ==
    FirstRoute(<<RouteByMessageType(NoList),
                 RouteByCondition(Value("bool", RouteByToolCalls(toolCalls) = "execute_tools"), "node", ""),
                 RouteByCounter(counter, MaxCount, "", "done")>>, "node")

TakeRoute ==
    /\ standing = "route"
    /\ standing' = Decide
    /\ toolRounds' = toolRounds + (IF RouteByToolCalls(toolCalls) = "execute_tools" THEN 1 ELSE 0)
    /\ UNCHANGED <<counter, toolCalls, restarts, ran>>

(* The process dies and the thread is restarted from the checkpoint of the  *)
(* last node: the route is decided again, on the restored state.            *)
Restart ==
    /\ ran > 0 /\ standing # "done" /\ restarts < MaxRestarts
    /\ counter' = JSON(counter)
    /\ toolCalls' = JSON(toolCalls)
    /\ standing' = "route" /\ restarts' = restarts + 1
    /\ UNCHANGED <<ran, toolRounds>>

LoopNext ==
    \/ \E calls \in {NoList, Value("list", <<>>), Value("list", <<"c">>), Value("typed", <<"c">>)} :
          RunNode(calls)
    \/ TakeRoute \/ Restart

LoopSpec == LoopInit /\ [][LoopNext]_loopVars

------------------------------------------------------------------------------
(* A loop bounded by RouteByCounter does not end before its bound, and      *)
(* apart from the rounds taken for tools goes over it at most once for      *)
(* every restart: a restored counter is a float64, which the router does    *)
(* not take for a count, until the next node makes it an int again.         *)
CounterBoundsLoop ==
    /\ standing = "done" => counter.v >= MaxCount
    /\ standing = "node" /\ ran > 0 => counter.v < MaxCount + restarts + toolRounds
==============================================================================
