------------------------------ MODULE AutoServing ------------------------------
(* The generated server (pkg/server/auto_server.go, auto_handlers.go) over   *)
(* the registry of agent definitions (pkg/agent/agent_definition.go):        *)
(* definitions are registered one by one, in groups or by a plugin, endpoints *)
(* are generated for them agent by agent, possibly more than once and while  *)
(* another call serves, the server binds, serves requests that are counted,  *)
(* and shuts down.                                                           *)
EXTENDS Naturals, FiniteSets, Sequences, TLC

CONSTANTS
    Clients,        \* requests under way at once
    Ids, Sorted,    \* agents, as a set and in the order of their names
    Groups,         \* what is registered: sequences of [id, valid, creates]
    Starters,       \* goroutines that call GenerateEndpoints and Start
    Budgets         \* bounds: [registers, generates, requests]

VARIABLES
    definitions,    \* AgentRegistry.definitions: id -> whether an agent can be created from it
    instances,      \* agents with an entry in AutoServer.agentInstances
    routes,         \* agents the router has endpoints for
    layers,         \* how often the middleware was applied to the router
    todo, stored,     \* starter -> agents it has yet to look at, and the one it has stored without routes
    started,        \* AutoServer.started
    starter,        \* starter -> where its call of GenerateEndpoints or Start is
    requestCount,   \* AutoServer.requestCount
    metrics,        \* AutoServer.agentMetrics: id -> [requests, errors]
    pc,             \* client -> its request
    left,           \* what is left of the budget
    served          \* ghost: id -> executions that ended, and that failed; requests received

vars == <<definitions, instances, routes, layers, todo, stored, started, starter, requestCount,
          metrics, pc, left, served>>
registry == <<definitions>>
router == <<instances, routes, layers, todo, stored>>
counters == <<requestCount, metrics, pc, served>>

Idle == [at |-> "idle"]
NoMetrics == [requests |-> 0, errors |-> 0]

Init ==
    /\ definitions = <<>> /\ instances = {} /\ routes = {} /\ layers = 0
    /\ todo = [s \in Starters |-> <<>>] /\ stored = [s \in Starters |-> {}]
    /\ started = FALSE /\ starter = [s \in Starters |-> "new"]
    /\ requestCount = 0 /\ metrics = [id \in Ids |-> NoMetrics] /\ pc = [c \in Clients |-> Idle]
    /\ left \in Budgets
    /\ served = [received |-> 0, ended |-> [id \in Ids |-> 0], failed |-> [id \in Ids |-> 0]]

-------------------------------------------------------------------------------
(* The registry. Added(group): its definitions are there.                    *)
Added(group) ==
    [id \in {group[i].id : i \in DOMAIN group} |->
        group[CHOOSE i \in DOMAIN group : group[i].id = id /\ \A j \in DOMAIN group : group[j].id = id => j <= i].creates]

Registrable(group, i) == group[i].id \notin DOMAIN definitions /\ group[i].valid

Registering(change) ==
    /\ left.registers > 0 /\ left' = [left EXCEPT !.registers = @ - 1]
    /\ change
    /\ UNCHANGED <<router, started, starter, counters>>

(* A name appears in one file and once, and the whole group is fine, or      *)
(* nothing is registered (LoadFromDirectory, RegisterDefinitions).           *)
RegisterDefinitions(group) ==
    Registering(definitions' =
        IF /\ \A i, j \in DOMAIN group : group[i].id = group[j].id => i = j
           /\ \A i \in DOMAIN group : Registrable(group, i)
        THEN Added(group) @@ definitions ELSE definitions)

(* The server's own loader takes the definitions of a file one by one and    *)
(* only logs those it cannot register.                                       *)
LoadAgentsFromConfig(group) ==
    Registering(definitions' = definitions @@ Added(SelectSeq(group, LAMBDA d : d.valid)))

(* A plugin's definitions replace those of the same name, up to the first    *)
(* invalid one, in an order that Go leaves open.                             *)
LoadFromPlugin(group) ==
    LET invalid == {i \in DOMAIN group : ~group[i].valid} IN
    \E taken \in SUBSET (DOMAIN group \ invalid) :
        /\ invalid = {} => taken = DOMAIN group
        /\ Registering(definitions' = [id \in {group[i].id : i \in taken} |->
                                          group[CHOOSE i \in taken : group[i].id = id].creates] @@ definitions)

-------------------------------------------------------------------------------
(* Endpoints. A call looks whether the server is started, applies the        *)
(* middleware and takes the names that are registered. Between the look and  *)
(* the mark of Start other calls may do the same and serve. (A name that is  *)
(* registered between the look and the list might as well have been before.) *)
Generating(s) == starter[s] \in {"alone", "generating"}

Begin(s, at) ==
    IF started THEN starter' = [starter EXCEPT ![s] = "refused"] /\ UNCHANGED router
    ELSE /\ starter' = [starter EXCEPT ![s] = at]
         /\ layers' = layers + 1
         /\ todo' = [todo EXCEPT ![s] = SelectSeq(Sorted, LAMBDA id : id \in DOMAIN definitions)]
         /\ UNCHANGED <<instances, routes, stored>>

(* A call before the one of Start. *)
GenerateEndpoints(s) ==
    /\ starter[s] = "new" /\ left.generates > 0 /\ left' = [left EXCEPT !.generates = @ - 1]
    /\ Begin(s, "alone")
    /\ UNCHANGED <<registry, started, counters>>

StartLooks(s) ==
    /\ starter[s] = "new" /\ Begin(s, "generating")
    /\ UNCHANGED <<registry, started, counters, left>>

(* generateAgentEndpoints: an agent that cannot be created is logged and     *)
(* skipped; one stored by an earlier call is replaced.                         *)
Creates(id) == IF definitions[id] THEN {id} ELSE {}

Bug_RoutesAll(id) == {id}

Routed(id) == Creates(id)

CreateAgent(s) ==
    /\ Generating(s) /\ todo[s] # <<>> /\ stored[s] = {}
    /\ instances' = instances \union Creates(Head(todo[s]))
    /\ stored' = [stored EXCEPT ![s] = Routed(Head(todo[s]))]
    /\ todo' = [todo EXCEPT ![s] = Tail(@)]
    /\ UNCHANGED <<registry, routes, layers, started, starter, counters, left>>

(* Its routes; they are there already if an earlier call stored it.            *)
RouteAgent(s) ==
    /\ Generating(s) /\ stored[s] # {}
    /\ routes' = routes \union stored[s] /\ stored' = [stored EXCEPT ![s] = {}]
    /\ UNCHANGED <<registry, instances, layers, todo, started, starter, counters, left>>

EndpointsGenerated(s) ==
    /\ Generating(s) /\ todo[s] = <<>> /\ stored[s] = {}
    /\ starter' = [starter EXCEPT ![s] = IF @ = "alone" THEN "new" ELSE "generated"]
    /\ UNCHANGED <<registry, router, started, counters, left>>

(* Start marks the server as started and binds; nothing unmarks it when the  *)
(* port is taken.                                                            *)
StartMarks(s) ==
    /\ starter[s] = "generated"
    /\ started' = TRUE /\ starter' = [starter EXCEPT ![s] = "binding"]
    /\ UNCHANGED <<registry, router, counters, left>>

Bind(s) ==
    /\ starter[s] = "binding"
    /\ starter' \in {[starter EXCEPT ![s] = result] : result \in {"refused"} \union
                        (IF \E t \in Starters : starter[t] = "serving" THEN {} ELSE {"serving"})}
    /\ UNCHANGED <<registry, router, started, counters, left>>

(* The context ends or the listener fails; Shutdown waits for requests, or   *)
(* thirty seconds.                                                           *)
Stop(s) ==
    /\ \/ starter[s] = "serving" /\ starter' = [starter EXCEPT ![s] = "stopping"]
       \/ starter[s] = "stopping" /\ (\A c \in Clients : pc[c] = Idle) /\ starter' = [starter EXCEPT ![s] = "stopped"]
       \/ starter[s] = "stopping" /\ starter' = [starter EXCEPT ![s] = "timedOut"]
    /\ UNCHANGED <<registry, router, started, counters, left>>

-------------------------------------------------------------------------------
(* Requests to execute an agent, at its own endpoint or at the one that       *)
(* streams. Each layer of middleware counts them.                            *)
Receive(c, id, streamed) ==
    /\ \E s \in Starters : starter[s] = "serving"
    /\ pc[c] = Idle /\ id \in routes /\ left.requests > 0
    /\ left' = [left EXCEPT !.requests = @ - 1]
    /\ requestCount' = requestCount + layers
    /\ pc' = [pc EXCEPT ![c] = [id |-> id, streamed |-> streamed, failed |-> id \in instances,
                               at |-> IF id \in instances THEN "executing" ELSE "notFound"]]
    /\ served' = [served EXCEPT !.received = @ + 1]
    /\ UNCHANGED <<registry, router, started, starter, metrics>>

(* A body that is not JSON, an agent that fails, or a response: the deferred *)
(* recordAgentExecution runs in every case.                                  *)
Executed(c) ==
    /\ pc[c].at = "executing" /\ ~pc[c].streamed
    /\ \E failed \in BOOLEAN :
          /\ pc' = [pc EXCEPT ![c].at = "record", ![c].failed = failed]
          /\ served' = [served EXCEPT !.ended[pc[c].id] = @ + 1,
                                      !.failed[pc[c].id] = @ + (IF failed THEN 1 ELSE 0)]
    /\ UNCHANGED <<registry, router, started, starter, requestCount, metrics, left>>

(* The streaming endpoint answers whatever comes of the agent, and does not   *)
(* record it.                                                                *)
Stream(c) ==
    /\ pc[c].at = "executing" /\ pc[c].streamed
    /\ pc' = [pc EXCEPT ![c].at = "done"]
    /\ UNCHANGED <<registry, router, started, starter, requestCount, metrics, left, served>>

Bug_ErrorsFirst == <<"errors", "requests">>

(* Counted one after the other, while others read.                           *)
Counting == <<"requests", "errors">>

Count(c, i, at) ==
    LET field == Counting[i] IN
    /\ metrics' = [metrics EXCEPT ![pc[c].id][field] =
                      @ + (IF field = "requests" \/ pc[c].failed THEN 1 ELSE 0)]
    /\ pc' = [pc EXCEPT ![c].at = at]

RecordAgentExecution(c) ==
    /\ \/ pc[c].at = "record" /\ Count(c, 1, "recordError")
       \/ pc[c].at = "recordError" /\ Count(c, 2, "done")
    /\ UNCHANGED <<registry, router, started, starter, requestCount, left, served>>

Respond(c) ==
    /\ pc[c].at \in {"done", "notFound"}
    /\ pc' = [pc EXCEPT ![c] = Idle]
    /\ UNCHANGED <<registry, router, started, starter, requestCount, metrics, left, served>>

Next ==
    \/ \E group \in Groups : RegisterDefinitions(group) \/ LoadAgentsFromConfig(group) \/ LoadFromPlugin(group)
    \/ \E s \in Starters : \/ GenerateEndpoints(s) \/ StartLooks(s)
                           \/ CreateAgent(s) \/ RouteAgent(s) \/ EndpointsGenerated(s)
                           \/ StartMarks(s) \/ Bind(s) \/ Stop(s)
    \/ \E c \in Clients, id \in Ids, streamed \in BOOLEAN : Receive(c, id, streamed)
    \/ \E c \in Clients : Executed(c) \/ Stream(c) \/ RecordAgentExecution(c) \/ Respond(c)

-------------------------------------------------------------------------------
(* However often endpoints are generated, also while requests are served, and *)
(* whatever fails, an agent that has a route has an instance, so no generated *)
(* endpoint answers "not found".                                             *)
RoutesHaveAgents ==
    /\ routes \subseteq instances
    /\ \A c \in Clients : pc[c].at # "notFound"

(* An agent's metrics: at no moment more errors than requests, and when no   *)
(* request is under way exactly the executions that ended, with those that   *)
(* failed for whatever reason: those that were not streamed.                 *)
AgentMetricsAddUp ==
    \A id \in Ids :
        /\ metrics[id].errors <= metrics[id].requests
        /\ (\A c \in Clients : pc[c] = Idle) =>
              metrics[id] = [requests |-> served.ended[id], errors |-> served.failed[id]]

(* What the server offers is there, and what it reports happened.            *)
EndpointsAreTrue == RoutesHaveAgents /\ AgentMetricsAddUp
===============================================================================
