------------------------------ MODULE MCServices -------------------------------
(* A deployment on small instances: a durable thread over a branching graph, *)
(* the control plane, the generated server and the schemas its agents have,  *)
(* the multi-agent manager, the commands that follow a file, those that      *)
(* check files and those that write them. They share no variable: "part"     *)
(* says which of them a behaviour is about.                                  *)
EXTENDS DurableThread, ManagerLifecycle, ManagerRequests, ProjectFiles, ControlPlane, Integers, TLC

VARIABLES part,
          definitions, instances, routes, layers, todo, stored, started, starter, requestCount,
          metrics, handler, budget, served,
          mode, watch, file, edits, events, watcher, timer, read, change, stage, inHand, loaded,
          interrupted, missed,
          agentType, executing, schema, value, errors, given, result, reply

autoVars == <<definitions, instances, routes, layers, todo, stored, started, starter, requestCount,
              metrics, handler, budget, served>>
schemaVars == <<agentType, executing, schema, value, errors, given, result, reply>>
serverVars == <<controlVars, autoVars, schemaVars>>
managerVars == <<lifecycleVars, requestsVars, routingVars>>
commandVars == <<mode, watch, file, edits, events, watcher, timer, read, change, stage, inHand, loaded,
                 interrupted, missed>>
fileVars == <<checksVars, projectVars>>

Base(nodes, ends, edges) ==
    [nodes |-> nodes, start |-> "a", ends |-> ends, edges |-> edges, tables |-> <<>>, broken |-> FALSE]

(* a, then b if its condition says so or c, then d, the end.                 *)
Diamond ==
    Base({"a", "b", "c", "d"}, {"d"},
         <<Edge("a", "b", TRUE), Edge("a", "c", FALSE), Edge("b", "d", FALSE), Edge("c", "d", FALSE)>>)
DiamondNames == {"a", "b", "c", "d"}

-------------------------------------------------------------------------------
(* The manager: rate limits of one and two requests, restarts between them;  *)
(* routing rules of every kind, of which some name no agent or are refused.  *)
MCRules == [global |-> [requests |-> 2, burst |-> 0], perIP |-> [requests |-> 1, burst |-> 0],
            perAgent |-> ("a" :> [requests |-> 1, burst |-> 0])]
Taken(kind, agent, skips) == [kind |-> kind, agent |-> agent, skips |-> skips]
ToA == Taken("rule", "a", FALSE)
ToGone == Taken("default", "gone", FALSE)
MCPlans ==
    {[requests |-> 2, ticks |-> 0, restarts |-> 1, routes |-> {ToA}, outcomes |-> {"fails", "succeeds"}],
     [requests |-> 1, ticks |-> 0, restarts |-> 2, routes |-> {ToA}, outcomes |-> {"fails"}],
     [requests |-> 2, ticks |-> 0, restarts |-> 0, routes |-> {ToA, ToGone, Taken("management", None, FALSE), Taken("management", None, TRUE)},
      outcomes |-> {"badRequest", "succeeds"}],
     [requests |-> 3, ticks |-> 1, restarts |-> 0, routes |-> {ToGone}, outcomes |-> {"succeeds"}],
     [requests |-> 2, ticks |-> 1, restarts |-> 0, routes |-> {ToA, Taken("management", None, FALSE)}, outcomes |-> {"succeeds"}],
     [requests |-> 2, ticks |-> 0, restarts |-> 0, routes |-> {ToA, Taken("rule", "b", TRUE)}, outcomes |-> {"succeeds"}]}

Rule(id, pattern, match, agent, priority, method, conditions) ==
    [id |-> id, pattern |-> pattern, match |-> match, agent |-> agent, priority |-> priority,
     method |-> method, conditions |-> conditions]
HeaderIsX == [type |-> "header", key |-> "h", value |-> <<"x">>, operator |-> ""]
OddBody == [type |-> "body", key |-> "", value |-> <<"x">>, operator |-> ""]
RuleChoices ==
    {Rule(1, <<"/", "x">>, "", "a", 0, "", <<>>), Rule(2, <<"/", "x">>, "prefix", "b", 0, "", <<>>),
     Rule(0, <<"y">>, "suffix", "b", 1, "", <<>>), Rule(0, <<"x">>, "contains", "a", 1, "", <<>>),
     Rule(2, <<"r">>, "regex", "b", 1, "GET", <<>>), Rule(3, <<"/", "x", "/", "y">>, "", "a", 0, "", <<HeaderIsX>>),
     Rule(3, <<"/", "variable">>, "", "a", 0, "", <<>>), Rule(0, <<"x", "variable">>, "", "a", 0, "", <<>>),
     Rule(1, <<"/", "x", "brace">>, "", "b", 0, "", <<>>),
     Rule(3, <<"x">>, "", "gone", 0, "", <<>>), Rule(1, <<"h", ":", "x">>, "", "b", 0, "", <<OddBody>>),
     Rule(1, <<"h", ":", "x">>, "prefix", "b", 0, "", <<>>)}
MCConfigs ==
    {[type |-> type, default |-> default, rules |-> rules,
      agents |-> ("a" :> [complete |-> TRUE, metadata |-> <<>>]) @@ ("b" :> [complete |-> TRUE, metadata |-> m]),
      deployment |-> [replicas |-> 1, ports |-> ports, healthSettings |-> <<0, 5>>,
                      agentSpecific |-> {"a"}, scaling |-> <<1, 2>>]] :
        type \in {"", "header", "host"}, default \in {None, "b"},
        rules \in {<<r, s>> : r, s \in RuleChoices},
        m \in {<<>>, "disabled" :> "true", ("disabled" :> "maybe") @@ ("enabled" :> "true")},
        ports \in {<<>>, <<[port |-> 8080, agent |-> "a"], [port |-> 8081, agent |-> "b"], [port |-> 8082, agent |-> "a"]>>}}
RoutedRequests ==
    {[path |-> path, method |-> method, host |-> <<"x", "y">>, headers |-> ("h" :> <<"x">>), query |-> <<>>, ip |-> <<"i">>] :
        path \in {<<"/", "x">>, <<"/", "x", "/", "y">>, <<"/", "m">>}, method \in {"GET", "POST"}}

MCBudgets == {<<3, 0>>, <<2, 2>>}
MCManagement == {<<"GET", <<"/", "m">>>>}
MCRegexes == <<"r">> :> {<<"/", "x">>, <<"/", "x", "/", "y">>}

-------------------------------------------------------------------------------
(* The servers: pipelines whose ids and node ids may have to be trimmed, an  *)
(* application graph of the same name, groups of definitions that are not    *)
(* all valid.                                                                *)
Node(id, agent) == [id |-> id, agent |-> agent]
Line(nodes) == [id |-> <<"p">>, name |-> <<"n">>, nodes |-> nodes, input |-> <<>>, output |-> <<>>]
Field(type, required) == [type |-> type, required |-> required]
Two == Line(<<Node(<<"m">>, <<"a">>), Node(<<"n">>, <<" ", "b">>)>>)
MCDefinitions ==
    {Two, [Two EXCEPT !.id = <<>>],
     [Line(<<Node(<<"m">>, <<"b">>)>>) EXCEPT !.input = <<"input">> :> Field("string", TRUE), !.output = <<"t">> :> Field("number", TRUE)],
     Line(<<Node(<<"m">>, <<"a">>), Node(<<" ", "n">>, <<"a">>)>>)}
Body(input, state) == [input |-> input, state |-> state]
MCRequests == {Body(<<"x">>, <<>>), Body(<<>>, <<"t">> :> [kind |-> "number", text |-> <<"5">>])}
MCAppGraph == [owner |-> "app", nodes |-> <<Node(<<"f">>, <<>>)>>, input |-> <<>>, output |-> <<>>]
Plan(clients, number, ops, sockets, kinds, stops) ==
    [clients |-> clients, calls |-> number, ops |-> ops, sockets |-> sockets, kinds |-> kinds, stops |-> stops]
One == {CHOOSE c \in Clients : TRUE}
MCControlBudgets ==
    {Plan(Clients, 3, {"pipelines", "register"}, 0, {}, 0), Plan(One, 3, {"pipelines", "execute", "reload"}, 0, {}, 0),
     Plan(Clients, 2, {"execute", "interrupt"}, 0, {}, 1), Plan(Clients, 2, {"call", "agents"}, 0, {}, 0),
     Plan({}, 1, {"socket"}, 2, {"graph"}, 1), Plan({}, 2, {"socket", "interrupt"}, 1, {"graph", "agent"}, 0)}

MCReloads ==
    {<<[id |-> <<"a">>, valid |-> TRUE]>>, <<[id |-> <<"a">>, valid |-> TRUE], [id |-> <<"a">>, valid |-> TRUE]>>}
MCAgentNames == {<<"a">>, <<"b">>}
MCPaths == {<<"p">>, <<"a">>}
MCAppId == <<"p">>

Agent(id, valid, creates) == [id |-> id, valid |-> valid, creates |-> creates]
Auto == INSTANCE AutoServing WITH Ids <- {"a", "b"}, Sorted <- <<"a", "b">>, Starters <- Clients, pc <- handler, left <- budget,
    Groups <- {<<Agent("a", TRUE, FALSE), Agent("b", TRUE, TRUE)>>, <<Agent("b", TRUE, TRUE), Agent("a", FALSE, TRUE)>>},
    Budgets <- {[registers |-> 2, generates |-> 1, requests |-> 1], [registers |-> 1, generates |-> 0, requests |-> 2]}

(* Values of every kind, bare, in arrays and as fields of bodies and outputs; *)
(* schemas with every keyword, also on a type it is not about.               *)
Word(text) == [kind |-> "string", text |-> text]
Number(halves, text) == [kind |-> "number", text |-> text, halves |-> halves]
Yes == [kind |-> "boolean", text |-> <<"t">>]
ArrayOf(items) == [kind |-> "array", text |-> <<"[">>, items |-> items]
Object(fields) == [kind |-> "object", text |-> <<"{">>, fields |-> fields]
Scalars == {Word(<<>>), Word(<<"1">>), Word(<<"a", "b", "c">>), Word(<<"wide", "wide">>), Number(2, <<"1">>), Number(3, <<"1", "h">>), Yes,
            [kind |-> "null", text |-> <<"n">>]}
Roles == {ArrayOf(<<Object("role" :> x)>>) : x \in Scalars}
Greets == "message" :> Word(<<"1">>)
Responds == "response" :> Word(<<"1">>)
MCValues ==
    Scalars \union {ArrayOf(<<>>), Object(<<>>)} \union {ArrayOf(<<x>>) : x \in Scalars} \union Roles
    \union {Object(k :> x) : k \in {"message", "input", "response"}, x \in Scalars}
    \union {Object(Greets @@ (k :> x)) : k \in {"input", "conversation_history"}, x \in Scalars \union Roles}
    \union {Object(Responds @@ ("tool_calls" :> x)) : x \in {Yes, ArrayOf(<<Yes>>), ArrayOf(<<Object(<<>>)>>)}}

Typed(type) == "type" :> type
SimpleSchemas ==
    {Typed(t) : t \in {"object", "array", "string", "number", "integer", "boolean", "null"}}
    \union {<<>>, "enum" :> {Word(<<"1">>)}, Typed("string") @@ ("minLength" :> 3), "maximum" :> 1,
            Typed("string") @@ ("maxLength" :> 2) @@ ("enum" :> {Word(<<>>), Word(<<"a", "b", "c">>)}),
            Typed("integer") @@ ("minimum" :> 1), Typed("number") @@ ("maximum" :> 1)}
MCSchemas ==
    SimpleSchemas \union {Typed("array") @@ ("items" :> s) : s \in SimpleSchemas}
    \union {("properties" :> ("message" :> s)) @@ ("additionalProperties" :> more) @@ type :
                s \in SimpleSchemas, more \in BOOLEAN, type \in {<<>>, Typed("object")}}
    \union {Typed("object") @@ ("additionalProperties" :> FALSE), Typed("object") @@ ("required" :> {"message", "input"})}

Schemas == INSTANCE AgentSchemas WITH handler <- executing, answer <- reply, Nothing <- None, Schemas <- MCSchemas,
    Values <- MCValues, AgentTypes <- {"chat", "react", "tool"},
    Results <- {[structured |-> s, metadata |-> m, text |-> Word(<<"1">>)] :
                   s \in {None, Yes, Object(Responds), Object("response" :> Yes), Object(Responds @@ ("tool_calls" :> ArrayOf(<<Yes>>)))},
                   m \in {None, Object(<<>>)}}

-------------------------------------------------------------------------------
(* Files of agents: a has one setting that a usual agent has not, or no      *)
(* value at all; b is a usual one. Some are read after another file.         *)
Says(text) == [kind |-> "text", text |-> text]
Counts(tenths) == [kind |-> "number", tenths |-> tenths]
NoValue == [kind |-> "null"]
Lists(items) == [kind |-> "list", items |-> items]
Chat == ("name" :> Says("A")) @@ ("type" :> Says("chat")) @@ ("model" :> Says("m"))
        @@ ("provider" :> Says("openai")) @@ ("system_prompt" :> Says("p"))
Block(setting) == [kind |-> "map", fields |-> setting @@ Chat]
Usual == Block("name" :> Says("B"))
Settings ==
    {<<>>, "name" :> NoValue, "type" :> Says("reactt"), "type" :> NoValue, "id" :> Says("b"), "provider" :> Says("x"),
     "temperature" :> Counts(0), "temperature" :> Counts(21), "temperature" :> Says("hot"),
     "max_tokens" :> Counts(1000), "max_tokens" :> Counts(5005), "max_tokens" :> NoValue, "maxTokens" :> Counts(500),
     "max_iterations" :> Counts(-10), "maxiterations" :> Counts(1010), "interrupt_on" :> Lists({}),
     "tools" :> Lists({Says("time"), Says("x")}),
     "tools" :> Lists({Says("time"), [kind |-> "map", text |-> "x", enabled |-> FALSE]}),
     "metadata" :> [kind |-> "map", entries |-> "disabled" :> "true"]}
Blocks == {Block(s) : s \in Settings} \union {NoValue}
Document(shape, blocks) == Unrouted(shape, "n", blocks, NoDeployment)
PathRule(pattern, match, agent) == Rule(0, pattern, match, agent, 0, "", <<>>)
Sections ==
    {<<None, <<PathRule(<<"/", "x">>, "", "a"), PathRule(<<"/", "y">>, "", "gone")>>>>, <<"b", <<PathRule(<<"/", "x">>, "", "a")>>>>,
     <<"b", <<PathRule(<<"/", "y">>, "", "b"), PathRule(<<"/", "y">>, "", "a")>>>>,
     <<"b", <<PathRule(<<"/", "x">>, "prefix", "b"), PathRule(<<"/", "x">>, "", "a")>>>>,
     <<"b", <<PathRule(<<"/", "variable">>, "", "b"), PathRule(<<"/", "y">>, "", "a")>>>>, <<"b", <<PathRule(<<"x">>, "", "a")>>>>}
WithRouting(doc, section) == [doc EXCEPT !.routed = TRUE, !.default = section[1], !.rules = section[2]]
Fleets == {Document("agents", ("a" :> block) @@ ("b" :> Usual)) : block \in Blocks}
Singles == {Document("single", "" :> block) : block \in Blocks}
Another == Document("agents", "c" :> Usual)
MCDirectories ==
    {<<>>, <<Another, Another>>} \union {<<Document(shape, <<>>)>> : shape \in {"agents", "broken"}}
    \union {<<doc>> : doc \in Fleets \union Singles} \union {<<WithRouting(doc, s)>> : doc \in Fleets, s \in Sections}
    \union {<<Another, doc>> : doc \in Fleets \union Singles}

(* Projects that begin empty and those with a fleet: one has a health check  *)
(* of its own and half a token, one an id that cannot be the name of a file. *)
MCAgentIds == <<"agent-1", "agent-2", "agent-3", "agent-4", "agent-5", "agent-6">>
WithCheck(ids, blocks) ==
    [WithRouting(Document("agents", blocks), <<"b", <<PathRule(<<"/", "x">>, "", "a")>>>>)
        EXCEPT !.deployment.agentSpecific = ids]
OwnFleet == WithCheck({"a"}, ("a" :> Block("max_tokens" :> Counts(5005))) @@ ("b" :> Usual))
OddFleet == WithCheck({}, ("a" :> Usual) @@ ("b" :> Usual) @@ ("../x" :> Usual))
Simple(op) == [op |-> op]
New(template, force) == [op |-> "init", template |-> template, force |-> force]
NewFleet(template, count, routing) == [op |-> "multi init", template |-> template, count |-> count, routing |-> routing]
Generate(multi) == [op |-> "generate docker", multi |-> multi]
Project(files, first, second) ==
    [disk |-> files, errands |-> [s \in Shells |-> IF s = CHOOSE t \in Shells : TRUE THEN first ELSE second]]
Fleet(doc) == FleetFile :> Holds(doc)
MCProjects ==
    {Project(<<>>, <<New("basic", FALSE), Simple("deploy docker")>>, <<Simple("docker build")>>),
     Project(<<>>, <<New("rag", FALSE)>>, <<New("advanced", TRUE)>>),
     Project(<<>>, <<NewFleet("basic", 2, "path"), Generate(TRUE)>>, <<>>),
     Project(<<>>, <<NewFleet("rag", 9, "host")>>, <<>>),
     Project(<<>>, <<NewFleet("microservices", 2, "header"), Simple("deploy fleet to k8s")>>, <<>>),
     Project(<<>>, <<NewFleet("workflow", 2, "query")>>, <<Simple("generate k8s")>>),
     Project(Fleet(OwnFleet), <<Generate(TRUE)>>, <<Generate(FALSE)>>),
     Project(Fleet(OwnFleet), <<Simple("deploy fleet to docker"), Simple("generate k8s")>>, <<>>),
     Project(Fleet(OddFleet), <<Generate(TRUE), Simple("deploy fleet to docker")>>, <<Simple("deploy fleet to k8s")>>)}

-------------------------------------------------------------------------------
(* Two files that load and one that does not.                                *)
Command == INSTANCE ServeCommand WITH Modes <- {"serve", "auto", "status"}, Contents <- {"x", "y", "bad"},
    Loadable <- {"x", "y"}, MaxEdits <- 3, at <- stage, agents <- loaded, cancelled <- interrupted

(* What is not the part of a behaviour stays as it began.                    *)
MCInit ==
    /\ part \in {"thread", "control", "auto", "lifecycle", "requests", "routing", "command", "schemas", "checks", "projects"}
    /\ Init
    /\ IF part = "control" THEN ControlInit ELSE ControlInit /\ graphs = <<>> /\ asks.sockets = 1
    /\ IF part = "auto" THEN Auto!Init ELSE Auto!Init /\ budget.requests = 1
    /\ IF part = "lifecycle" THEN LifecycleInit ELSE LifecycleInit /\ left = <<2, 2>>
    /\ IF part = "requests" THEN RequestsInit ELSE RequestsInit /\ plan.restarts = 2
    /\ IF part = "routing" THEN RoutingInit
       ELSE config = (CHOOSE c \in MCConfigs : TRUE) /\ phase = "new" /\ request = Nothing
    /\ IF part = "schemas" THEN Schemas!Init ELSE Schemas!Init /\ agentType = "chat"
    /\ IF part = "checks" THEN ChecksInit ELSE ChecksInit /\ directory = <<>>
    /\ IF part = "projects" THEN ProjectInit ELSE disk = <<>> /\ shells = [s \in Shells |-> Fresh(<<>>)]
    /\ IF part = "command" THEN Command!Init ELSE Command!Init /\ mode = "auto" /\ ~watch /\ file = "x"

ServerNext ==
    \/ part = "control" /\ ControlNext /\ UNCHANGED <<autoVars, schemaVars>>
    \/ part = "auto" /\ Auto!Next /\ UNCHANGED <<controlVars, schemaVars>>
    \/ part = "schemas" /\ Schemas!Next /\ UNCHANGED <<controlVars, autoVars>>

ManagerNext ==
    \/ part = "lifecycle" /\ LifecycleNext /\ UNCHANGED <<requestsVars, routingVars>>
    \/ part = "requests" /\ RequestsNext /\ UNCHANGED <<lifecycleVars, routingVars>>
    \/ part = "routing" /\ RoutingNext /\ UNCHANGED <<lifecycleVars, requestsVars>>

FilesNext ==
    \/ part = "checks" /\ ChecksNext /\ UNCHANGED projectVars
    \/ part = "projects" /\ ProjectNext /\ UNCHANGED checksVars

MCNext ==
    /\ UNCHANGED part
    /\ \/ part = "thread" /\ Next /\ UNCHANGED <<serverVars, managerVars, commandVars, fileVars>>
       \/ ServerNext /\ UNCHANGED <<vars, managerVars, commandVars, fileVars>>
       \/ ManagerNext /\ UNCHANGED <<vars, serverVars, commandVars, fileVars>>
       \/ FilesNext /\ UNCHANGED <<vars, serverVars, managerVars, commandVars>>
       \/ part = "command" /\ Command!Next /\ UNCHANGED <<vars, serverVars, managerVars, fileVars>>

(* The fairness of DurableThread!Spec, ControlPlane, ManagerLifecycle and    *)
(* ServeCommand, each in its part.                                           *)
MCSpec ==
    /\ MCInit /\ [][MCNext]_<<part, vars, serverVars, managerVars, commandVars, fileVars>>
    /\ WF_vars(part = "thread" /\ Run)
    /\ \A a \in Clients \union Sockets : WF_controlVars(part = "control" /\ Unwinding(a))
    /\ \A c \in Clients : /\ WF_lifecycleVars(part = "lifecycle" /\ CallerStep(c))
                          /\ WF_lifecycleVars(part = "lifecycle" /\ Expire(c))
    /\ WF_lifecycleVars(part = "lifecycle" /\ \E k \in checks : CheckStep(k))
    /\ WF_lifecycleVars(part = "lifecycle" /\ \E n \in DOMAIN waiters : Woken(n))
    /\ WF_commandVars(part = "command" /\ Command!CommandStep)
    /\ WF_commandVars(part = "command" /\ Command!SeeCancel)
    /\ WF_commandVars(part = "command" /\ Command!WatcherStep)
    /\ WF_commandVars(part = "command" /\ Command!Expire)
    /\ WF_commandVars(part = "command" /\ Command!StopWatching)

(* A restarted thread ends, and calls of the manager return.                 *)
ServicesReturn == <>[](part = "thread" => Finished) /\ LifecycleCallsReturn
(* An endpoint has its agent, metrics tell what happened, here and in the    *)
(* multi-agent manager, and schemas what agents take and give.               *)
EndpointsAreTrue ==
    /\ part = "auto" => Auto!EndpointsAreTrue
    /\ part = "requests" => MetricsAddUp
    /\ part = "schemas" => Schemas!SchemasAreHonest
(* What is served is the file, and commands return. *)
FollowsFile == <>[](part = "command" => Command!FileFollowed)
===============================================================================
