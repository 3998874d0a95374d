----------------------------- MODULE ControlPlane -----------------------------
(* The HTTP and WebSocket API of pkg/server/server.go over the registries of *)
(* agents and graphs: clients create, replace and delete agents and Studio's *)
(* pipelines, run graphs and agents, interrupt them, open sockets that run   *)
(* and watch graphs, and leave at any moment; the application registers      *)
(* graphs of its own, and the server is stopped. A run goes through the      *)
(* nodes of a line of them: the engine's own behaviour is in GraphEngine.    *)
EXTENDS Sequences, Integers, FiniteSets

CONSTANTS
    Clients,        \* HTTP clients, one request at a time each
    Sockets,        \* WebSocket connections, one run at a time each (a bound)
    AgentNames,     \* agent names clients use
    Paths,          \* names of graphs and agents in the paths of requests
    Definitions,    \* pipeline definitions clients post
    Reloads,        \* agent configurations a reload brings: sequences of [id, valid]
    Bodies,         \* bodies of execute requests
    AppGraph,       \* the graph the application registers
    AppId,          \* ... and under which name
    ControlBudgets         \* bounds: [clients, calls, ops, sockets, kinds, stops] who may do what

ASSUME ControlAssumption ==
    /\ Clients \cap Sockets = {}
    /\ AppGraph.owner = "app"
    /\ \A def \in Definitions : def.nodes \in Seq([id : Seq(STRING), agent : Seq(STRING)])

VARIABLES
    agents,         \* AgentManager.agents: name -> instance
    graphs,         \* GraphManager.graphs: name -> [obj, graph]
    order,          \* GraphManager.order
    made,           \* agents, graphs and requests so far, which name the new ones
    asking,         \* client -> the request it waits for
    runs,           \* client or socket -> the run on its behalf
    socket,         \* socket -> [at, id, live, cancelled]
    wsConnections,  \* name -> sockets registered for it
    server,         \* "serving", "sweeping", "shutting", "stopped", "gaveUp"
    asks,           \* what is left of the budget
    late,           \* ghost: sockets registered after Stop swept them
    answer          \* the last answer to a client that ran a graph or an agent, and the run

controlVars == <<agents, graphs, order, made, asking, runs, socket, wsConnections, server, asks, late, answer>>
registries == <<agents, graphs, order>>
connections == <<socket, wsConnections, server, late>>

(* An entry of a map, set and deleted.                                       *)
With(f, key, value) == [k \in DOMAIN f \union {key} |-> IF k = key THEN value ELSE f[k]]
Without(f, key) == [k \in DOMAIN f \ {key} |-> f[k]]

-------------------------------------------------------------------------------
(* Studio's pipelines (graph_api.go, schema_validation.go): what a           *)
(* definition must be, the graph it is compiled to, and the schemas of what  *)
(* flows in and out. A name is a sequence of letters, a value the kind it    *)
(* has in JSON with its text, and a state a function from names to values.   *)
Blank == " "
Trim(name) == SelectSeq(name, LAMBDA letter : letter # Blank)
Text(words) == [kind |-> "string", text |-> words]
Input == <<"input">>
OutputOf(node) == <<"agent", ".">> \o node \o <<".", "output">>
LastOutput == <<"last_output">>

Types == {"", "any", "string", "number", "boolean", "object", "array"}

ValidDefinition(schema) ==
    \A name \in DOMAIN schema : Trim(name) # <<>> /\ schema[name].type \in Types

Matches(value, type) == type \in {"", "any", value.kind}

ValidateValues(schema, values) ==
    \A name \in DOMAIN schema :
        IF name \in DOMAIN values /\ values[name].kind # "null"
        THEN Matches(values[name], schema[name].type)
        ELSE ~schema[name].required

(* A request: its input, which is text, and fields of the state.             *)
Checked(request) == With(request.state, Input, Text(request.input))
BuildInitialState(request) ==
    IF request.input = <<>> THEN request.state ELSE Checked(request)

(* The text of a value, "" where there is none.                              *)
PipelineInput(state) ==
    IF Input \in DOMAIN state /\ state[Input].kind # "null" THEN state[Input].text ELSE <<>>

Bug_InputStays(node, state, said) ==
    With(With(state, OutputOf(node), Text(said)), LastOutput, Text(said))

(* What a node writes when its agent answered.                               *)
NodeUpdate(node, state, said) ==
    With(With(With(state, OutputOf(node), Text(said)), LastOutput, Text(said)), Input, Text(said))

(* The nodes are named and linked after trimming, but the edges, the start   *)
(* and the end are set to the names as given: a padded one fails to validate.*)
ValidNode(nodes, i, known) ==
    /\ Trim(nodes[i].id) = nodes[i].id /\ nodes[i].id # <<>>
    /\ Trim(nodes[i].agent) \in known \ {<<>>}
    /\ \A j \in 1 .. i - 1 : nodes[j].id # nodes[i].id

Buildable(def, known) ==
    /\ Trim(def.id) # <<>> /\ Trim(def.name) # <<>> /\ def.nodes # <<>>
    /\ ValidDefinition(def.input) /\ ValidDefinition(def.output)
    /\ \A i \in DOMAIN def.nodes : ValidNode(def.nodes, i, known)

BuildAgentPipeline(def) ==
    [owner |-> "studio", input |-> def.input, output |-> def.output,
     nodes |-> [i \in DOMAIN def.nodes |-> [id |-> def.nodes[i].id, agent |-> Trim(def.nodes[i].agent)]]]

-------------------------------------------------------------------------------
NoRun == [at |-> "none"]
NoRequest == [at |-> "idle"]
Unused == [at |-> "unused", live |-> FALSE, cancelled |-> FALSE]
Ended(r) == r.at \in {"none", "completed", "failed", "interrupted", "canceled"}
ControlInit ==
    /\ agents = [a \in AgentNames |-> 0]
    /\ graphs \in {<<>>, With(<<>>, AppId, [obj |-> <<0>>, graph |-> AppGraph])}
    /\ order = IF graphs = <<>> THEN <<>> ELSE <<AppId>>
    /\ made = 0 /\ asking = [c \in Clients |-> NoRequest]
    /\ runs = [s \in Clients \union Sockets |-> NoRun]
    /\ socket = [s \in Sockets |-> Unused] /\ wsConnections = <<>> /\ late = {}
    /\ server = "serving" /\ asks \in ControlBudgets
    /\ answer = NoRun

(* The server takes requests until Shutdown closes its listeners.            *)
Spend(op) ==
    /\ asks.calls > 0 /\ op \in asks.ops
    /\ asks' = [asks EXCEPT !.calls = @ - 1] /\ made' = made + 1

Call(c, op) ==
    /\ asking[c] = NoRequest /\ c \in asks.clients /\ Spend(op) /\ server \in {"serving", "sweeping"}

-------------------------------------------------------------------------------
(* Registries. An agent created again replaces the one of that name.         *)
CreateAgent(c) ==
    /\ Call(c, "agents")
    /\ \E a \in AgentNames : agents' = With(agents, a, made')
    /\ UNCHANGED <<graphs, order, asking, runs, connections, answer>>

DeleteAgent(c) ==
    /\ Call(c, "agents")
    /\ \E a \in DOMAIN agents : agents' = Without(agents, a)
    /\ UNCHANGED <<graphs, order, asking, runs, connections, answer>>

Reloadable(configs) ==
    \A i \in DOMAIN configs : /\ configs[i].valid /\ configs[i].id # <<>>
                              /\ \A j \in 1 .. i - 1 : configs[j].id # configs[i].id

ReplaceAgents ==
    /\ Spend("reload")
    /\ \E configs \in Reloads :
          agents' = IF Reloadable(configs)
                    THEN [a \in {configs[i].id : i \in DOMAIN configs} |-> made'] ELSE agents
    /\ UNCHANGED <<graphs, order, asking, runs, connections, answer>>

Register(id, object) ==
    /\ graphs' = With(graphs, id, object)
    /\ order' = IF id \in DOMAIN graphs THEN order ELSE Append(order, id)

AppRegisters ==
    /\ Spend("register")
    /\ Register(AppId, [obj |-> <<made'>>, graph |-> AppGraph])
    /\ UNCHANGED <<agents, asking, runs, connections, answer>>

(* The agents of the nodes are looked up one by one; the graph keeps their   *)
(* names only. A definition is registered under its name as given.           *)
CreatePipeline(c) ==
    /\ Call(c, "pipelines")
    /\ \E def \in Definitions :
          asking' = [asking EXCEPT ![c] = IF Buildable(def, DOMAIN agents)
                                  THEN [at |-> "register", id |-> def.id, graph |-> BuildAgentPipeline(def), obj |-> <<made'>>]
                                  ELSE NoRequest]
    /\ UNCHANGED <<registries, runs, connections, answer>>

RegisterPipeline(c) ==
    /\ asking[c].at = "register"
    /\ Register(asking[c].id, [obj |-> asking[c].obj, graph |-> asking[c].graph])
    /\ asking' = [asking EXCEPT ![c] = NoRequest]
    /\ UNCHANGED <<agents, made, runs, connections, asks, answer>>

DeletePipeline(c) ==
    /\ Call(c, "pipelines")
    /\ \E id \in Paths :
          asking' = [asking EXCEPT ![c] = IF id \in DOMAIN graphs /\ graphs[id].graph.owner = "studio"
                                  THEN [at |-> "unregister", id |-> id] ELSE NoRequest]
    /\ UNCHANGED <<registries, runs, connections, answer>>

Bug_OrderStays(id) == order

OrderWithout(id) ==
    IF \A i \in DOMAIN order : order[i] # id THEN order
    ELSE LET i == CHOOSE i \in DOMAIN order : order[i] = id /\ \A j \in 1 .. i - 1 : order[j] # id
         IN  SubSeq(order, 1, i - 1) \o SubSeq(order, i + 1, Len(order))

UnregisterPipeline(c) ==
    /\ asking[c].at = "unregister"
    /\ graphs' = Without(graphs, asking[c].id) /\ order' = OrderWithout(asking[c].id)
    /\ asking' = [asking EXCEPT ![c] = NoRequest]
    /\ UNCHANGED <<agents, made, runs, connections, asks, answer>>

(* Registered graphs win, then the agent's own graph, one node that calls no *)
(* agent by name.                                                            *)
OwnGraph == [owner |-> "agent", nodes |-> <<[id |-> <<"chat">>, agent |-> <<>>]>>, input |-> <<>>, output |-> <<>>]
LookupGraph(id) ==
    IF id \in DOMAIN graphs THEN {graphs[id]}
    ELSE IF id \in DOMAIN agents THEN {[obj |-> Append(id, agents[id]), graph |-> OwnGraph]} ELSE {}

-------------------------------------------------------------------------------
(* Runs. Execute of an agent is a run of one node whose instance is known.   *)
NewRun(found, request, at) ==
    [at |-> at, obj |-> found.obj, graph |-> found.graph, state |-> BuildInitialState(request),
     given |-> BuildInitialState(request), next |-> 1, log |-> <<>>]
AgentCall(a) ==
    [obj |-> <<made'>>, graph |-> [OwnGraph EXCEPT !.owner = "call", !.nodes = <<[id |-> <<"chat">>, agent |-> a]>>]]

ExecuteGraph(c) ==
    /\ Call(c, "execute")
    /\ \E id \in Paths, request \in Bodies :
          \E found \in LookupGraph(id) :
             IF ValidateValues(found.graph.input, Checked(request)) \/ found.graph.owner # "studio"
             THEN /\ runs' = [runs EXCEPT ![c] = NewRun(found, request, "ready")]
                  /\ asking' = [asking EXCEPT ![c] = [at |-> "running", live |-> TRUE]]
             ELSE UNCHANGED <<runs, asking>>
    /\ UNCHANGED <<registries, connections, answer>>

ExecuteAgent(c) ==
    /\ Call(c, "call")
    /\ \E a \in DOMAIN agents, request \in Bodies :
          runs' = [runs EXCEPT ![c] = NewRun(AgentCall(a), [request EXCEPT !.state = <<>>], "calling")]
    /\ asking' = [asking EXCEPT ![c] = [at |-> "running", live |-> TRUE]]
    /\ UNCHANGED <<registries, connections, answer>>

(* Whether the context of a run has ended: the client of the request has     *)
(* left, its five minutes for an agent are over, or the socket's handler     *)
(* canceled it.                                                              *)
ContextEnded(s) ==
    IF s \in Clients THEN ~asking[s].live ELSE socket[s].cancelled

Advance(s, r) == runs' = [runs EXCEPT ![s] = r] /\ UNCHANGED <<registries, made, asking, connections, asks, answer>>

(* A node of a pipeline asks for its agent when it runs.                     *)
StartNode(s) ==
    LET r == runs[s]
        node == r.graph.nodes[r.next] IN
    /\ r.at = "ready" /\ ~ContextEnded(s)
    /\ Advance(s, [r EXCEPT !.at = IF r.graph.owner = "studio" /\ node.agent \notin DOMAIN agents
                                   THEN "failed" ELSE "calling"])

AfterNode(r, state, entry) ==
    [r EXCEPT !.at = IF r.next = Len(r.graph.nodes) THEN "completed" ELSE "ready",
              !.next = @ + 1, !.state = state, !.log = Append(@, entry)]

(* The agent answers, here with the text it was given and its own name, or   *)
(* fails; an application's node may also pause the run.                      *)
NodeEnds(s) ==
    LET r == runs[s]
        node == r.graph.nodes[r.next]
        asked == PipelineInput(r.state)
        reply == asked \o node.agent IN
    /\ r.at = "calling"
    /\ \/ /\ r.graph.owner = "studio"
          /\ Advance(s, AfterNode(r, NodeUpdate(node.id, r.state, reply),
                                  [node |-> node.id, asked |-> asked, reply |-> reply]))
       \/ r.graph.owner # "studio" /\ Advance(s, AfterNode(r, r.state, [node |-> node.id, asked |-> asked, reply |-> reply]))
       \/ r.graph.owner \in {"app", "agent"} /\ Advance(s, [r EXCEPT !.at = "interrupted"])
       \/ Advance(s, [r EXCEPT !.at = "failed"])

(* Agents and the engine give up when the context ends.                      *)
RunCanceled(s) ==
    /\ ~Ended(runs[s]) /\ ContextEnded(s)
    /\ Advance(s, [runs[s] EXCEPT !.at = "canceled"])

(* Graph.Interrupt signals the runs of that graph; an agent's Execute runs   *)
(* a graph of its own.                                                       *)
Signalled(s, obj) == runs[s].at \in {"ready", "calling"} /\ runs[s].graph.owner # "call" /\ runs[s].obj = obj
Stopped(obj) == [s \in DOMAIN runs |-> IF Signalled(s, obj) THEN [runs[s] EXCEPT !.at = "canceled"] ELSE runs[s]]

InterruptGraph(c) ==
    /\ Call(c, "interrupt")
    /\ \E id \in Paths : \E found \in LookupGraph(id) : runs' = Stopped(found.obj)
    /\ UNCHANGED <<registries, asking, connections, answer>>

Status(r) ==
    CASE r.at = "interrupted" -> "interrupted"
      [] r.at = "canceled" -> "canceled"
      [] r.at = "failed" -> "failed"
      [] r.at = "completed" /\ r.graph.owner = "studio" /\ ~ValidateValues(r.graph.output, r.state) -> "output_invalid"
      [] OTHER -> "completed"

Answer(c) ==
    /\ asking[c].at = "running" /\ Ended(runs[c])
    /\ answer' = [at |-> Status(runs[c]), run |-> runs[c]]
    /\ asking' = [asking EXCEPT ![c] = NoRequest] /\ runs' = [runs EXCEPT ![c] = NoRun]
    /\ UNCHANGED <<registries, made, connections, asks>>

ClientLeaves(c) ==
    /\ asking[c].at = "running" /\ asking[c].live
    /\ asking' = [asking EXCEPT ![c].live = FALSE]
    /\ UNCHANGED <<registries, made, runs, connections, asks, answer>>

-------------------------------------------------------------------------------
(* Sockets. The handler upgrades, registers, and reads messages.             *)
Upgrade(s) ==
    /\ socket[s].at = "unused" /\ asks.sockets > 0 /\ server \in {"serving", "sweeping"}
    /\ asks' = [asks EXCEPT !.sockets = @ - 1]
    /\ \E id \in Paths, kind \in asks.kinds :
          socket' = [socket EXCEPT ![s] = [at |-> "upgraded", kind |-> kind, id |-> id, live |-> TRUE, cancelled |-> FALSE]]
    /\ UNCHANGED <<registries, made, asking, runs, wsConnections, server, late, answer>>

RegisterWSConn(s) ==
    LET id == socket[s].id IN
    /\ socket[s].at = "upgraded"
    /\ wsConnections' = With(wsConnections, id, {s} \union IF id \in DOMAIN wsConnections THEN wsConnections[id] ELSE {})
    /\ socket' = [socket EXCEPT ![s].at = "reading"]
    /\ late' = IF server = "serving" THEN late ELSE late \union {s}
    /\ UNCHANGED <<registries, made, asking, runs, server, asks, answer>>

(* "execute" starts a run in a goroutine of its own, which a socket watches  *)
(* whatever becomes of the name; nothing checks the schemas here.            *)
SocketExecutes(s) ==
    /\ socket[s].at = "reading" /\ socket[s].live /\ runs[s] = NoRun /\ Spend("socket")
    /\ \E request \in Bodies :
          \/ /\ socket[s].kind = "graph"
             /\ \E found \in LookupGraph(socket[s].id) : runs' = [runs EXCEPT ![s] = NewRun(found, request, "ready")]
          \/ /\ socket[s].kind = "agent" /\ socket[s].id \in DOMAIN agents
             /\ runs' = [runs EXCEPT ![s] = NewRun(AgentCall(socket[s].id), [request EXCEPT !.state = <<>>], "calling")]
    /\ UNCHANGED <<registries, asking, connections, answer>>

SocketInterrupts(s) ==
    /\ socket[s].at = "reading" /\ socket[s].live /\ socket[s].kind = "graph" /\ Spend("interrupt")
    /\ \E found \in LookupGraph(socket[s].id) : runs' = Stopped(found.obj)
    /\ UNCHANGED <<registries, asking, connections, answer>>

(* The last message of a run is written, or the writer finds nobody there.   *)
RunReported(s) ==
    /\ socket[s].at # "unused" /\ runs[s] # NoRun /\ Ended(runs[s])
    /\ runs' = [runs EXCEPT ![s] = NoRun]
    /\ UNCHANGED <<registries, made, asking, connections, asks, answer>>

SocketBreaks(s) ==
    /\ socket[s].live
    /\ socket' = [socket EXCEPT ![s].live = FALSE]
    /\ UNCHANGED <<registries, made, asking, runs, wsConnections, server, late, asks, answer>>

Bug_RunsOn(s) == FALSE

(* The read loop cancels the runs of its socket before it waits for them.    *)
CancelsRuns(s) == TRUE

ReadFails(s) ==
    /\ socket[s].at = "reading" /\ ~socket[s].live
    /\ socket' = [socket EXCEPT ![s].at = "waiting", ![s].cancelled = CancelsRuns(s)]
    /\ UNCHANGED <<registries, made, asking, runs, wsConnections, server, late, asks, answer>>

Bug_DropsEntry(id, s) == {}

Others(id, s) == wsConnections[id] \ {s}

UnregisterWSConn(s) ==
    LET id == socket[s].id IN
    /\ socket[s].at = "waiting" /\ runs[s] = NoRun
    /\ socket' = [socket EXCEPT ![s] = Unused]
    /\ wsConnections' = IF id \notin DOMAIN wsConnections THEN wsConnections
                        ELSE IF Others(id, s) = {} THEN Without(wsConnections, id)
                        ELSE [wsConnections EXCEPT ![id] = Others(id, s)]
    /\ late' = late \ {s}
    /\ UNCHANGED <<registries, made, asking, runs, server, asks, answer>>

-------------------------------------------------------------------------------
(* Stop closes the sockets it knows, then Shutdown waits for the requests,   *)
(* of which hijacked ones are none, or for its context.                      *)
Bug_ClosesOneEach ==
    {CHOOSE s \in wsConnections[id] : TRUE : id \in DOMAIN wsConnections}

Tracked == UNION {wsConnections[id] : id \in DOMAIN wsConnections}

Sweep ==
    /\ server = "serving" /\ asks.stops > 0
    /\ server' = "sweeping" /\ asks' = [asks EXCEPT !.stops = @ - 1]
    /\ socket' = [s \in Sockets |-> IF s \in Tracked THEN [socket[s] EXCEPT !.live = FALSE] ELSE socket[s]]
    /\ wsConnections' = <<>>
    /\ UNCHANGED <<registries, made, asking, runs, late, answer>>

Shutdown ==
    /\ \/ server = "sweeping" /\ server' = "shutting"
       \/ server = "shutting" /\ (\A c \in Clients : asking[c] = NoRequest) /\ server' = "stopped"
       \/ server = "shutting" /\ server' = "gaveUp"
    /\ UNCHANGED <<registries, made, asking, runs, socket, wsConnections, late, asks, answer>>

ClientStep(c) ==
    \/ CreateAgent(c) \/ DeleteAgent(c) \/ CreatePipeline(c) \/ RegisterPipeline(c)
    \/ DeletePipeline(c) \/ UnregisterPipeline(c) \/ ExecuteGraph(c) \/ ExecuteAgent(c)
    \/ InterruptGraph(c) \/ Answer(c) \/ ClientLeaves(c)

SocketStep(s) ==
    \/ Upgrade(s) \/ RegisterWSConn(s) \/ SocketExecutes(s) \/ SocketInterrupts(s)
    \/ RunReported(s) \/ SocketBreaks(s) \/ ReadFails(s) \/ UnregisterWSConn(s)

RunStep(s) == StartNode(s) \/ NodeEnds(s) \/ RunCanceled(s)

ControlNext ==
    \/ \E c \in Clients : ClientStep(c)
    \/ \E s \in Sockets : SocketStep(s)
    \/ \E s \in Clients \union Sockets : RunStep(s)
    \/ ReplaceAgents \/ AppRegisters \/ Sweep \/ Shutdown

(* What takes a context heeds it, and the goroutines of a handler go on. No  *)
(* agent need ever answer.                                                   *)
Unwinding(a) ==
    \/ RunCanceled(a)
    \/ a \in Clients /\ Answer(a)
    \/ a \in Sockets /\ (RegisterWSConn(a) \/ ReadFails(a) \/ RunReported(a) \/ UnregisterWSConn(a))

ControlSpec == ControlInit /\ [][ControlNext]_controlVars
ControlFairness == \A a \in Clients \union Sockets : WF_controlVars(Unwinding(a))

-------------------------------------------------------------------------------
(* A pipeline reported as completed asked the agents of its definition, in   *)
(* its order, each with what the one before answered and the first with what *)
(* the request brought, and all the answers are in the state it returned.    *)
PipelinesFollowDefinition ==
    answer.at = "completed" /\ answer.run.graph.owner = "studio" =>
        LET r == answer.run IN
        /\ Len(r.log) = Len(r.graph.nodes)
        /\ \A i \in DOMAIN r.log :
              /\ r.log[i].node = r.graph.nodes[i].id
              /\ r.log[i].asked = (IF i = 1 THEN PipelineInput(r.given) ELSE r.log[i - 1].reply)
              /\ r.state[OutputOf(r.log[i].node)] = Text(r.log[i].reply)
        /\ r.state[LastOutput] = Text(r.log[Len(r.log)].reply)
        /\ ValidateValues(r.graph.output, r.state)

(* The list of graphs names each registered graph once, whatever was         *)
(* registered, replaced and deleted at the same time.                        *)
GraphsAreListedOnce ==
    /\ {order[i] : i \in DOMAIN order} = DOMAIN graphs
    /\ \A i, j \in DOMAIN order : order[i] = order[j] => i = j

(* What is registered is what clients see and what runs.                     *)
GraphsAreKept == PipelinesFollowDefinition /\ GraphsAreListedOnce

(* Every registered socket is counted under its name until it is swept or    *)
(* its handler ends, and nothing else is.                                    *)
SocketsAreTracked ==
    /\ \A id \in DOMAIN wsConnections :
          wsConnections[id] # {} /\ \A s \in wsConnections[id] : socket[s].at \in {"reading", "waiting"} /\ socket[s].id = id
    /\ \A s \in Sockets : socket[s].at \in {"reading", "waiting"} /\ (server = "serving" \/ s \in late) => s \in Tracked

(* When Stop has returned without an error no request is under way, and the  *)
(* sockets still open are those that registered after the sweep.             *)
StopLeavesNothing ==
    server = "stopped" =>
        /\ \A c \in Clients : asking[c] = NoRequest /\ runs[c] = NoRun
        /\ \A s \in Sockets : socket[s].live => s \in late \/ socket[s].at = "upgraded"

(* The server knows its sockets, and leaves nothing behind.                  *)
ConnectionsAreKnown == SocketsAreTracked /\ StopLeavesNothing

(* Graphs are listed as they are registered, and pipelines run as defined;   *)
(* live sockets are known to the server, and a stopped one has none it knew. *)
ControlIsSound == GraphsAreKept /\ ConnectionsAreKnown

(* Whoever leaves takes along the runs started for him: when all who will    *)
(* leave have left, their requests are answered, and the handlers of their   *)
(* sockets have ended their runs and returned, even if no agent answered.    *)
DisconnectEndsRuns ==
    <>[](/\ \A c \in Clients : asking[c].at = "running" => asking[c].live
         /\ \A s \in Sockets : IF socket[s].at = "unused" THEN runs[s] = NoRun ELSE socket[s].live)
===============================================================================
