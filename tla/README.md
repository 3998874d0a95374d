# GoLangGraph in TLA+

A verification development of GoLangGraph: the graph engine of `pkg/core`, the
durable execution of `pkg/persistence`, the agents of `pkg/agent`, and what
serves them (`pkg/llm`, `pkg/tools`, `pkg/server`, `pkg/builder`, `pkg/debug`,
`cmd/golanggraph`). TLC checks small instances; TLAPS proves what matters most
for every value of the constants. Each definition that stands for code is
listed in `PROJECT.json` under `map` with the lines it stands for.

    tlc -workers 2 -config EngineConcurrent.cfg MCGraphEngine.tla
    tlapm GraphEngineProofs.tla

## 1. The system

| Part | Source | State it keeps | Operations |
|---|---|---|---|
| Graph definition, routing | `core/graph.go`, `conditional.go` | nodes, ordered edges, route tables, start, end nodes, build errors | AddNode, AddEdge, AddConditionalEdges, SetStartNode, AddEndNode, Validate, GetTopology, GetNextNodes |
| Graph engine | `core/graph.go` | handles of running calls, shared history and current state, the graph-wide stream, `closed` | Execute, ExecuteWithOptions, Resume, Interrupt, Close, Reset, Stream |
| Subgraphs | `core/subgraph.go` | table of nested graphs | AddSubgraph |
| State, schema | `core/state.go`, `schema.go` | a locked map, its snapshots; channels and reducers | Clone, Merge, ApplyUpdates, ExecuteParallelUpdates |
| Checkpoint stores | `persistence/checkpointer.go`, `database.go` | a map, a directory, a table, Redis keys | Save, Load, List, Delete |
| Saver, restart | `persistence/saver.go` | a counter | SaveState, Latest |
| Database, sessions | `persistence/database.go` | named pools; rows of threads, sessions, documents | AddConnection, CloseAll, SaveDocument, CreateSession |
| Agent | `agent/agent.go`, `tool_node.go`, `middleware.go` | isRunning, conversation, seeded resume, history | ExecuteThread, the ReAct, chat and tool nodes, the coordinator |
| Human decisions | `agent/interrupt_manager.go`, `decision_validator.go` | pending interrupts | Interrupt, Resume, Cancel, Clear |
| Sub-agents, files | `agent/subagent*.go`, `backends/` | local states; routes, a store, a map of files | ExecuteSubAgents, delegate_task, Read, Write, Edit, List |
| Definitions | `agent/agent_definition.go` | registry, managers written into definitions | RegisterDefinition, CreateAgent, Initialize |
| Multi-agent manager | `agent/multi_agent_manager.go`, `multi_agent_config.go` | agents, status, health checkers, token buckets, counters | Start, Stop, Restart, CheckHealthNow, requests |
| LLM | `llm/*.go` | registry, default, streaming settings; a retry loop, a collector | WithRetry, CompleteWithMode, CollectStream, Register, Unregister |
| Server | `server/*.go` | agents, graphs, sockets, endpoints, metrics | HTTP and WebSocket handlers, Start, Stop |
| Tools | `tools/*.go` | registry, security policy | file tools, calculator, argument repair |
| Builder, visualizer | `builder`, `debug` | providers and workflows; history and subscribers | Pipeline, Swarm; RecordStep |
| Command line | `cmd` | a watched file; the files of a project and its deployments | serve, dev, auto-serve, status; init, generate, docker, deploy; validate, test, multi-agent load |

Interactions. The engine calls user code (node functions, conditions) without
holding its lock, calls the `StateSaver` after every node, and writes results to
two channels: the caller's own and one of the graph. The agent and the server
call the engine with a channel and wait for the channel to be closed. A
subgraph is a call of the engine inside a node function. The saver writes to one
of four stores, which several goroutines or processes share; a restart reads
`Latest` and asks the graph where to go on (`GetNextNodes`). An agent calls a
provider of the LLM registry and tools of the tool registry; coordinators,
sub-agents, the manager and the two servers call agents. A manager, a server and
an executor of sub-agents that are given the same definition write their
managers into the same object. The commands replace the agents of a live server,
or the server, when a file changes.

What is hard:

* many calls share one `Graph`: handles, history, current state, one channel;
* `Interrupt` and `Close` run at any point of a call, and a call is between two
  critical sections when it decides whether the graph is open;
* attempts of a node that fail or panic after changing their state; records that
  hold the objects the run goes on with;
* pauses resumed by later calls, possibly several times;
* readers that are slow, absent, or wait for a channel nobody closes;
* crashes between a node and its checkpoint, failed saves, restarts; saves of
  several commands, expiring keys, listings that are not snapshots;
* turns of an agent that end in the middle (a tool that waits for a person, a
  deadline, a limit) and leave a conversation that later turns go on with;
* health checkers of a generation that a timed-out Stop left behind; counters
  replaced by a restart while a request is between two of them;
* a registry read under its lock and used after it: providers, connections,
  agents, graphs, sockets, endpoints, definitions;
* transactions that fail half way, files truncated before they are written,
  watchers that start after the file was read.

What makes each part correct is section 3; `PROJECT.json` lists under `hazards`
each place where something can go wrong and the property that watches it.

## 2. Modules

    Routing <- GraphBuilder, GraphEngine, DurableThread, ReActAgent, Visualizer
    StateSchema <- SuperStep, GraphNesting     Latest <- Checkpointer, DurableThread
    GraphEngine implements RunContract

    MCGraphEngine   GraphEngine
    MCCheckpointer  Checkpointer
    MCFoundations   GraphBuilder, SuperStep, StateSharing, GraphNesting, Routers, ProviderCall,
                    ProviderManager, DatabaseService, AgentDefinitions, QuickBuilder
    MCAgents        ReActAgent, HumanDecisions, AgentTeam, SubAgents, AgentFiles, ToolBox, Visualizer
    MCServices      DurableThread, ControlPlane, AutoServing, AgentSchemas, ManagerLifecycle,
                    ManagerRequests, ServeCommand,
                    AgentRouting <- AgentChecks <- ProjectFiles

    RoutingProofs, RunContract <- GraphEngineProofs
    RoutingProofs <- FoundationProofs, AgentProofs, ServiceProofs, ProjectProofs
    CheckpointerProofs

The three large MC modules put parts side by side that share no variable: a
variable `part` says which one a behaviour is about, and the others stay as they
began, so that the states of one run add up and do not multiply.

### The engine

**Routing** (`routeFrom`, `Validate`, `GetTopology`). A graph is a record; a
condition is user code, so one evaluation of the router takes a function `ask`
that gives the answer of every condition, `Failure` included.

**GraphBuilder**. One action per builder method, in any order, then a walk that
follows the router as a run would.

**GraphEngine**. A call has a program counter whose labels are the places
between two lock operations, channel operations or calls of user code in
`ExecuteWithOptions`:

| Label | Action | Lines of `graph.go` |
|---|---|---|
| idle | `Call`, `Resume` | 484-496, 458-481 |
| snapshot | `Snapshot` (read lock) | 498-524 |
| register | `Register` (write lock) | 526-555 |
| loop | `Stop`, `HitLimit`, `PauseBefore`, `BeginNode` | 557-572, 680-706 |
| attempt, delay | `NodeReturns`, `NodeFails`, `NodeRetries`, `DelayEnds` | 705-755 |
| record, emit, apply, save, decide | `Record`, `Emit`, `Apply`, `Save`, `Decide` | 574-617, 642-676 |
| unwind | `Unwind` (the defer) | 534-544 |

`CopyHandles`, `Signal`, `EndInterrupt` and `CloseOnce` are the steps of the
goroutines that call `Interrupt` or `Close`; `Receive`, `EndRange` and
`DrainGraph` are the readers; `EndContext` is a context that is cancelled or
times out. A run's state is the set of writes in it, each with the step, node
and attempt that made it: enough to see a leaked attempt, a lost write or a
checkpoint of the wrong moment. A call that finds both its context and its
interrupt channel ready may take either branch of the select. The engine waits
for a node function whatever happens to its context, and keeps its result; only
the top of the loop and the delay of a retry look at the context.

**RunContract**. What a caller may rely on, without locks or channels: a call
follows the arcs of the graph one completed node at a time, never past the
limit, takes up a paused run where it stopped, and ends once with an honest
reason. `GraphEngine!Implements` is `RunContract!Spec` under the mapping
`Phase`, `trace`, `End`.

**StateSharing**. Which state objects of a run are the same object: what the
caller gave, what each attempt works on, what is recorded, streamed, snapshotted
and handed back at a pause. The engine's states are values in GraphEngine and
objects here.

**StateSchema, SuperStep**. The reducers; `ExecuteParallelUpdates` and
`ExecuteParallel` with branches that finish in any order or fail. The reference
says for each kind of channel what it owes to the words of the branches in the
order of the node IDs: slices laid end to end, sums, last words on the keys of a
map, messages in the place they were first put.

**GraphNesting**. `AddSubgraph` between its check and its store, by several
goroutines; a nested run that pauses, fails or is tried again, and what it hands
its parent.

**Routers**. `RouteByCounter`, `RouteByToolCalls` and the other ready-made
conditions on values that carry their Go type, before and after a checkpoint.

### Durable execution

**Latest**. The choice of the checkpoint to restart from.

**Checkpointer**. The four stores. An operation under the mutex of the memory
store or in one Postgres statement or transaction is one action; in the file
and Redis stores every system call or command is one, so that other processes,
a crash, or an expiry come between. Clients are goroutines for the memory
store and processes for the others (a file store's own lock serialises only
one process). A checkpoint carries its `owner`, the thread whose state it
holds, apart from the `thread` it is filed under. Checkpoints are named by
`CheckpointSaver` (unique) or `CheckpointManager` (node and step).

**DurableThread**. One thread, a process that may die between any two steps,
nodes and saves that may fail, and the documented restart. Its state is the
sequence of nodes that wrote to it.

**DatabaseService**. The connection manager, whose pools are opened, replaced and
closed outside its lock; the tables with and without embeddings; `SaveDocument`
statement by statement in its transaction; threads and sessions. The database is
external: a statement is a step, foreign keys are checked, a transaction is
undone when its client fails.

### Agents

**ReActAgent**. Several calls of `ExecuteThread` on one react agent. The graph is
that of `buildReActGraph`, routed by the operators of Routing; the engine is what
`RunContract` promises of it, one completed node after another. A run has the
labels

| Label | Action | Lines of `agent.go` |
|---|---|---|
| idle | `Begin` (the first critical section) | 462-481 |
| before | `BeforeRun`, `BeforeRunFails` (middleware) | 499-506 |
| prepare | `Prepare` (user message, initial state) | 507-530 |
| start | `Start` (the collector and the call of the engine) | 542-587 |
| node | `Reason`, `ActInterrupts`, `ActRunsTools`, `Observe`, `Finalize`, `LLMFails`, `Stops` | 686-950 |
| tools | `ToolReturns` for each call in any order, then `ActAnswers` | `tool_node.go`, 794-847 |
| waiting | none: the stream of a refused call is never closed | 587 |
| collect | `Finish` (record, middleware, the defer) | 589-683 |

and a graph state of five keys: the iteration, the pending calls, the interrupt,
whether tool answers were added, and (for the goroutines of `executeParallel`)
which calls are done. `SeedResumeState`, `ClearConversation` and `CloseGraph` are
the other clients; a seed comes between runs, as its one caller gives it
(`subagent_executor.go:156`), although the method itself does not look. A tool call is told apart by a key of the model and has the ID
of the wire, which may be missing; a message is its role, what it refers to and
the calls it makes.

**HumanDecisions**. People who look at the same pending interrupts, decide, cancel
or clear them; `ValidateDecisions` is applied to every list of decisions.

**AgentTeam**. Chat and tool agents and the coordinator that runs several of them
in order or at once. **SubAgents**: batches of `SubAgentExecutor`, the local
states of `SharedState`, and agents that delegate to one another.
**AgentFiles**: routes to stores and a state, and the map of
`FilesystemMiddleware`. **ToolBox**: the registry and the file tools between their
system calls; the calculator, against arithmetic; argument repair, output limits.
**AgentDefinitions**: initialisation of one definition by two deployments between
its writes and its reads. **QuickBuilder**: choice of a provider, pipelines and
swarms whose agents the first of several callers registers. **Visualizer**:
recording, with subscribers and checkpoints under the lock; diagrams of graphs.

### LLM

**ProviderCall**. One completion or stream of one of three providers: what the
provider makes of the conversation, `WithRetry` (attempts, backoff, Retry-After,
a context that ends in a delay), the reading of the reply and its collection into
one response, early exit included. **ProviderManager**: the registry, its default,
its surveys and the streaming settings edited in place.

### Services

**ManagerLifecycle**. Start, Stop, Restart and CheckHealthNow as the critical
sections of three locks, and the checker goroutines they launch and join, by
generation. **ManagerRequests**: the token buckets with eviction and the paths that
skip them, and a request to an agent or to a management endpoint through limiter,
routing, agent and all counters while a restart replaces them or fails.
**AgentRouting**: what `Validate` accepts, the order in which rules are
installed, and the two ways a path finds its agent: gorilla/mux, which is
external, takes exact paths and hosts as templates (a variable is a letter of its
own) and refuses some, `GetAgentByPath` compares letters.

**ControlPlane**. `server.go`, `graph_api.go`, `pipeline_api.go`: what clients,
sockets, the application, a reload and a Stop do to the registries of agents and
graphs, the pipelines compiled from posted definitions, runs that go through
them, and sockets from upgrade to close. **AutoServing**: definitions registered
one by one or in groups, endpoints generated more than once and agent by agent
(the instance, then its routes; the four routes of an agent are one step) while
another call may already serve, executions that are answered or streamed, and
metrics that readers read between two of their locks. **AgentSchemas**: the schemas
agents advertise, the validator, and the handlers that use both; a letter may take
two bytes, a body may be null.

### Commands

**ServeCommand**: the commands that follow a file. **AgentChecks**: what
`validate`, `test`, the multi-agent commands and a load of a directory make of the
same files, each with its own reader; a file is a tree of values of any kind, as
YAML gives them. **ProjectFiles**: `init`, `multi-agent init`, the generators,
`docker build` and the deployments, each a process that checks, writes and removes
one file after another, fails or is killed between two, beside another shell in
the same directory. What it writes are files of AgentChecks and manifests that
mount them.

## 3. Runs

| Run | Instance | Shows |
|---|---|---|
| `concurrent` | 2 calls on a loop with a failing node, an Interrupt, limit 2 | handles and counter match the runs; a signaled run completes one more node at most; the history has every step of the latest run |
| `call` | 1 call with 1 retry, delay and error filter, a context that ends, checkpoints, a reader of its stream, an absent reader of the graph's, a Close at any point, limit 2 | failed attempts leave nothing; no send on or close of a closed channel; a channel with room delivers every step; the call returns and the range over its stream ends |
| `resume` | 3 calls, breakpoints before and after a node, Reset, limit 2 | no node repeated or skipped at the seam, one step count, checkpoints of the right moment, the contract |
| `checkpoints` | 4 stores, and Redis once more with expiring keys, 2 threads, 2 clients, 3 saves (2 with expiry), 1 deletion, 1 tick | isolation; an acknowledged checkpoint loads, until it expires; without expiry it is listed and `Latest` is not stale |
| `foundations` | see below | what is accepted is not lost, routes are in order; merges are ordered; nesting; counted loops; providers; nothing leaks from a database; records stay; retries help |
| `agents` | 2 runs, replies of 0 or 2 tool calls of which one may wait for a person, 2 iterations, a graph limit of 7, a summary beyond 4 messages, 4 calls, 1 seed; 2 people, 2 interrupts; the other parts below | one run at a time; well formed requests; guarded tools wait; the limit; one decision each; teams, sub-agents, files, tools and the visualizer report what happened; calls return |
| `services` | a branching graph, 3 faults; 2 clients, 2 sockets; 2 callers of the manager, 1 agent, 1 restart; lists of 2 of 12 routing rules; 2 edits of a file; files of agents with one odd setting, fleets with and without routing, directories of them; 9 projects of 2 shells | a thread survives; registries, runs and sockets agree; endpoints and schemas are true; checkers follow the status; budgets hold, counters add up; routing is consistent; commands agree on a file, and what they write can be deployed; threads finish, disconnected runs end, calls return, the command follows its file |

The parts of `foundations`: a graph over 2 node IDs and the reserved ones, with 2
edges, 2 route tables and walks of 2 hops; super-steps of up to 3 branches over
channels of every reducer, maps and a key no channel declares included; 2 runs of 3 attempts and 3 steps that share state
objects, with 2 edits by whoever holds one; 3 graphs and 2 goroutines that nest
them in 3 calls, 3 nested runs; a loop limit of 2 and 2 restarts; completions and
streams of 3 providers with 0 to 2 retries and replies finished, closed quietly, cut or failed; 2 callers of a
registry of 2 providers; 2 clients of a database with 2 pools, 2 threads and a
document; 2 creators of agents for 2 deployments; 2 agents of the builder. (756,000 states.)

The files of `services`: a block of an agent has every setting absent, of the
wrong kind, at and beyond its limit, one at a time; a fleet has blocks that
differ in their ID, and rules that shadow one another; a directory has files that
define an agent twice or cannot be read. A project is a directory and what two
shells run in it, each once; every command, every template and every routing
kind occurs in one of the nine. (332,000 states.)

Bounds. The interleavings that matter need two calls and one stopper (every
shared variable is touched by one call at a time); three calls are used where
one resumes another that resumed a third. A limit of 2 with a cyclic graph
makes a run reach it both inside and at the seam of a resumption. Channels hold
one result (the graph's) so that they are full, or two (the call's own) so that
they are not. In `call` a second stopper only adds interleavings of two
`Interrupt`s or `Close`s with each other; `NoPanic` is proved for any number. Two
clients and three saves let one client list while the other saves twice or saves
and deletes. Three faults let a thread crash, lose a save and crash again in a
shorter run. Two runs of an agent are a turn and the one that inherits its
conversation or its seed, or two that overlap; two calls in a reply are enough
for answers in the wrong order and for a guarded call behind an unguarded one;
four calls let both turns ask; a limit of 7 is the least that two iterations
need. Three graphs make a cycle that no single call closes. Two callers of the
manager are a Stop that times out and the Start or Restart that follows it, or
two that overlap. Where a part has several plans or budgets (`MCPlans`,
`MCBudgets`, `MCControlBudgets`), each gives one hazard the calls it needs.
`MaxEdges`, `MaxHops`, `MaxSaves`, `MaxDeletes`, `MaxTime`, `MaxFaults`,
`MaxCalls`, `MaxSeeds`, `MaxAdds`, `MaxRuns`, `MaxPools`, `MaxInterrupts` and the
budgets are bounds of the exploration only; the proofs hold for any value.
Symmetry is used for runs, threads, clients and callers in runs without liveness.

In `checkpoints` each store is used under names it is safe with: Postgres and
Redis with unique names, memory and file with node-step names, which two threads
share. The expiring Redis store has two saves instead of three
(`FewerSavesWithExpiry`), and its listings are not held to the part of
`AcknowledgedIsFound` about listings: the index may expire between SADD and
EXPIRE and take an acknowledged entry with it. `CHECK_DEADLOCK FALSE` is set where
all calls end or the bounds are used up: the system really stops there.

### Deviations found, as runs

Five runs have `expect: violation`. Each states what a comment, document or
test says and shows how the code departs from it (`findings` has the quotes).

| Run | What happens |
|---|---|
| `bad_refused_stream` | a call refused because the graph is closed never closes the caller's stream |
| `bad_close` | a call that read `closed` before Close registers after it, and runs uninterrupted |
| `bad_postgres` | a checkpoint ID used by another thread: its row is overwritten |
| `bad_latest` | a restarted run counts from 0, and the longer run before it wins |
| `bad_interrupt` | a tool that waits for a person makes the run fail with no route, and the interrupt is reported nowhere |

## 4. Fairness

`GraphEngine!Fairness`: weak fairness for every call's own steps, for a reader
that ranges over its stream and for a stopper that has begun. Go's scheduler
runs every goroutine that can run; node functions are assumed to return (the
engine waits for one even when its context has ended), and delays end. Nothing is
assumed of whoever may call, interrupt, cancel, or read the graph-wide stream.
`DurableThread!Spec` assumes weak fairness of the process and of whoever
restarts the thread; faults are bounded, so they stop. The graph of that run is
acyclic: a condition that always loops keeps a real thread from finishing too.
`ReActAgent!FairSpec` assumes weak fairness of every run that has begun: the LLM,
the tools and the middleware return, as everything that holds the goroutine of a
run must. Nobody has to call, seed, clear or close. `AgentTeam`, `SubAgents` and
`Visualizer` assume the same of calls that have begun.
`ControlFairness` assumes less: whatever takes a context heeds its end, and the
goroutines of a handler go on, but no agent need ever answer; that is what
`DisconnectEndsRuns` is about. `LifecycleFairness`: callers and checkers that can
go on do, a provider answers within the time of a check, and a context with a
deadline ends. `ServeCommand`: the command, its watcher and its timer go on;
nobody has to edit, cancel or end a server.

## 5. What is proved

Types, safety and the implementation of the contract hold for every graph and
every number of calls, clients, threads, callers, sockets and stoppers, and every
capacity. The assumptions are the `ASSUME`s of the modules (`EngineAssumption`,
`BuilderAssumption`, `LoopAssumption`, `NestingAssumption`, `DurableAssumption`,
`StoreAssumption`, `AgentAssumption`, `DecisionsAssumption`,
`LifecycleAssumption`, `RequestsAssumption`, `RoutingAssumption`, `ControlAssumption`,
`CallAssumption`, `FilesAssumption`, `IdsAssumption`, `ProjectsAssumption`),
which TLC evaluates on every run. Three theorems are about instances of a module
(`Manager`, `Shortcut`, `Generated`) whose constants and variables are
parameters of the proof module; what they need of them is in their statements: a
number of providers (`MaxProviders \in Nat`), workflows and keys of the kinds
there are, finitely many clients. The one about super-steps asks for
`ChannelsFit`.

| Theorem | Property | Argument |
|---|---|---|
| `RoutingProofs!ValidRoutesStayInside` | a route of a valid graph leads to a node or ends | cases of the router; an edge route takes an edge of the node |
| `FoundationProofs!NeverLost` | `ValidGraphNeverLost` | `BuilderInv`: the graph is typed, and a walk stands on a node when untabled conditions are absent |
| `FoundationProofs!OrderKept` | `RoutesInOrder` | no invariant: the router's choice of the least index, shown edge by edge, for every typed graph |
| `FoundationProofs!ResultsStay` | `EarlierResultsStay` | `SharingInv`: no two results are the same object, currentState is in nobody's hands, a snapshot in its readers', a result in its readers' and, when it is the last and the run is over, the caller's; a run whose state others hold goes on with its latest result (`KeptApart`); every step leaves all objects alone but one that is edited (`Reaches`) |
| `FoundationProofs!NestingHolds` | `NestingIsSound` | `CheckedHolds`: while calls do not overlap, at most one has checked and not recorded, and what it found still holds; `NestedRunInv`: a nested run that is not shown the list of its parent has as much of its own as it has run nodes, and the parent's is one such list for each merge |
| `FoundationProofs!LoopsAreBounded` | `CounterBoundsLoop` | `LoopInv`: a counter that came back as a float64 is below the bound by the restart that made it one |
| `FoundationProofs!NothingLeaks` | `NothingIsLeaked` | `PoolsOwned`: every open pool has an owner, and none has two but a pool of checkpointers; `RowsJustified`: a transaction makes a row for no thread but that of its document |
| `FoundationProofs!RetriesHelp` | `AttemptsAreJustified` | `CallInv`: a call that may attempt again has handed out no chunk, and its last failure is one that may pass, within the budget, followed by the delay it asked for |
| `FoundationProofs!DefaultIsThere` | `RegistryIsConsistent` of ProviderManager | `ManagerInv`: the registry and the calls are typed, and of a provider that no two callers edited at once at most one is between the two fields, and the field it has set is as it wants it |
| `FoundationProofs!ShortcutsHold` | `ShortcutsAreSound` of QuickBuilder | `ChoiceInv`: what is configured only grows, and each agent was given the best there was; `WorkflowInv`: what a caller of a workflow has so far are the results of its first agents, and the agents registered are the members, whoever registered them |
| `FoundationProofs!MergesInOrder` | `MergeIsOrdered` | `StepInv` says of each moment of a call which branches were launched and on what they work, and of its end what the merge holds of every key; that is shown branch by branch (`Merges`, `Kept`, `CountsUp`). It assumes `ChannelsFit` |
| `GraphEngineProofs!TypesKept` | `TypeOK` | strengthened by `step > 0` at "decide", where a pause reports `step - 1` |
| `GraphEngineProofs!HandlesTrue` | `HandlesMatchRuns` | inductive with the types; the counter is a cardinality |
| `GraphEngineProofs!NoPanic` | `NeverCrashes` | `ChannelInv`: the graph channel is open exactly while not closed; a run's own is open until its defer |
| `GraphEngineProofs!InterruptsPrompt` | `InterruptIsPrompt` | `PromptInv` says at each label how far past its signal a run may be: one node, and none once back at the loop |
| `GraphEngineProofs!EngineImplementsContract` | `Implements` | `RunInv` = `Standing` (where a run stands relative to its trace) and `TellsTruth` (what a finished run reports); each step then advances, finishes or stutters |
| `GraphEngineProofs!WalksWithinLimit` | `RunsAreWalks` | the same facts proved of the contract (`ContractWalks`, `ContractLimit` in `RunContract`), carried over by the implementation |
| `GraphEngineProofs!AttemptsIsolated`, `CheckpointsFaithful` | `IsolatedAttempts`, `CheckpointsReplay` | `DataInv`: a run's state has one write per completed step, by the node of that step, and a checkpoint is the part of it up to its step |
| `GraphEngineProofs!StreamsDeliver` | `DeliveredInFull` | `StreamInv`: what was received, followed by what waits in the channel, are the results sent so far, in order; the theorem assumes `RunCap >= MaxIterations > 0`, room for the whole run |
| `GraphEngineProofs!HistoryComplete` | `LatestRunRecorded` | `HistoryInv`: the history has one entry, in order, for every result of the most recent run, that of the node in flight or the failed one last |
| `CheckpointerProofs!ThreadsStayIsolated`, `AcknowledgedStays`, `TypeCorrect` | `ThreadsIsolated`, `AcknowledgedLoads`, `TypeOK` | below |
| `CheckpointerProofs!AcknowledgedFound` | `AcknowledgedIsFound` | `Indexed`: an acknowledged ID is in the index until its row is gone; `Owes`: what a listing owes its caller has yet to be read, or is matched by what it found |
| `AgentProofs!OneRunAtATime` | `BusyWhileRunning` | inductive with the labels: each action moves the one run under way to another of its labels, or ends it and clears the flag |
| `AgentProofs!IterationsEndRuns` | `NeverAtLimit` | `Place` ties the number of steps of a run to its iteration: at node reason three for each iteration since its start, at act and observe one and two more, at finalize at most three for each allowed |
| `AgentProofs!ToolsWaitForPeople` | `GuardedToolsWait` | `CallsInv`: the calls a run is about to make are fresh and, at "tools", none of their reply is guarded; only the run that has the agent has any |
| `AgentProofs!RequestsArePaired` | `RequestsAreSound` | `TalkInv`, with the labels and the budget: the conversation ends with the calls that are pending, or with nothing anyone waits for; answers refer to calls before them; a seed is used once. What `sanitizeToolPairing` keeps of such a conversation is paired, shown message by message |
| `AgentProofs!OneDecisionEach` | `DecidedOnce` | `DecisionsInv`: what is pending is as it was asked, and what was resumed names an interrupt that was asked and is pending no more |
| `ServiceProofs!ThreadSurvives` | `WorkSurvives` | every checkpoint holds a walk that ends at its node and a restart continues one; a step number is below the number of nodes in the state, so the highest step has a long enough state; a best checkpoint exists as long as there is any (`HasBest`) |
| `ServiceProofs!CheckersFollow` | `CheckersFollowStatus` | `GenerationInv`: goroutines are of the running generation or cancelled; `AloneInv`: what holds between the critical sections of a call nothing overlaps; `HealthInv`: a state is what the checker of the set recorded |
| `ServiceProofs!BudgetsAreKept` | `BudgetsHold` | `KeepsBudget`: what a key was let through since any moment, with what its bucket would hold now, is at most its capacity and what the rate has added since; `BudgetRoom`: as long as the table has room for all clients, each that was let through still has its bucket |
| `ProjectProofs!RoutesAreServed` | `RoutingIsConsistent` | `RoutingInv`: only what `Validate` accepts is installed or served; the rest is about the operators, `FirstOf` above all, and `SelectsLiterally`: on literal paths mux and `MatchesPath` agree |
| `ProjectProofs!CommandsAgree` | `VerdictsAgree` | `ChecksInv`: each verdict is that on the first file, and the registry has each agent of each file that was read under an ID no other has; the rest is about the two readers, setting by setting, and the order of the rules |
| `ProjectProofs!ProjectsStaySound` | `ProjectsHold` | `ProjectInv`: what a shell is at fits its command, what it is to write is part of what the command writes (one content per path, `PlanOk`), and of a command that is alone all it wrote is still there and all it read is unchanged; the rest is about the commands: what init and the templates make is accepted and routed (`InitAccepted`, `TemplateAccepted`, `SingleAccepted`, `TemplateRouted`), and what is marshalled is read back (`MarshalledLoads`, `OneAgentLoads`) |
| `ServiceProofs!MetricsAreTrue` | `EndpointsAreTrue` of AutoServing | `AutoInv`: an agent is stored before it gets its routes, by whichever call; what ended and what the metrics say differ by the handlers that are between the two (cardinalities of sets of clients); an error is never counted before its request |
| `ServiceProofs!ControlHolds` | `ControlIsSound` | four invariants, each of its own: `SocketInv` (sockets and the map of connections), `RequestInv` (a client waits exactly while its run is there), `ListInv` (the list has each key of the map once), `PipelineInv` (every registered or running graph is a pipeline that was accepted, and a run's log is what its nodes asked and were told) |

The invariant of the stores. `ThreadsIsolated` is not inductive: a row filed
under the wrong thread, or one another save overwrites, must be excluded first.
`OneRowPerKey` and `OwnRows` say that a thread and an ID name one row, of that
thread. `FreshIDs` says that with unique names no row and no other save has the
ID of a save that has not written yet, which is why Postgres, whose key is the
ID alone, replaces nothing. `Carries` and `Kept` follow an operation from step
to step. The first three theorems assume `NoSharedKeys`: Postgres is not used with
node-step names. Without it the property is false (`bad_postgres`).
`AcknowledgedFound` assumes `NoReusedNames`: where checkpoints are not named
uniquely, a deletion or a later save of a name takes an earlier one off the list.

The invariant of the pipelines. `PipelinesFollowDefinition` speaks of the run in
the last answer. What makes it inductive is that the output of a node is kept
under the name of that node, which no later node of an accepted definition has,
and which is none of the names of the input and of the last output (`GraphOk`,
`LogFollows`, `PassedOn`): texts are sequences, and `OutputOf` adds the same words
before and after the name, so that it is injective (`Framed`).

The invariant of a super-step. The merge is a recursive function over the
branches. What it is for n branches is not looked up but built: a function that
satisfies the equation up to n is extended by one (`CountsUp`, which rests on the
least-number principle), so the equation holds of the function the model chooses
(`MergedIs`). Then `Merges` is carried from branch to branch: a channel that fits
its reducer is what `Appended`, `Summed`, `Addressed`, `Combined` or `Replaced` say
of the words so far, and one word more keeps it (`AppendedOn`, `SummedOn`,
`AddressedOn`, `CombinedOn`). `ChannelsFit` says that channels, updates and inputs
hold values of the kind their reducers are for: lists where they append, numbers
where they add, maps where they merge; the code drops other values silently, or
reads them as one message, and nothing is claimed of that.

What the proofs changed. Some attempts failed because the model or the property
was wrong. `NestedWorkOnce` is false of a list
that is not among the outputs, which it did not exclude. A loop bound of 0 is exceeded by the
first node, which adds before the router reads: `LoopAssumption` excludes it.
`CheckersFollowStatus` said nothing of the states checkers write; it now does.
`Unregister` removes the first entry of the list, as the code does, where the
model had filtered all of them. `MergeFollowsOrder` compared with values of one
instance; it now says for any words what each kind of channel owes them, and the
run has a map channel, a key without channel and messages without ID.

Only model-checked:

* liveness (`EveryCallReturns`, `CallsReturn`, `ServicesReturn`,
  `DisconnectEndsRuns`, `FollowsFile`), which needs fairness and ENABLED;
* of `ProvidersAreSound`, what is not the registry or the shortcuts: prompts and
  replies (`ProviderCall` folds over chunks and messages) and `AgentsAreAsDefined`;
* of `EndpointsAreTrue`, what is not the generated server: `MetricsAddUp` sums
  counters over agents, and the validator of `SchemasAreHonest` is recursive, so
  that a module which reaches it loses the SMT solver;
* `SurroundingsAreSound`: `AgentTeam`, `SubAgents`, `AgentFiles`, `ToolBox` and
  `Visualizer` compute over texts, files and plans with folds and recursive helpers.

## 6. Mutants

Every property of a passing run has a mutant: an operator `Bug_...` beside the
definition it would replace, such as a resumption that forgets its step, a
deferred call that keeps its handle, or a store keyed without the thread.
Nothing else in the models uses these operators.

## 7. More observations

What the models show without a run of their own, or what was met while reading.

Engine and state

* A run that is not the latest appends to the history of the latest (`Record`
  writes the shared history, which each new run empties, `graph.go:647`).
* A per-run stream that is full drops the result although a comment calls it
  lossless (`DeliveredInFull` is about channels that have room).
* Resuming a pause *after* an end node that has outgoing edges goes on past the
  end (`Arcs` in GraphEngine); resuming a pause before a node whose breakpoint is
  still configured pauses there again (`PauseBefore`).
* `GetNextNodes` answers END where the run ends, and the documented restart
  passes the answer to the engine as a start node, which refuses it (`Restart`).
* Readers of the streams and of `GetExecutionHistory` hold the state objects of
  the run (`graph.go:600`): what a reader writes to the latest result reaches the
  next node, what he writes to an earlier one reaches nobody but the other readers
  of it (`EarlierResultsStay` has both). The maps of `GetSnapshots` are shared too.
* An update of `messages` that is an empty slice is appended as a message
  (`schema.go:165-167`); a value that is no slice, number or map is dropped by the
  reducer of its channel.
* A nested graph that is shown an accumulating channel of its parent gets it
  appended to itself; two concurrent `AddSubgraph` calls can make a cycle;
  `ExecuteParallelUpdates` returns early and leaves launched branches running.
* `RouteByCounter` does not count a float64 restored from JSON, and
  `RouteByToolCalls` ignores typed slices that a JSON round trip makes visible.

Persistence

* Redis with node-step names: the SREM of a deletion that lands after a new save
  of the same name takes the acknowledged checkpoint off the list
  (`NoReusedNames`); the index may expire between SADD and EXPIRE.
* `PgVector` searches without an embedding select 6 columns and scan 7; a documents
  table made by a plain RAG configuration makes the pgvector schema fail later.
* A document saved with thread "" violates the foreign key although the column is
  nullable, as does the session that `POST /sessions` creates; the same document
  ID from another thread replaces the content and keeps the thread.
* `AddConnection` in flight during `CloseAll` registers afterwards; holders of a
  replaced connection keep a closed pool; expired sessions are still found.
* Namespaces of the file store that contain a colon are not isolated; listings of
  `CompositeBackend` look at one backend though comments say several; edits over
  the store may lose a concurrent change.

Agents

* The agent and the WebSocket session, which wait for the end of a stream, block
  for ever when the engine refuses the call, and the agent stays busy
  (`AgentComesBack` is about agents whose graph nobody closed).
* An agent may have 100 iterations, but the limit of its graph is 100 nodes: from
  34 iterations on, a run that uses them all ends with the limit's error
  (`NeverAtLimit` has the condition under which it does not).
* The calls of a seed become pending and are overwritten by the first reasoning
  step; `finalizeNode` adds calls that no node runs; a summary or a cleared
  conversation may begin with answers to nothing, which `sanitizeToolPairing` keeps.
* `ExecuteSequential` goes on with the text of a review that a guarded tool left;
  `ExecuteParallel` naming an agent twice usually fails with "already running".
* Chat agents run tools without looking at `InterruptOn`, and send tool messages
  before the assistant message they answer (`agent.go:1041`, against the comment at
  816 on strict APIs); after an unknown tool each of these messages names the call
  before its own. `AnswersAreTheAgents` says exactly when: it holds because it
  admits all three, for chat agents only and no further than the code goes.
* `InterruptManager` is used by no run. It reads its callback twice without the
  lock: one that is taken away in between ends the process (`StartCallback`).
* Sub-agents: the result of an unknown agent has no TaskID; the state given to a
  sub-agent is never passed to its run; the executor never initializes a
  definition and uses the managers of whoever initialized it last, possibly mixed
  of two deployments. Two overlapping creations from one definition may do the same.
* Custom tools registered before a graph builder fails stay registered; custom
  middleware and the files of `StateBackend`'s FilesUpdate are applied by nobody.

LLM

* A reply that ends without saying so is reported as complete when the body is
  closed between two chunks: every stream, and Ollama's whole reply although
  `ollama.go:189` reads "until done=true" (`Concluded`; `RepliesAreWhole` names the
  case). So is a canceled OpenAI stream (`openai.go:338`). The usage chunk of OpenAI has no choices,
  so the collector skips it; early exit after a first complete tool call cuts off
  later ones; Gemini's collection ignores early exit.
* OpenAI's Retry-After is lost; Ollama streams are never retried; Ollama ignores
  the system prompt of a request and drops system messages of a conversation that
  opens with the assistant.
* `Unregister` closes a provider that callers still use; concurrent switches of
  streaming can tear its two settings.

Manager and servers

* "Health checkers run for exactly as long as the manager does"
  (`multi_agent_manager.go:1893`) fails for overlapping Start and Stop, which can
  also panic in the reuse of a WaitGroup; a checker of a timed-out Stop may write
  into later states; two concurrent Restarts leave goroutines with old checkers.
* The limiter takes a global token for requests it then refuses per address, and
  eviction gives a fresh budget; errors between the swaps of a Restart are lost
  from the total; a request that ends after Stop sets its agent to "running"; the
  total of `metricsMiddleware` holds the calls of management endpoints, so it is not
  the sum over agents; a Restart that fails counts an error that no agent has.
* `GetAgentByPath` ignores the type of routing, methods, conditions and the
  management endpoints, and takes `/x/{id}` literally. A path without a slash or
  with unbalanced braces is refused by mux; `setupRoutingRule` does not look, so the
  rule matches nothing and nobody is told, although "failures are now reported and
  abort startup" (`multi_agent_manager.go:449-452`). `RoutingIsConsistent` and
  `VerdictsAgree` hold because they name these patterns (`Templated`, `Obscured`):
  everything else is shown to agree. An agent without a port gets 8080, which another may hold.
* Stop's sweep misses a socket that registers after it; a graph that is replaced
  can no longer be interrupted; creating a pipeline overwrites a graph of the
  application although `pipeline_api.go:16-19` says it must not be; pipeline ids
  with spaces are refused because edges use them untrimmed.
* AutoServer: middleware counts requests twice when endpoints are generated before
  Start; a Start that cannot bind leaves `started` set; registration from a plugin
  is not all or nothing; a plain-string output is reported valid unvalidated.
* AutoServer: executions that are streamed are not in the metrics of an agent and
  run under a context of their own, which the client's leaving does not end
  (`createAgentStreamHandler`).
* The validator does not enforce `additionalProperties` without `properties` and
  compares enums as text. It counts bytes where it says "characters"
  (`schema_validation.go:90-95`): a message within the advertised `maxLength` is
  refused if its letters take more bytes. `ValidatorIsRight` names the case
  (`Miscounted`) and shows that there is no other. Generating on a server that
  serves, which `auto_server.go:332-333` excludes, happens when two Starts overlap; the
  model takes adding a route to mux as one step and leaves out that race's reads.

Tools, builder, commands

* `file_write` truncates and then writes, so parallel writes of one reply to one
  file mix, and a failed write loses the old content; appends may grow a file
  beyond what `file_read` accepts; a recursive `file_list` fails if an entry
  vanishes while a flat one skips it.
* The calculator joins "1 2" to 12 and refuses "-5-3"; `SetConfig` of the shell
  tool changes what is reported, not what is honoured; `MaxRedirects` n allows n-1.
* `WithLLM` on a registered name keeps the old provider though documented "adds or
  configures"; overlapping executions of one workflow make agents refuse as busy.
* A subscriber of the visualizer that reads the history deadlocks;
  `GetGraphTopology` does not draw route tables.
* `serve --hot-reload` misses a change between the initial load (`main.go:615`) and
  the start of its watcher (327-329); `auto-serve --watch` hangs after an error
  until a signal, joining a goroutine nobody cancels
  (`auto_serve_command.go:146-152`). `FollowsFile` says where a command can end up
  and lists these two places among the others.
* `multi-agent deploy` to kubernetes of a file without a `deployment` section
  writes one with 0 replicas after validation, which the container's own `serve`
  refuses, though it promises the same manifests as the generator
  (`multi_agent_commands.go`, about line 565).
* `validate` refuses what `init` writes for the templates `advanced` (whose `agents`
  is a list) and `rag`; `interrupt_on` is not among the keys it knows, so that
  `--strict` warns about every generated agent file. It refuses 500.5 as a number
  of tokens, which the decoder of a fleet truncates, so that a fleet that was
  accepted may fail when its containers start. Keys in camelCase are ignored by
  that decoder, null is printed as a model named `<nil>`, and an explicit 0 becomes
  the default; the message of a limit names 100 as the least, and 100 is refused.
* The strict checks accept a fleet with a rule that a prefix rule before it shadows,
  one whose only pattern mux refuses or a template covers,
  and an agent under the key "", which a load skips.
* The README that `multi-agent init` writes tells to `kubectl apply -k k8s/`, where
  the manifests of a project without `generate k8s` have no kustomization; its
  docker-compose file builds `.` without a Dockerfile, and names
  `configs/multi-agent.yaml` when the format is JSON. It overwrites without `--force`,
  manifests of `generate k8s` included, whose kustomization is written first and so
  is left dangling when a later write fails.

## 8. Not modelled, and why

* Node functions, conditions, reducers, tools, models and the database are code
  of users or services: any outcome they can have is allowed, their data is not.
* Providers, HTTP handlers and commands as far as they print, serve pages or talk
  to docker and kubectl; CORS, JWT, headers; formats of files beyond the values
  they hold; timeouts of agent files.
* Searches by similarity and `TimeTravel`: one query each.
* Of the agent: commands returned by tools (`__goto__` is read by no router);
  the configuration or the graph replaced during a run; todo lists; the global
  part of `SharedState`, a map under one lock. The seed is modelled with the
  conversation the agent has, and the summary of a conversation as one step,
  though it reads, clears and adds again.
* `src/examples`: programs that use the library, with no logic of its own.

## 9. What is left

* Theorems: `FilesAreFound` and `ShowsWhatHappened`; the counters of one request in
  `MetricsAddUp`; `AgentsAreAsDefined`.
* Modules: the shared part of `TimeTravel`; a socket session composed with
  `RunContract` instead of a line of nodes.
