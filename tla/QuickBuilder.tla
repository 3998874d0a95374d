------------------------------ MODULE QuickBuilder ------------------------------
(* The builder shortcuts (pkg/builder/quick.go): providers found in the      *)
(* environment or added, agents that are given the best of them, and         *)
(* pipelines and swarms, whose agents are registered under their places the  *)
(* first time the workflow is run, by whichever of its callers comes first.  *)
EXTENDS Naturals, Sequences, FiniteSets, SequencesExt

CONSTANTS
    Callers,        \* goroutines that run workflows
    Keys,           \* what the environment may have: sets of names of providers
    Others,         \* names of providers that WithLLM does not know
    Places,         \* agents of a workflow: sequences of indices of agents made so far
    MaxAgents, MaxAdded, MaxCalls   \* bounds

VARIABLES
    config,         \* provider -> the configuration it was registered with
    added,          \* calls of WithLLM so far
    agents,         \* agents made so far: [provider, among], what was registered then
    running,        \* agents whose isRunning is set
    workflow,       \* AgentPipeline or AgentSwarm: [mode, members, ids]
    registered,     \* its coordinator's agents: id -> member
    call,           \* caller -> its call of Execute
    calls           \* calls so far

vars == <<config, added, agents, running, workflow, registered, call, calls>>
building == <<config, added, agents>>

Idle == [at |-> "idle"]

(* NewQuickBuilder: Ollama needs no key.                                     *)
Init ==
    /\ \E keys \in Keys : config = [p \in keys \union {"ollama"} |-> "environment"]
    /\ added = 0 /\ agents = <<>> /\ running = {}
    /\ workflow = [mode |-> "none", members |-> <<>>, ids |-> <<>>] /\ registered = <<>>
    /\ call = [c \in Callers |-> Idle] /\ calls = 0

(* WithLLM: a name it does not know is ignored, a configuration without a    *)
(* key makes no provider, and a provider that is registered stays as it is.  *)
WithLLM(provider, fine) ==
    /\ added < MaxAdded /\ added' = added + 1 /\ workflow.mode = "none"
    /\ config' = IF fine /\ provider \notin Others \union DOMAIN config
                 THEN [p \in DOMAIN config \union {provider} |-> IF p = provider THEN "program" ELSE config[p]]
                 ELSE config
    /\ UNCHANGED <<agents, running, workflow, registered, call, calls>>

Bug_GeminiFirst == <<"gemini", "openai", "ollama">>

Preferred == <<"openai", "gemini", "ollama">>

(* getBestProvider: those preferred, in order, then whichever the map lists  *)
(* first, and "" without any.                                                *)
BestProvider(available) ==
    LET known == {i \in DOMAIN Preferred : Preferred[i] \in available} IN
    IF known # {} THEN {Preferred[CHOOSE i \in known : \A j \in known : i <= j]}
    ELSE IF available # {} THEN available ELSE {""}

(* Chat, ReAct, Tool, RAG, Researcher, Writer, Analyst and Coder.            *)
NewAgent ==
    /\ Len(agents) < MaxAgents
    /\ \E best \in BestProvider(DOMAIN config) :
          agents' = Append(agents, [provider |-> best, among |-> DOMAIN config])
    /\ UNCHANGED <<config, added, running, workflow, registered, call, calls>>

(* Pipeline and Swarm.                                                       *)
NewWorkflow(mode, members) ==
    /\ workflow.mode = "none" /\ ToSet(members) \subseteq DOMAIN agents
    /\ workflow' = [mode |-> mode, members |-> members, ids |-> <<>>]
    /\ UNCHANGED <<building, running, registered, call, calls>>

-------------------------------------------------------------------------------
(* Execute.                                                                  *)
Execute(c) ==
    /\ workflow.mode # "none" /\ call[c] = Idle /\ calls < MaxCalls /\ calls' = calls + 1
    /\ call' = [call EXCEPT ![c] = [at |-> "register", ids |-> <<>>, work |-> <<>>, results |-> <<>>]]
    /\ UNCHANGED <<building, running, workflow, registered>>

Bug_NamedAlike(i) == 1

(* Agents are named after their places.                                      *)
AgentName(i) == i

(* register, under the workflow's lock.                                      *)
Register(c) ==
    LET ids == IF workflow.ids # <<>> THEN workflow.ids ELSE [i \in DOMAIN workflow.members |-> AgentName(i)] IN
    /\ call[c].at = "register"
    /\ workflow' = [workflow EXCEPT !.ids = ids]
    /\ registered' = IF workflow.ids # <<>> THEN registered
                     ELSE [id \in ToSet(ids) |-> workflow.members[CHOOSE i \in DOMAIN ids : ids[i] = id]]
    /\ call' = [call EXCEPT ![c].at = "running", ![c].ids = ids,
                            ![c].work = [i \in DOMAIN ids |-> IF i = 1 \/ workflow.mode = "swarm" THEN "ready" ELSE "later"]]
    /\ UNCHANGED <<building, running, calls>>

(* An agent refuses to run twice at once; otherwise it answers or fails.     *)
Ended(c, i, how) ==
    call' = [call EXCEPT
        ![c].work = [j \in DOMAIN @ |-> IF j = i THEN how
                                        ELSE IF @[j] # "later" THEN @[j]
                                        ELSE IF how = "failed" THEN "skipped" ELSE IF j = i + 1 THEN "ready" ELSE "later"],
        ![c].results = IF how = "done" THEN Append(@, [id |-> call[c].ids[i], by |-> registered[call[c].ids[i]]]) ELSE @]

AgentBegins(c, i) ==
    LET member == registered[call[c].ids[i]] IN
    /\ call[c].at = "running" /\ call[c].work[i] = "ready"
    /\ IF member \in running
       THEN /\ call' = [call EXCEPT ![c].work = [j \in DOMAIN @ |-> IF j = i THEN "failed" ELSE IF @[j] = "later" THEN "skipped" ELSE @[j]]]
            /\ UNCHANGED running
       ELSE running' = running \union {member} /\ call' = [call EXCEPT ![c].work[i] = "running"]
    /\ UNCHANGED <<building, workflow, registered, calls>>

AgentEnds(c, i) ==
    /\ call[c].at = "running" /\ call[c].work[i] = "running"
    /\ running' = running \ {registered[call[c].ids[i]]}
    /\ \E how \in {"done", "failed"} : Ended(c, i, how)
    /\ UNCHANGED <<building, workflow, registered, calls>>

Bug_AsTheyCame(ids, results) == results

(* A swarm puts the results of its map in the order of its agents: the k-th   *)
(* is that of the k-th of the agents that have one.                          *)
Ordered(ids, results) ==
    LET by(i) == {j \in DOMAIN results : results[j].id = ids[i]}
        there == {i \in DOMAIN ids : by(i) # {}}
        place(k) == CHOOSE i \in there : Cardinality({h \in there : h <= i}) = k IN
    [k \in 1 .. Cardinality(there) |-> results[CHOOSE j \in by(place(k)) : TRUE]]

(* A swarm with an error gives no results, a pipeline those it has.          *)
Return(c) ==
    LET work == call[c].work IN
    /\ call[c].at = "running" /\ \A i \in DOMAIN work : work[i] \in {"done", "failed", "skipped"}
    /\ call' = [call EXCEPT ![c].at = IF \A i \in DOMAIN work : work[i] = "done" THEN "answered" ELSE "failed",
                            ![c].results = IF workflow.mode = "pipeline" THEN @
                                           ELSE IF \E i \in DOMAIN work : work[i] # "done" THEN <<>>
                                           ELSE Ordered(call[c].ids, @)]
    /\ UNCHANGED <<building, running, workflow, registered, calls>>

Leave(c) ==
    /\ call[c].at \in {"answered", "failed"}
    /\ call' = [call EXCEPT ![c] = Idle]
    /\ UNCHANGED <<building, running, workflow, registered, calls>>

Next ==
    \/ \E p \in {"openai", "gemini", "ollama"} \union Others, fine \in BOOLEAN : WithLLM(p, fine)
    \/ NewAgent
    \/ \E mode \in {"pipeline", "swarm"}, members \in Places : NewWorkflow(mode, members)
    \/ \E c \in Callers :
          \/ Execute(c) \/ Register(c) \/ Return(c) \/ Leave(c)
          \/ \E i \in DOMAIN workflow.members : AgentBegins(c, i) \/ AgentEnds(c, i)

-------------------------------------------------------------------------------
(* An agent names a provider that was registered when it was made: OpenAI    *)
(* before Gemini before Ollama. It still is, as nothing takes one away, and  *)
(* what the environment had configured stays in use.                         *)
ProvidersExist ==
    \A i \in DOMAIN agents :
        LET a == agents[i] IN
        /\ a.provider \in a.among /\ a.among \subseteq DOMAIN config /\ config["ollama"] = "environment"
        /\ a.provider # "openai" => "openai" \notin a.among
        /\ a.provider = "ollama" => a.among = {"ollama"}

(* Whoever registers first, all callers run the agents the workflow was      *)
(* given, and an answer has one result of each, in their order. What a       *)
(* pipeline gives with an error are the results of its first agents, and a   *)
(* failed call shows an agent that failed or was busy.                       *)
ResultsInOrder ==
    \A c \in Callers : LET r == call[c] IN
        /\ r.at = "answered" => Len(r.results) = Len(workflow.members)
        /\ r.at \in {"answered", "failed"} =>
              \A i \in DOMAIN r.results : r.results[i].by = workflow.members[i]
        /\ r.at = "failed" => \E i \in DOMAIN r.work : r.work[i] = "failed"

(* Shortcuts give what their names say. *)
ShortcutsAreSound == ProvidersExist /\ ResultsInOrder
===============================================================================
