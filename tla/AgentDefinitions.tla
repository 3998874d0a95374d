---------------------------- MODULE AgentDefinitions ----------------------------
(* Agents made from registered definitions, factories and configurations     *)
(* (pkg/agent/agent_definition.go, initializeAgents of the multi-agent       *)
(* manager). A definition is one object for all who create agents from it:   *)
(* they write their managers into it, without a lock, and read them back.    *)
(* The server, a manager that starts or restarts, and the executor of        *)
(* sub-agents may do so at the same time, for different deployments.         *)
EXTENDS Naturals, Sequences, FiniteSets, SequencesExt

CONSTANTS
    Creators,       \* goroutines that create agents
    Deployments,    \* each a provider manager and a tool registry
    Ids,            \* agents
    Definitions,    \* what a definition may say: [valid, given, builder, tools]; whether a
                    \* graph is given, builder "none", "fine" or "fails", tools "none",
                    \* "given" or "provided" by a function
    None,           \* no manager
    MaxObjects, MaxAgents   \* bounds

VARIABLES
    definitions,    \* AgentRegistry.definitions: id -> its object
    factories,      \* AgentRegistry.factories: id -> what the definitions it makes say
    objects,        \* definition objects: [says, llm, tools]
    installed,      \* tool registry -> who made the custom tool it has, <<>> if none
    pc,             \* creator -> its call
    agents,         \* agents that were returned
    overlapped      \* ghost: objects that two creations of agents used at once

vars == <<definitions, factories, objects, installed, pc, agents, overlapped>>

Idle == [at |-> "idle"]
NewObject(says) == [says |-> says, llm |-> None, tools |-> None]

Init ==
    /\ definitions = <<>> /\ factories = <<>> /\ objects = <<>>
    /\ installed = [d \in Deployments |-> <<>>]
    /\ pc = [c \in Creators |-> Idle] /\ agents = <<>> /\ overlapped = {}

Extended(f, id, x) == [i \in DOMAIN f \union {id} |-> IF i = id THEN x ELSE f[i]]

RegisterDefinition(id, says) ==
    /\ id \notin DOMAIN definitions /\ says.valid /\ Len(objects) < MaxObjects
    /\ objects' = Append(objects, NewObject(says))
    /\ definitions' = Extended(definitions, id, Len(objects'))
    /\ UNCHANGED <<factories, installed, pc, agents, overlapped>>

(* Nobody validates what a factory makes.                                    *)
RegisterFactory(id, says) ==
    /\ id \notin DOMAIN factories
    /\ factories' = Extended(factories, id, says)
    /\ UNCHANGED <<definitions, objects, installed, pc, agents, overlapped>>

-------------------------------------------------------------------------------
Using(object) == {c \in Creators : pc[c] # Idle /\ pc[c].object = object}

Bug_MadeOnce(says) ==
    IF \E n \in DOMAIN objects : objects[n].says = says /\ n \notin {definitions[id] : id \in DOMAIN definitions}
    THEN CHOOSE n \in DOMAIN objects : objects[n].says = says ELSE Len(objects) + 1

(* A factory makes a new definition each time.                               *)
Made(says) == Len(objects) + 1

Begin(c, at, id, deployment, from, object) ==
    /\ pc[c] = Idle /\ Len(agents) + Cardinality({d \in Creators : pc[d] # Idle}) < MaxAgents
    /\ pc' = [pc EXCEPT ![c] = [at |-> at, id |-> id, deployment |-> deployment, from |-> from, object |-> object,
                                llm |-> None, tools |-> None, graph |-> <<"own", c>>]]
    /\ overlapped' = IF Using(object) = {} THEN overlapped \ {object} ELSE overlapped \union {object}

(* initializeAgents asks for a definition, then for a factory, and uses the  *)
(* configuration otherwise. CreateAgentFromDefinition is also what the       *)
(* server calls.                                                             *)
Create(c, id, deployment) ==
    /\ \/ /\ id \in DOMAIN definitions
          /\ Begin(c, "initialize", id, deployment, "definition", definitions[id])
          /\ UNCHANGED objects
       \/ /\ id \notin DOMAIN definitions /\ id \in DOMAIN factories
          /\ Made(factories[id]) <= MaxObjects
          /\ Begin(c, "initialize", id, deployment, "factory", Made(factories[id]))
          /\ objects' = IF Made(factories[id]) \in DOMAIN objects THEN objects ELSE Append(objects, NewObject(factories[id]))
       \/ /\ id \notin DOMAIN definitions \union DOMAIN factories
          /\ Begin(c, "from config", id, deployment, "config", 0)
          /\ UNCHANGED objects
    /\ UNCHANGED <<definitions, factories, installed, agents>>

(* The executor of sub-agents leaves out Initialize: it needs a definition   *)
(* that someone else has initialized.                                        *)
CreateSubAgent(c, id) ==
    /\ id \in DOMAIN definitions
    /\ Begin(c, "create", id, None, "sub-agent", definitions[id])
    /\ UNCHANGED <<definitions, factories, objects, installed, agents>>

Bug_OnlyOnce(old, new) == IF old = None THEN new ELSE old

Initialized(old, new) == new

(* Two assignments.                                                          *)
Initialize(c) ==
    LET job == pc[c] IN
    /\ \/ /\ job.at = "initialize"
          /\ objects' = [objects EXCEPT ![job.object].llm = Initialized(@, job.deployment)]
          /\ pc' = [pc EXCEPT ![c].at = "initialize tools"]
       \/ /\ job.at = "initialize tools"
          /\ objects' = [objects EXCEPT ![job.object].tools = Initialized(@, job.deployment)]
          /\ pc' = [pc EXCEPT ![c].at = "create"]
    /\ UNCHANGED <<definitions, factories, installed, agents, overlapped>>

(* BaseAgentDefinition.CreateAgent and NewAgent, which builds the graph of   *)
(* the agent's type.                                                         *)
CreateAgent(c) ==
    LET job == pc[c] IN
    /\ job.at \in {"create", "from config"}
    /\ pc' = [pc EXCEPT ![c] =
                IF job.at = "from config" THEN [job EXCEPT !.at = "return", !.llm = job.deployment, !.tools = job.deployment]
                ELSE LET object == objects[job.object] IN
                     IF None \in {object.llm, object.tools} THEN [job EXCEPT !.at = "failed"]
                     ELSE [job EXCEPT !.at = "tools", !.llm = object.llm, !.tools = object.tools]]
    /\ UNCHANGED <<definitions, factories, objects, installed, agents, overlapped>>

(* Custom tools go to the registry the definition has by then; one that is   *)
(* registered under the name already stays, and the error is dropped.        *)
RegisterTools(c) ==
    LET job == pc[c]  object == objects[job.object] IN
    /\ job.at = "tools"
    /\ installed' = IF object.says.tools = "none" \/ installed[object.tools] # <<>> THEN installed
                    ELSE [installed EXCEPT ![object.tools] =
                              IF object.says.tools = "given" THEN <<job.object>> ELSE <<job.object, Len(agents), c>>]
    /\ pc' = [pc EXCEPT ![c].at = "graph"]
    /\ UNCHANGED <<definitions, factories, objects, agents, overlapped>>

Bug_GivenFirst(says) == IF says.given THEN "given" ELSE says.builder

(* BuildGraph: a builder is preferred to a graph that was given.             *)
BuildGraph(says) == IF says.builder # "none" THEN says.builder ELSE IF says.given THEN "given" ELSE "own"

ApplyGraph(c) ==
    LET job == pc[c]  built == BuildGraph(objects[job.object].says) IN
    /\ job.at = "graph"
    /\ pc' = [pc EXCEPT ![c] = CASE built = "fails" -> [job EXCEPT !.at = "failed"]
                                 [] built = "given" -> [job EXCEPT !.at = "return", !.graph = <<"given", job.object>>]
                                 [] OTHER -> [job EXCEPT !.at = "return"]]
    /\ UNCHANGED <<definitions, factories, objects, installed, agents, overlapped>>

(* A graph that was built for an agent is named by the agent here.           *)
Return(c) ==
    LET job == pc[c] IN
    /\ job.at \in {"return", "failed"}
    /\ agents' = IF job.at = "failed" THEN agents
                 ELSE Append(agents, [from |-> job.from, deployment |-> job.deployment, object |-> job.object,
                                      llm |-> job.llm, tools |-> job.tools, alone |-> job.object \notin overlapped,
                                      graph |-> IF job.graph[1] = "given" THEN job.graph ELSE <<"own", Len(agents) + 1>>])
    /\ pc' = [pc EXCEPT ![c] = Idle]
    /\ UNCHANGED <<definitions, factories, objects, installed, overlapped>>

Next ==
    \/ \E id \in Ids, says \in Definitions : RegisterDefinition(id, says) \/ RegisterFactory(id, says)
    \/ \E c \in Creators :
          \/ \E id \in Ids, d \in Deployments : Create(c, id, d)
          \/ \E id \in Ids : CreateSubAgent(c, id)
          \/ Initialize(c) \/ CreateAgent(c) \/ RegisterTools(c) \/ ApplyGraph(c) \/ Return(c)

-------------------------------------------------------------------------------
(* An agent has the provider manager and the tools of the deployment it was  *)
(* created for, whatever other deployments created from the same definition  *)
(* before, unless their calls overlapped on one registered definition; those *)
(* made by factories and from configurations even then. No agent lacks them. *)
ManagersAreTheirs ==
    \A i \in DOMAIN agents : LET a == agents[i] IN
        /\ None \notin {a.llm, a.tools}
        /\ a.from \in {"factory", "config"} \/ (a.from = "definition" /\ a.alone)
              => a.llm = a.deployment /\ a.tools = a.deployment

(* Two agents work on one graph only if it was given to the definition both  *)
(* come from, which has no builder.                                          *)
GraphsAreTheirOwn ==
    \A i, j \in DOMAIN agents :
        i # j /\ agents[i].graph = agents[j].graph
            => /\ agents[i].object = agents[j].object
               /\ objects[agents[i].object].says.given /\ objects[agents[i].object].says.builder = "none"

(* The custom tools of its definition are in the registry an agent uses.     *)
ToolsAreThere ==
    \A i \in DOMAIN agents : LET a == agents[i] IN
        a.alone /\ a.object # 0 /\ objects[a.object].says.tools # "none" => installed[a.tools] # <<>>

(* An agent has what its definition and its deployment say. *)
AgentsAreAsDefined == ManagersAreTheirs /\ GraphsAreTheirOwn /\ ToolsAreThere
===============================================================================
