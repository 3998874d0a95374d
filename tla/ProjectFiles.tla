----------------------------- MODULE ProjectFiles -----------------------------
(* The commands that write a project and deploy it: init and multi-agent     *)
(* init, the generators, docker build and the deployments. Each is a process *)
(* of its own that writes one file after another: a write may fail or be cut *)
(* off, the process may be killed, and two shells may work on one directory. *)
(* What a file holds is a record; an agent file is one of module AgentChecks.*)
(* Flags are valid ones, dry runs and timeouts are left out.                 *)
EXTENDS AgentChecks

CONSTANTS Shells,       \* terminals
          Projects,     \* [disk, errands]: a directory, and what each shell is to run in it
          AgentIds,     \* the ids agent-1, agent-2, ...
          NotNames      \* ids that cannot be the name of a file

IsId(a) == a \notin {"", None}

ASSUME IdsAssumption ==
    /\ Len(AgentIds) \in Nat /\ DOMAIN AgentIds = 1..Len(AgentIds)
    /\ \A i, j \in DOMAIN AgentIds : AgentIds[i] = AgentIds[j] => i = j
    /\ \A i \in DOMAIN AgentIds : IsId(AgentIds[i]) /\ AgentIds[i] \notin {"variable", "brace"} /\ <<"POST", <<"/", AgentIds[i]>>>> \notin Management
    /\ <<"POST", <<"/">>>> \notin Management

VARIABLES disk,         \* path -> content, temporary directories included
          shells        \* shell -> the command it runs and how far it is

projectVars == <<disk, shells>>

AgentFile == <<"configs", "agent-config">>
FleetFile == <<"configs", "multi-agent">>
Dockerfile == <<"Dockerfile.agent">>
Compose == <<"deploy", "docker-compose">>

Holds(file) == [kind |-> "file", file |-> file]
Other(text) == [kind |-> "text", text |-> text]
Partial == [kind |-> "partial"]
Unwritable == [kind |-> "unwritable"]
Operators == Other("by the operator")

WithDocker == {"docker build", "deploy docker", "deploy fleet to docker"}

-------------------------------------------------------------------------------
(* yaml.Marshal of an AgentConfig.                                           *)
TextValue(text) == [kind |-> "text", text |-> text]
NumberValue(tenths) == [kind |-> "number", tenths |-> tenths]
ListValue(texts) == [kind |-> "list", items |-> {TextValue(t) : t \in texts}]

Encode(c) ==
    [kind |-> "map",
     fields |-> [id |-> TextValue(c.id), name |-> TextValue(c.name), type |-> TextValue(c.type),
                 model |-> TextValue(c.model), provider |-> TextValue(c.provider),
                 system_prompt |-> TextValue(c.prompt), temperature |-> NumberValue(c.temperature),
                 max_tokens |-> NumberValue(10 * c.tokens), max_iterations |-> NumberValue(10 * c.iterations),
                 tools |-> ListValue(c.tools), interrupt_on |-> [kind |-> "list", items |-> c.interrupts],
                 metadata |-> [kind |-> "map", entries |-> c.metadata]]]

Marshalled(file) == [file EXCEPT !.agents = [a \in DOMAIN @ |-> Encode(Decoded(@[a]))]]

(* A file without sections on routing and deployment.                        *)
Unrouted(shape, name, agents, deployment) ==
    [shape |-> shape, name |-> name, agents |-> agents, routed |-> FALSE, type |-> "", default |-> None,
     rules |-> <<>>, deployment |-> deployment]
NoDeployment == [replicas |-> 1, ports |-> <<>>, healthSettings |-> <<>>, agentSpecific |-> {}, scaling |-> <<>>]

-------------------------------------------------------------------------------
(* createMultiAgentConfig: DefaultMultiAgentConfig with the agents of a      *)
(* template. Maps are ranged over in any order, so the order of the rules    *)
(* and the default vary.                                                     *)
TemplateTypes(template) ==
    CASE template = "basic"         -> <<"chat", "react", "tool">>
      [] template = "microservices" -> <<"chat", "react", "tool", "chat", "react">>
      [] template = "rag"           -> <<"react", "react", "react">>
      [] template = "workflow"      -> <<"tool", "react", "react", "tool", "chat">>

TemplateTools(template, i) ==
    CASE template = "basic"         -> {"calculator", "web_search"}
      [] template = "microservices" -> <<{"user_db", "auth"}, {"payment", "inventory"}, {"database", "calculator"},
                                         {"email", "sms"}, {"database", "calculator", "chart"}>>[i]
      [] template = "rag"           -> {"vector_search", "document_loader", "summarizer"}
      [] template = "workflow"      -> {"validator", "planner", "executor"}

(* Only the basic template has as many agents as are asked for.              *)
AgentCount(c) ==
    IF c.template = "basic" \/ c.count <= Len(TemplateTypes(c.template)) THEN c.count ELSE Len(TemplateTypes(c.template))

TemplateAgent(template, i) ==
    [id |-> AgentIds[i], name |-> "name", type |-> TemplateTypes(template)[((i - 1) % Len(TemplateTypes(template))) + 1],
     model |-> "gpt", provider |-> "openai", prompt |-> "prompt", temperature |-> 7, tokens |-> 1000,
     iterations |-> 10, tools |-> TemplateTools(template, i), metadata |-> <<>>, interrupts |-> {}]

(* setupRoutingRules.                                                        *)
PatternFor(routing, id) ==
    CASE routing = "path"   -> <<"/", id>>
      [] routing = "host"   -> <<id, ".example.com">>
      [] routing = "header" -> <<"X-Agent-ID", ":", id>>
      [] routing = "query"  -> <<"agent", "=", id>>

TemplateRule(c, i, a) ==
    [id |-> i, pattern |-> PatternFor(c.routing, a), match |-> "", agent |-> a, priority |-> 100 - i,
     method |-> "POST", conditions |-> <<>>]
DefaultPort == [port |-> 8080, agent |-> ""]
TemplateDeployment ==
    [NoDeployment EXCEPT !.ports = <<DefaultPort>>, !.healthSettings = <<8080, 30, 10, 5, 1, 3>>]

TemplateFleet(c, order, default) ==
    LET n == AgentCount(c) IN
    [shape |-> "agents", name |-> "example-multi-agent", routed |-> TRUE, type |-> c.routing,
     agents |-> [a \in {AgentIds[i] : i \in 1..n} |->
                    Encode(TemplateAgent(c.template, CHOOSE i \in 1..n : AgentIds[i] = a))],
     default |-> AgentIds[default],
     rules |-> [i \in 1..n |-> TemplateRule(c, i, AgentIds[order[i]])],
     deployment |-> TemplateDeployment]

Orders(n) == {f \in [1..n -> 1..n] : \A i, j \in 1..n : f[i] = f[j] => i = j}
TemplateFleets(c) ==
    {TemplateFleet(c, order, default) : order \in Orders(AgentCount(c)), default \in 1..AgentCount(c)}

(* createBasicTemplate and those built on it: the agent files of init.       *)
InitFields ==
    [name |-> TextValue("basic-agent"), type |-> TextValue("chat"), model |-> TextValue("gpt"),
     provider |-> TextValue("openai"), system_prompt |-> TextValue("prompt"), temperature |-> NumberValue(7),
     max_tokens |-> NumberValue(10000),
     tools |-> [kind |-> "list", items |-> {[kind |-> "map", text |-> "calculator", enabled |-> TRUE],
                                            [kind |-> "map", text |-> "web_search", enabled |-> FALSE]}],
     database |-> [kind |-> "map"]]
InitFile ==
    Unrouted("single", "", [key \in {""} |-> [kind |-> "map", fields |-> InitFields]], NoDeployment)

-------------------------------------------------------------------------------
(* Commands have valid flags, and files the fields that the decoders know.   *)
ValidCommand(c) ==
    \/ c.op = "init" /\ c.template \in {"basic", "advanced", "rag"} /\ c.force \in BOOLEAN
    \/ /\ c.op = "multi init" /\ c.template \in {"basic", "microservices", "rag", "workflow"}
       /\ c.count \in Nat \ {0}
       /\ AgentCount(c) <= Len(AgentIds) /\ c.routing \in {"path", "host", "header", "query"}
    \/ c.op = "generate docker" /\ c.multi \in BOOLEAN
    \/ c.op \in {"generate k8s", "deploy fleet to k8s"} \union WithDocker
Errands == {c \in UNION {ToSet(p.errands[s]) : p \in Projects, s \in Shells} : ValidCommand(c)}

Shaped(file) ==
    /\ DOMAIN file = {"shape", "name", "agents", "routed", "type", "default", "rules", "deployment"}
    /\ IsFiniteSet(DOMAIN file.agents) /\ FileOk(file)
    /\ DOMAIN file.deployment = {"replicas", "ports", "healthSettings", "agentSpecific", "scaling"}

ASSUME ProjectsAssumption ==
    \A p \in Projects :
        /\ p.errands \in [Shells -> Seq(Errands)]
        /\ \A path \in DOMAIN p.disk : /\ path[1] # "temp" /\ (p.disk[path] = Operators => path = Dockerfile)
                                       /\ p.disk[path].kind = "file" => Shaped(p.disk[path].file)

-------------------------------------------------------------------------------
(* What a command writes: a sequence of sets of <<path, content>>, those of  *)
(* one set in any order.                                                     *)
Only(path, content) == {<<path, content>>}

InitWrites(template) ==
    <<Only(<<"go.mod">>, Other("go.mod")), Only(<<"main.go">>, Other("main.go")),
      Only(<<"README.md">>, Other(template)), Only(<<".gitignore">>, Other(".gitignore")),
      Only(AgentFile, Holds(InitFile)), Only(<<"docker-compose.yml">>, Other("postgres"))>>
    \o (IF template = "basic" THEN <<>>
        ELSE <<Only(<<"configs", "advanced-config">>, Holds([InitFile EXCEPT !.shape = "list"]))>>)
    \o (IF template = "rag" THEN <<Only(<<"configs", "rag-config">>, Other("rag"))>> ELSE <<>>)

AgentPath(a) == <<"agents", a, "config">>

(* runMultiAgentInit: createIndividualAgentConfigs ranges over a map.        *)
FleetWrites(file) ==
    <<Only(FleetFile, Holds(file)),
      {<<AgentPath(a), Holds(Unrouted("single", "", [key \in {""} |-> file.agents[a]], NoDeployment))>> :
          a \in DOMAIN file.agents},
      Only(<<"docker-compose.yml">>, Other("multi-agent")), Only(<<"k8s", "deployment">>, Other("init")),
      Only(<<"k8s", "service">>, Other("init")), Only(<<"README.md">>, Other("multi-agent"))>>

Bug_KeepsPeers(deployment, a) == deployment

(* The health checks of the other agents are left out.                       *)
DeploymentForAgent(deployment, a) == [deployment EXCEPT !.agentSpecific = @ \intersect {a}]

OneAgent(file, a) ==
    Unrouted("agents", file.name, [b \in {a} |-> Encode(Decoded(file.agents[a]))],
             DeploymentForAgent(file.deployment, a))

ConfigPath(name) == <<"deploy", "configs", name>>

(* dockerComposeFor: in a multi-service file each agent has its service, its *)
(* port and its configuration.                                               *)
Service(name, port, agents) == [name |-> name, port |-> port, agents |-> agents, config |-> ConfigPath(name)]
Services(file, multi) ==
    LET ids == SetToSeq(DOMAIN file.agents)
    IN  IF multi THEN {Service(ids[i], 8079 + i, {ids[i]}) : i \in DOMAIN ids}
        ELSE {Service("multi-agent", 8080, DOMAIN file.agents)}

(* writeDockerArtifacts; agents in the order of their ids.                   *)
DockerWrites(file, multi) ==
    LET ids == SetToSeq(DOMAIN file.agents)
    IN  (IF multi
         THEN [i \in DOMAIN ids |-> Only(ConfigPath(ids[i]), IF ids[i] \in NotNames THEN Unwritable
                                                             ELSE Holds(OneAgent(file, ids[i])))]
         ELSE <<Only(ConfigPath("multi-agent"), Holds(Marshalled(file)))>>)
        \o <<Only(Compose, [kind |-> "compose", services |-> Services(file, multi)]),
             Only(<<"deploy", "Dockerfile">>, Other("multi-agent"))>>

Resources == {"namespace", "configmap", "service", "deployment"}

(* writeK8sManifests: in the order of the names.                             *)
K8sWrites(root, file) ==
    LET At(name, content) == Only(root \o <<name>>, content)
    IN  <<At("configmap", Holds(Marshalled(file))), At("deployment", Other("k8s")),
          At("kustomization", [kind |-> "kustomization", resources |-> Resources]),
          At("namespace", Other("k8s")), At("service", Other("k8s"))>>

-------------------------------------------------------------------------------
AgentFiles(path) ==
    IF path \in DOMAIN disk /\ disk[path].kind = "file" THEN {disk[path].file} ELSE {}

Validates(file) == LoadsAgents(file) /\ \A key \in DOMAIN file.agents : SoundAgent(AgentOf(file, key))

(* What a command goes by: what it makes up, or the file it reads, unless it *)
(* refuses that.                                                             *)
Sources(c) ==
    CASE c.op = "init"          -> {InitFile}
      [] c.op = "multi init"    -> TemplateFleets(c)
      [] c.op = "docker build"  -> {f \in AgentFiles(AgentFile) : LoadsAgents(f)}
      [] c.op = "deploy docker" -> {f \in AgentFiles(AgentFile) : Validates(f)}
      [] c.op = "deploy fleet to docker" -> {f \in AgentFiles(FleetFile) : LoadsFleet(f) /\ LoadsAgents(f)}
      [] OTHER -> {f \in AgentFiles(FleetFile) : LoadsFleet(f)}

Writes(s, c, source) ==
    CASE c.op = "init"            -> InitWrites(c.template)
      [] c.op = "multi init"      -> FleetWrites(source)
      [] c.op = "generate docker" -> DockerWrites(source, c.multi)
      [] c.op = "generate k8s"    -> K8sWrites(<<"k8s">>, source)
      [] c.op = "deploy fleet to k8s" -> K8sWrites(<<"temp", s>>, source)
      [] OTHER -> <<>>

(* The directory that is made first.                                         *)
Directory(s, c) ==
    CASE c.op \in {"init", "multi init"} -> <<"configs">>
      [] c.op = "generate docker"        -> <<"deploy">>
      [] c.op = "generate k8s"           -> <<"k8s">>
      [] OTHER                           -> <<"temp", s>>

Busy(s) == shells[s].pc \notin {"idle", "done", "failed", "killed"}

(* The directory that deploy makes for its manifests.                        *)
Temporary(s) == {path \in DOMAIN disk : path[1] = "temp" /\ path[2] = s}
ProjectEmpty == \A path \in DOMAIN disk : path[1] = "temp"

DiskWith(path, content) == [p \in DOMAIN disk \union {path} |-> IF p = path THEN content ELSE disk[p]]
DiskWithout(paths) == [p \in DOMAIN disk \ paths |-> disk[p]]

Fresh(errands) ==
    [errands |-> errands, pc |-> "idle", command |-> None, source |-> None, left |-> <<>>, wrote |-> {},
     alone |-> FALSE, overwrote |-> FALSE]

ProjectInit ==
    \E p \in Projects : disk = p.disk /\ shells = [s \in Shells |-> Fresh(p.errands[s])]

(* "alone": nobody else has touched the project since the command began.     *)
Runs(s, now) == [t \in Shells |-> IF t = s THEN now ELSE [shells[t] EXCEPT !.alone = FALSE]]

Enter(s) ==
    /\ shells[s].pc \in {"idle", "done", "failed"} /\ shells[s].errands # <<>>
    /\ LET c == Head(shells[s].errands)
           fresh == [Fresh(Tail(shells[s].errands)) EXCEPT !.command = c, !.alone = \A t \in Shells \ {s} : ~Busy(t)]
           refused == c.op = "init" /\ ~c.force /\ ~ProjectEmpty
       IN  \/ /\ Sources(c) = {} \/ refused
              /\ shells' = Runs(s, [fresh EXCEPT !.pc = "failed"])
              /\ UNCHANGED disk
           \/ /\ ~refused
              /\ \E source \in Sources(c) :
                    shells' = Runs(s, [fresh EXCEPT !.pc = IF c.op \in WithDocker THEN "stat" ELSE "write",
                                                    !.source = source, !.left = Writes(s, c, source)])
              /\ disk' = IF c.op \in WithDocker THEN disk ELSE DiskWith(Directory(s, c), Other("directory"))

Bug_NoStat(s) ==
    /\ shells[s].pc = "stat"
    /\ shells' = [shells EXCEPT ![s].pc = "write", ![s].left = <<Only(Dockerfile, Other("generated"))>>]
    /\ UNCHANGED disk

(* ensureDockerfile: a file that is there is used as it is.                  *)
Stat(s) ==
    /\ shells[s].pc = "stat"
    /\ shells' = IF Dockerfile \in DOMAIN disk THEN [shells EXCEPT ![s].pc = "docker"]
                 ELSE [shells EXCEPT ![s].pc = "write", ![s].left = <<Only(Dockerfile, Other("generated"))>>]
    /\ UNCHANGED disk

(* os.WriteFile truncates the file and writes it.                            *)
Write(s) ==
    /\ shells[s].pc = "write"
    /\ \E w \in Head(shells[s].left) :
          LET rest == (IF Head(shells[s].left) = {w} THEN <<>> ELSE <<Head(shells[s].left) \ {w}>>)
                      \o Tail(shells[s].left)
              op == shells[s].command.op
          IN  /\ w[2] # Unwritable
              /\ disk' = DiskWith(w[1], w[2])
              /\ shells' = [shells EXCEPT ![s].left = rest, ![s].wrote = @ \union {w},
                                          ![s].overwrote = @ \/ (w[1] \in DOMAIN disk /\ disk[w[1]] = Operators),
                                          ![s].pc = IF rest # <<>> THEN "write"
                                                    ELSE IF op \in WithDocker THEN "docker"
                                                    ELSE IF op = "deploy fleet to k8s" THEN "apply" ELSE "done"]

(* The commands of docker that succeed: build, and run to deploy.            *)
DockerStep(s) ==
    /\ shells[s].pc \in {"docker", "run"}
    /\ shells' = [shells EXCEPT ![s].pc = IF @ = "docker" /\ shells[s].command.op # "docker build" THEN "run" ELSE "done"]
    /\ UNCHANGED disk

(* Those of kubectl, apply and rollout; RemoveAll at the end.                *)
KubectlStep(s) ==
    /\ shells[s].pc \in {"apply", "rollout"}
    /\ shells' = [shells EXCEPT ![s].pc = IF @ = "apply" THEN "rollout" ELSE "done"]
    /\ disk' = IF shells[s].pc = "rollout" THEN DiskWithout(Temporary(s)) ELSE disk

(* A step fails, or the process is killed; a file may be left cut off.       *)
Leaves(s) ==
    {disk} \union (IF shells[s].pc = "write" THEN {DiskWith(w[1], Partial) : w \in {v \in Head(shells[s].left) : v[2] # Unwritable}} ELSE {})

Fail(s) ==
    /\ Busy(s)
    /\ shells' = [shells EXCEPT ![s].pc = "failed"]
    /\ \E left \in Leaves(s) : disk' = [p \in DOMAIN left \ {q \in DOMAIN left : q[1] = "temp" /\ q[2] = s} |-> left[p]]

Kill(s) ==
    /\ Busy(s)
    /\ shells' = [shells EXCEPT ![s].pc = "killed"]
    /\ disk' \in Leaves(s)

(* The operator writes a Dockerfile.                                         *)
Edit ==
    /\ Dockerfile \in DOMAIN disk => disk[Dockerfile] # Operators
    /\ disk' = DiskWith(Dockerfile, Operators)
    /\ shells' = [s \in Shells |-> [shells[s] EXCEPT !.alone = FALSE]]

ProjectNext ==
    \/ \E s \in Shells : Enter(s) \/ Stat(s) \/ Write(s) \/ DockerStep(s) \/ KubectlStep(s) \/ Fail(s) \/ Kill(s)
    \/ Edit

ProjectSpec == ProjectInit /\ [][ProjectNext]_projectVars

-------------------------------------------------------------------------------
(* The request that the rule of an agent is written for.                     *)
RequestFor(routing, a) ==
    [method |-> "POST",
     path |-> IF routing = "path" THEN PatternFor("path", a) ELSE <<"/">>,
     host |-> IF routing = "host" THEN PatternFor("host", a) ELSE <<>>,
     headers |-> IF routing = "header" THEN [h \in {<<"X-Agent-ID">>} |-> <<a>>] ELSE <<>>,
     query |-> IF routing = "query" THEN [k \in {<<"agent">>} |-> <<a>>] ELSE <<>>]

File(path) == disk[path].file

(* What the files of a command are good for once it succeeded.               *)
Serves(path, a, block) ==
    /\ path \in DOMAIN disk /\ LoadsFleet(File(path))
    /\ a \in DOMAIN File(path).agents /\ Decoded(File(path).agents[a]) = Decoded(block)

Deployable(c) ==
    CASE c.op = "init" -> ValidateAccepts(File(AgentFile), TRUE)
      [] c.op = "multi init" ->
            LET fleet == File(FleetFile) IN
            /\ FleetAccepts(fleet, c.template = "basic")
            /\ \A a \in DOMAIN fleet.agents : /\ ValidateAccepts(File(AgentPath(a)), FALSE)
                                              /\ Routed(FleetOf(fleet), RequestFor(c.routing, a)) = a
      [] c.op = "generate docker" ->
            LET services == disk[Compose].services IN
            /\ \A a \in DOMAIN File(FleetFile).agents :
                  \E v \in services : Serves(v.config, a, File(FleetFile).agents[a])
            /\ \A u, v \in services : u = v \/ u.port # v.port
            /\ c.multi => \A v \in services : DOMAIN File(v.config).agents = v.agents
      [] c.op = "generate k8s" ->
            /\ \A r \in disk[<<"k8s", "kustomization">>].resources : <<"k8s", r>> \in DOMAIN disk
            /\ \A a \in DOMAIN File(FleetFile).agents :
                  Serves(<<"k8s", "configmap">>, a, File(FleetFile).agents[a])
      [] OTHER -> Sources(c) # {} /\ (c.op \in WithDocker => Dockerfile \in DOMAIN disk)

(* A command that succeeds while nobody else touches the project leaves one  *)
(* that can be deployed: the configurations it wrote are accepted, all files *)
(* they are mounted from are there, and agents get the requests that are     *)
(* meant for them. A Dockerfile of the operator is only overwritten when it  *)
(* comes between two steps of a command, and manifests are only left in a    *)
(* temporary directory by a process that was killed.                         *)
ProjectsHold ==
    \A s \in Shells :
        /\ shells[s].pc = "done" /\ shells[s].alone => Deployable(shells[s].command)
        /\ shells[s].overwrote => ~shells[s].alone
        /\ Temporary(s) # {} => Busy(s) \/ shells[s].pc = "killed"
===============================================================================
