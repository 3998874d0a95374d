----------------------------- MODULE AgentChecks ------------------------------
(* What the commands say of a file of agents before any agent runs. validate *)
(* and test read it with a reader of their own (parseAgentBlock); the        *)
(* multi-agent commands decode it into a MultiAgentConfig, which module      *)
(* AgentRouting validates; multi-agent load registers what the files of a    *)
(* directory define.                                                         *)
(*                                                                           *)
(* A file is a YAML document: "shape" says what its key "agents" holds       *)
(* ("single" when there is no such key, "broken" when nothing can be read),  *)
(* "agents" maps each key to a value, "routed" says whether there is a       *)
(* section on routing. A value is a record with its kind; numbers are in     *)
(* tenths. Timeouts and streaming are left out, and names of providers are   *)
(* in lower case.                                                            *)
EXTENDS AgentRouting

CONSTANTS Directories   \* directories of files that may be given, as sequences

VARIABLES directory,    \* the files; the commands on one file are given the first
          verdicts,     \* command that ended -> whether it accepted the file
          enrolled,     \* files that multi-agent load has read, -1 once it failed
          known         \* its registry: id -> configuration

checksVars == <<directory, verdicts, enrolled, known>>

-------------------------------------------------------------------------------
(* normalizeKey folds spellings.                                             *)
CamelCase == {"systemPrompt", "maxTokens", "maxIterations"}
NormalizeKey(key) ==
    CASE key \in {"system_prompt", "systemPrompt"}   -> "systemprompt"
      [] key \in {"max_tokens", "maxTokens"}         -> "maxtokens"
      [] key \in {"max_iterations", "maxIterations"} -> "maxiterations"
      [] key = "interrupt_on"                        -> "interrupton"
      [] OTHER -> key

KnownKeys ==
    {"id", "name", "type", "model", "provider", "systemprompt", "temperature", "maxtokens", "maxiterations",
     "tools", "enablestreaming", "streamingmode", "timeout", "metadata", "description", "enabled",
     "agents", "routing", "deployment", "shared", "version", "database", "vectorstore", "rag",
     "documentloaders", "workflow", "server"}
KnownTypes == {"chat", "react", "tool"}
KnownProviders == {"openai", "ollama", "gemini"}
BuiltinTools == {"web_search", "file_read", "file_write", "file_list", "shell", "http_request", "calculator", "time"}

Keys(block, name) == {key \in DOMAIN block.fields : NormalizeKey(key) = name}
Given(block, name) == Keys(block, name) # {}
Value(block, name) == block.fields[CHOOSE key \in Keys(block, name) : TRUE]

(* A key is spelled in one way, and routing is the default without a section;*)
(* None stands for a default agent that is left out or empty.                *)
BlockOk(block) ==
    \A k, l \in DOMAIN block.fields : /\ NormalizeKey(k) = NormalizeKey(l) => k = l
                                      /\ block.fields[k].kind = "number" => block.fields[k].tenths \in Int
FileOk(file) ==
    /\ \A key \in DOMAIN file.agents : file.agents[key].kind = "map" => BlockOk(file.agents[key])
    /\ Len(file.rules) \in Nat /\ DOMAIN file.rules = 1..Len(file.rules)
    /\ file.default # "" /\ (~file.routed => file.type = "" /\ file.default = None /\ file.rules = <<>>)

ASSUME FilesAssumption ==
    /\ \A d \in Directories : /\ Len(d) \in Nat /\ DOMAIN d = 1..Len(d)
                              /\ \A i \in DOMAIN d : FileOk(d[i])

(* A key without a value is printed.                                         *)
Printed(block, name) ==
    IF ~Given(block, name) THEN "" ELSE IF Value(block, name).kind = "null" THEN "<nil>" ELSE Value(block, name).text
Amount(block, name) == IF Given(block, name) THEN Value(block, name).tenths ELSE 0
TextOr(text, default) == IF text = "" THEN default ELSE text
AmountOr(n, default) == IF n = 0 THEN default ELSE n

(* Tools are names, or mappings with a name and whether they are enabled.    *)
ToolNames(v) == v.kind = "list" /\ \A t \in v.items : t.kind = "text" \/ (t.kind = "map" /\ t.text # "")
EnabledTools(v) == {t.text : t \in {u \in v.items : u.kind = "map" => u.enabled}}

Whole(v) == v.kind = "number" /\ v.tenths % 10 = 0

(* parseAgentBlock returns no error.                                         *)
Parses(block) ==
    /\ Given(block, "temperature") => Value(block, "temperature").kind = "number"
    /\ \A name \in {"maxtokens", "maxiterations"} : Given(block, name) => Whole(Value(block, name))
    /\ Given(block, "tools") => ToolNames(Value(block, "tools"))

(* parseAgentBlock and toAgentConfig: what is absent or zero is as in        *)
(* DefaultAgentConfig; an empty id stands for a new one.                     *)
ToAgentConfig(key, block) ==
    [id |-> Printed(block, "id"), name |-> TextOr(Printed(block, "name"), key),
     type |-> TextOr(Printed(block, "type"), "chat"), model |-> Printed(block, "model"),
     provider |-> Printed(block, "provider"), prompt |-> Printed(block, "systemprompt"),
     temperature |-> AmountOr(Amount(block, "temperature"), 7),
     tokens |-> AmountOr(Amount(block, "maxtokens") \div 10, 1000),
     iterations |-> AmountOr(Amount(block, "maxiterations") \div 10, 10),
     tools |-> IF Given(block, "tools") THEN EnabledTools(Value(block, "tools")) ELSE {}]

UnknownKeys(block) == {key \in DOMAIN block.fields : NormalizeKey(key) \notin KnownKeys}

(* decodeConfigFile and loadAgentConfigs.                                    *)
LoadsAgents(file) ==
    /\ file.shape \in {"agents", "single"} /\ DOMAIN file.agents # {}
    /\ \A key \in DOMAIN file.agents : file.agents[key].kind = "map" /\ Parses(file.agents[key])

AgentOf(file, key) == ToAgentConfig(key, file.agents[key])

-------------------------------------------------------------------------------
(* AgentConfig.Validate refuses a configuration or returns it with the       *)
(* default for iterations that are not positive.                             *)
Complete(c) == "" \notin {c.name, c.type, c.model, c.provider}
ValidAgent(c) ==
    /\ Complete(c)
    /\ 100 < c.tokens /\ c.tokens <= 100000
    /\ 0 <= c.temperature /\ c.temperature <= 20
    /\ c.iterations <= 100
Validated(c) == [c EXCEPT !.iterations = IF @ <= 0 THEN 10 ELSE @]

(* NewAgent: ValidateAndSanitize up to its first error, and what it is given *)
(* after one.                                                                *)
Named(c) == "" \notin {c.name, c.model, c.provider}
NewAgent(c) ==
    LET sized == Named(c) /\ c.tokens <= 100000
    IN  [c EXCEPT !.tokens = IF Named(c) /\ @ <= 100 THEN 500 ELSE @,
                  !.temperature = IF 0 <= @ /\ @ <= 20 THEN @ ELSE 7,
                  !.iterations = IF sized /\ @ <= 0 THEN 10 ELSE @,
                  !.type = IF sized /\ c.iterations <= 100 THEN TextOr(@, "chat") ELSE @,
                  !.provider = TextOr(@, "ollama"), !.model = TextOr(@, "llama2")]

(* validateAgentConfigs: its errors and warnings. The graphs that NewAgent   *)
(* builds are valid.                                                         *)
SoundAgent(c) == ValidAgent(c) /\ c.type \in KnownTypes
WarnsOf(c) == c.provider \notin KnownProviders \/ c.prompt = "" \/ ~(c.tools \subseteq BuiltinTools)

AllIds(file) == (DOMAIN file.agents \union {AgentOf(file, key).id : key \in DOMAIN file.agents}) \ {""}

(* checkRouting: no error, and a warning.                                    *)
RoutesExist(file) ==
    AllIds(file) # {} /\ file.routed =>
        /\ file.default \in AllIds(file) \union {None}
        /\ \A i \in DOMAIN file.rules : file.rules[i].agent \in AllIds(file) \union {""}

PatternsClash(rules) ==
    \E i, j \in DOMAIN rules : i < j /\ rules[i].pattern = rules[j].pattern /\ rules[i].pattern # <<>>

(* runValidate.                                                              *)
ValidateAccepts(file, strict) ==
    /\ LoadsAgents(file) /\ RoutesExist(file)
    /\ \A key \in DOMAIN file.agents : SoundAgent(AgentOf(file, key))
    /\ strict => /\ \A key \in DOMAIN file.agents : ~WarnsOf(AgentOf(file, key)) /\ UnknownKeys(file.agents[key]) = {}
                 /\ AllIds(file) # {} /\ file.routed => ~PatternsClash(file.rules)

(* runTests.                                                                 *)
TestAccepts(file) ==
    /\ LoadsAgents(file)
    /\ \A key \in DOMAIN file.agents :
          LET c == AgentOf(file, key) IN ValidAgent(c) /\ NewAgent(Validated(c)).name = c.name

-------------------------------------------------------------------------------
(* LoadMultiAgentConfigFromFile: what YAML makes of a block. It knows fewer  *)
(* spellings, a key without a value leaves zero, and integers lose their     *)
(* fraction.                                                                 *)
Set(block, name) ==
    /\ Keys(block, name) \ CamelCase # {}
    /\ Value(block, name).kind # "null"
DecodedText(block, name) == IF Set(block, name) THEN Value(block, name).text ELSE ""
Tenths(block, name) == IF Set(block, name) THEN Value(block, name).tenths ELSE 0
Truncate(tenths) == IF tenths >= 0 THEN tenths \div 10 ELSE -((-tenths) \div 10)

Decodes(block) ==
    /\ block.kind = "map"
    /\ \A name \in {"temperature", "maxtokens", "maxiterations"} :
          Set(block, name) => Value(block, name).kind = "number"
    /\ Set(block, "tools") =>
          Value(block, "tools").kind = "list" /\ \A t \in Value(block, "tools").items : t.kind = "text"

Decoded(block) ==
    [id |-> DecodedText(block, "id"), name |-> DecodedText(block, "name"), type |-> DecodedText(block, "type"),
     model |-> DecodedText(block, "model"), provider |-> DecodedText(block, "provider"),
     prompt |-> DecodedText(block, "systemprompt"), temperature |-> Tenths(block, "temperature"),
     tokens |-> Truncate(Tenths(block, "maxtokens")), iterations |-> Truncate(Tenths(block, "maxiterations")),
     tools |-> IF Set(block, "tools") THEN {t.text : t \in Value(block, "tools").items} ELSE {},
     metadata |-> IF Set(block, "metadata") THEN Value(block, "metadata").entries ELSE <<>>,
     interrupts |-> IF Set(block, "interrupton") THEN Value(block, "interrupton").items ELSE {}]

FleetOf(file) ==
    [type |-> file.type, default |-> file.default, rules |-> file.rules, deployment |-> file.deployment,
     agents |-> [a \in DOMAIN file.agents |->
                    [complete |-> Complete(Decoded(file.agents[a])), metadata |-> Decoded(file.agents[a]).metadata]]]

LoadsFleet(file) ==
    /\ file.shape = "agents" /\ file.name # ""
    /\ \A a \in DOMAIN file.agents : Decodes(file.agents[a])
    /\ Validate(FleetOf(file))

(* validateAgentSchemas: a copy has the defaults for what the file omits.    *)
Filled(c) == [c EXCEPT !.tokens = AmountOr(@, 1000), !.iterations = AmountOr(@, 10)]
SchemasHold(file) == \A a \in DOMAIN file.agents : SoundAgent(Filled(Decoded(file.agents[a])))

Bug_ClashesPass(file) ==
    /\ \A a \in DOMAIN file.agents : Decoded(file.agents[a]).prompt # ""
    /\ file.routed => file.default # None

(* validateStrictMode, and no warning of validateAgentSchemas.               *)
StrictHolds(file) ==
    /\ \A a \in DOMAIN file.agents :
          LET c == Decoded(file.agents[a])
          IN  c.prompt # "" /\ c.id \in {"", a} /\ c.provider \in KnownProviders /\ c.tools \subseteq BuiltinTools
    /\ file.routed =>
          /\ file.default # None /\ ~PatternsClash(file.rules)
          /\ \A a \in DOMAIN file.agents : a = file.default \/ \E i \in DOMAIN file.rules : file.rules[i].agent = a

(* runMultiAgentValidate, with --check-schemas as it is by default.          *)
FleetAccepts(file, strict) == LoadsFleet(file) /\ SchemasHold(file) /\ (strict => StrictHolds(file))

-------------------------------------------------------------------------------
Commands == {"validate", "validate strict", "test", "fleet", "fleet strict"}

Accepts(command, file) ==
    CASE command = "validate"        -> ValidateAccepts(file, FALSE)
      [] command = "validate strict" -> ValidateAccepts(file, TRUE)
      [] command = "test"            -> TestAccepts(file)
      [] command = "fleet"           -> FleetAccepts(file, FALSE)
      [] command = "fleet strict"    -> FleetAccepts(file, TRUE)

ChecksInit == directory \in Directories /\ verdicts = <<>> /\ enrolled = 0 /\ known = <<>>

Judge(command) ==
    /\ directory # <<>> /\ command \notin DOMAIN verdicts
    /\ verdicts' = [c \in DOMAIN verdicts \union {command} |->
                       IF c = command THEN Accepts(command, directory[1]) ELSE verdicts[c]]
    /\ UNCHANGED <<directory, enrolled, known>>

(* runMultiAgentLoad: the agents of a file are registered under their ids.   *)
IdOf(file, key) == TextOr(TextOr(AgentOf(file, key).id, key), AgentOf(file, key).name)
IdsOf(file) == {IdOf(file, key) : key \in DOMAIN file.agents}

Bug_Replaces(file, registry) ==
    LoadsAgents(file) /\ \A key \in DOMAIN file.agents : SoundAgent(AgentOf(file, key))

(* Two agents of one id are refused, whichever file they are in.             *)
Enrols(file, registry) ==
    /\ LoadsAgents(file)
    /\ \A key \in DOMAIN file.agents : SoundAgent(AgentOf(file, key))
    /\ \A key \in DOMAIN file.agents :
          /\ IdOf(file, key) \notin DOMAIN registry
          /\ \A other \in DOMAIN file.agents : IdOf(file, other) = IdOf(file, key) => other = key

(* agentConfigFiles has them sorted; a load that fails ends the process, and *)
(* its registry with it.                                                     *)
EnrolNext ==
    /\ enrolled >= 0 /\ (directory = <<>> \/ enrolled < Len(directory))
    /\ LET file == directory[enrolled + 1] IN
       IF directory # <<>> /\ Enrols(file, known)
       THEN /\ enrolled' = enrolled + 1
            /\ known' = [id \in DOMAIN known \union IdsOf(file) |->
                            IF id \in IdsOf(file)
                            THEN AgentOf(file, CHOOSE key \in DOMAIN file.agents : IdOf(file, key) = id)
                            ELSE known[id]]
       ELSE enrolled' = -1 /\ known' = <<>>
    /\ UNCHANGED <<directory, verdicts>>

ChecksNext == (\E command \in Commands : Judge(command)) \/ EnrolNext

ChecksSpec == ChecksInit /\ [][ChecksNext]_checksVars

-------------------------------------------------------------------------------
(* What both readers understand alike.                                       *)
Plain(block) ==
    /\ DOMAIN block.fields \intersect CamelCase = {}
    /\ \A key \in DOMAIN block.fields : block.fields[key].kind # "null"
    /\ \A name \in {"maxtokens", "maxiterations"} : Given(block, name) => Whole(Value(block, name))
PlainFile(file) == \A key \in DOMAIN file.agents : file.agents[key].kind = "map" => Plain(file.agents[key])

(* Rules that speak of paths alone, outside the management endpoints.        *)
ExactPaths(c) ==
    PlainRules(c) /\ \A i \in DOMAIN c.rules : /\ MatchMode(c.rules[i].match) = "exact"
                                               /\ <<"POST", c.rules[i].pattern>> \notin Management
ItsRequest(rule) == [path |-> rule.pattern, method |-> "POST"]

(* A rule that is no literal path, or one that a template covers.            *)
Obscured(c, i) ==
    \E j \in DOMAIN c.rules : ~Literal(c.rules[j].pattern) /\ (j = i \/ Selects(c, c.rules[j], ItsRequest(c.rules[i])))

Reached(c, a) ==
    a = c.default \/ \E i \in DOMAIN c.rules :
                       c.rules[i].agent = a /\ (Routed(c, ItsRequest(c.rules[i])) = a \/ Obscured(c, i))

Accepted(command) == command \in DOMAIN verdicts /\ verdicts[command]
Refused(command) == command \in DOMAIN verdicts /\ ~verdicts[command]

(* The commands do not contradict one another. validate accepts the fleets   *)
(* that multi-agent validate does, when both readers understand the file     *)
(* alike; test, and NewAgent without emergency defaults, accept what         *)
(* validate does; in a fleet that passes the strict checks a request can     *)
(* reach every agent by the literal path of a rule of its own, unless none of*)
(* its rules has one or a template covers it (the checks look at neither:    *)
(* such an agent may be out of reach), and its agents are loaded under their *)
(* keys; and a load that ends has registered each agent of each file, none in*)
(* another's place.                                                          *)
VerdictsAgree ==
    /\ directory # <<>> =>
          LET file == directory[1] IN
          /\ Accepted("fleet") /\ PlainFile(file) => ~Refused("validate")
          /\ Accepted("validate") => /\ ~Refused("test")
                                     /\ \A key \in DOMAIN file.agents : LET c == Validated(AgentOf(file, key))
                                                                        IN  NewAgent(c) = c
          /\ Accepted("fleet strict") =>
                /\ file.routed /\ ExactPaths(FleetOf(file)) => \A a \in DOMAIN file.agents : Reached(FleetOf(file), a)
                /\ PlainFile(file) /\ enrolled > 0 => DOMAIN file.agents \ {""} \subseteq DOMAIN known
    /\ \A i, j \in 1..enrolled : \A k \in DOMAIN directory[i].agents, l \in DOMAIN directory[j].agents :
          /\ known[IdOf(directory[i], k)] = AgentOf(directory[i], k)
          /\ IdOf(directory[i], k) = IdOf(directory[j], l) => <<i, k>> = <<j, l>>
===============================================================================
