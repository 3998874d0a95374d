---------------------------- MODULE ProjectProofs ----------------------------
(***************************************************************************)
(* Theorems about configurations and the commands that handle them, for    *)
(* any agents, files, templates and shells. What a configuration that      *)
(* Validate accepts routes to can be served (RoutesAreServed). The         *)
(* commands that read a file agree on it, whatever it holds                *)
(* (CommandsAgree). And one that succeeds while nobody else touches a      *)
(* project leaves a project that can be deployed (ProjectsStaySound).      *)
(***************************************************************************)
EXTENDS ProjectFiles, RoutingProofs, SequenceTheorems, FiniteSetTheorems, TLAPS

-----------------------------------------------------------------------------
(* Routing of the manager. SortedRules orders rules by priority, ID and      *)
(* place, and so one rule of any that match comes first.                     *)
LEMMA BeforeOrders ==
    ASSUME NEW c \in Configs
    PROVE  /\ \A i, j \in DOMAIN c.rules : i = j \/ Before(c, i, j) \/ Before(c, j, i)
           /\ \A i \in DOMAIN c.rules : ~Before(c, i, i)
           /\ \A i, j, k \in DOMAIN c.rules : Before(c, i, j) /\ Before(c, j, k) => Before(c, i, k)
<1>1. \A i \in DOMAIN c.rules : i \in Int /\ c.rules[i].priority \in Int /\ c.rules[i].id \in Int
  BY RoutingAssumption
<1>2. ASSUME NEW i \in DOMAIN c.rules, NEW j \in DOMAIN c.rules
      PROVE  i = j \/ Before(c, i, j) \/ Before(c, j, i)
  BY <1>1 DEF Before
<1>3. ASSUME NEW i \in DOMAIN c.rules
      PROVE  ~Before(c, i, i)
  BY <1>1 DEF Before
<1>4. ASSUME NEW i \in DOMAIN c.rules, NEW j \in DOMAIN c.rules, NEW k \in DOMAIN c.rules,
             Before(c, i, j), Before(c, j, k)
      PROVE  Before(c, i, k)
  BY <1>1, <1>4 DEF Before
<1> QED
  BY <1>2, <1>3, <1>4

LEMMA FirstRule ==
    ASSUME NEW c \in Configs, NEW rules \in SUBSET DOMAIN c.rules, rules # {}
    PROVE  /\ First(c, rules) \in rules
           /\ \A j \in rules : First(c, rules) = j \/ Before(c, First(c, rules), j)
<1> DEFINE upTo(i) == {j \in rules : j = i \/ Before(c, j, i)}
           below == {upTo(i) : i \in rules}
<1>1. IsFiniteSet(rules)
  <2>1. IsFiniteSet(1..Len(c.rules))
    BY RoutingAssumption, FS_Interval
  <2> QED
    BY <2>1, RoutingAssumption, FS_Subset
<1>2. below \subseteq FiniteSubsetsOf(rules)
  <2>1. ASSUME NEW i \in rules PROVE upTo(i) \in SUBSET rules /\ IsFiniteSet(upTo(i))
    BY <1>1, FS_Subset
  <2> QED
    BY <2>1 DEF FiniteSubsetsOf
<1>3. IsWellFoundedOn(StrictSubsetOrdering(rules), FiniteSubsetsOf(rules))
  BY FS_StrictSubsetOrderingWellFounded
<1>4. below # {}
  OBVIOUS
<1>5. PICK x \in below : \A y \in below : ~(<<y, x>> \in StrictSubsetOrdering(rules))
  <2> HIDE DEF below
  <2> QED
    BY <1>2, <1>3, <1>4, WFMin
<1>6. PICK i \in rules : x = upTo(i)
  OBVIOUS
<1>7. ASSUME NEW j \in rules, Before(c, j, i) PROVE FALSE
  <2>1. upTo(j) \subseteq upTo(i)
    BY <1>7, BeforeOrders
  <2>2. i \in upTo(i) /\ i \notin upTo(j)
    BY <1>7, BeforeOrders
  <2>3. upTo(j) # upTo(i) /\ upTo(j) \in below
    BY <2>2
  <2>4. <<upTo(j), upTo(i)>> \in StrictSubsetOrdering(rules)
    BY <2>1, <2>3 DEF StrictSubsetOrdering
  <2> QED
    BY <1>5, <1>6, <2>3, <2>4
<1>8. \A j \in rules : i = j \/ Before(c, i, j)
  BY <1>7, BeforeOrders
<1> QED
  BY <1>8 DEF First

(* An agent with ports of its own answers on the first of them.              *)
LEMMA OwnPort ==
    ASSUME NEW c \in Configs, NEW a \in {p.agent : p \in ToSet(c.deployment.ports)}
    PROVE  \E i \in DOMAIN c.deployment.ports :
              c.deployment.ports[i].agent = a /\ GetAgentPort(c, a) = c.deployment.ports[i].port
<1> DEFINE mine == {i \in DOMAIN c.deployment.ports : c.deployment.ports[i].agent = a}
<1>1. mine # {} /\ mine \in SUBSET Nat
  BY RoutingAssumption DEF ToSet
<1>2. FirstOf(mine) \in mine
  BY <1>1, FirstOfIsFirst
<1>3. GetAgentPort(c, a) = c.deployment.ports[FirstOf(mine)].port
  BY <1>1 DEF GetAgentPort, FirstOf
<1> QED
  BY <1>2, <1>3

(* A literal path, and a host without braces, is taken letter by letter.     *)
LEMMA LiteralsFit ==
    ASSUME NEW type, NEW template, NEW value, {"variable", "brace"} \intersect ToSet(template) = {},
           type = "host" \/ template[1] = "/"
    PROVE  MatchesTemplate(type, template, value) <=> value = template
<1>1. "variable" \notin ToSet(template) /\ "brace" \notin ToSet(template)
  OBVIOUS
<1> QED
  BY <1>1, Zenon DEF MatchesTemplate, TakesTemplate, Fits

LEMMA SelectsLiterally ==
    ASSUME NEW c, ByPath(c), NEW r, NEW q, ~Templated(r)
    PROVE  Selects(c, r, q) <=> MatchesPath(r.match, r.pattern, q.path)
<1>0. Selects(c, r, q) <=> PathMatches(r, q.path)
  BY Zenon DEF Selects, ByPath
<1>1. CASE MatchMode(r.match) = "exact"
  <2>1. MatchesTemplate("path", r.pattern, q.path) <=> q.path = r.pattern
    BY <1>1, LiteralsFit DEF Templated, Literal
  <2>2. MatchesPath(r.match, r.pattern, q.path) <=> q.path = r.pattern
    BY <1>1 DEF MatchesPath
  <2>3. PathMatches(r, q.path) <=> MatchesTemplate("path", r.pattern, q.path)
    BY <1>1 DEF PathMatches
  <2> QED
    BY <1>0, <2>1, <2>2, <2>3
<1>2. CASE MatchMode(r.match) # "exact"
  BY <1>0, <1>2 DEF PathMatches
<1> QED
  BY <1>1, <1>2

RoutingInv ==
    /\ config \in Configs
    /\ phase \in {"new", "invalid", "failed", "serving", "served"}
    /\ phase = "failed" => config.type \in {"header", "query"}
    /\ phase \in {"serving", "served"} => Validate(config)

LEMMA RoutingKept == RoutingInv /\ [RoutingNext]_routingVars => RoutingInv'
<1> SUFFICES ASSUME RoutingInv, [RoutingNext]_routingVars PROVE RoutingInv'
  OBVIOUS
<1>1. CASE NewManager
  <2>1. config' = config /\ phase' \in {"invalid", "failed", "serving"}
    BY <1>1 DEF NewManager
  <2>2. phase' # "invalid" => Validate(config)
    BY <1>1 DEF NewManager
  <2>3. phase' = "failed" => config.type \in {"header", "query"}
    BY <1>1, Zenon DEF NewManager, Installs
  <2> QED
    BY <2>1, <2>2, <2>3 DEF RoutingInv
<1>2. ASSUME NEW q \in RequestSet, Serve(q) PROVE RoutingInv'
  BY <1>2 DEF Serve, RoutingInv
<1>3. CASE UNCHANGED routingVars
  BY <1>3 DEF routingVars, RoutingInv
<1> QED
  BY <1>1, <1>2, <1>3 DEF RoutingNext

(* Any number of rules and agents: what Validate accepts is installed or     *)
(* refused for its pattern, routes to agents that exist and are enabled, as  *)
(* GetAgentByPath says where it can, and gives no port twice.                *)
THEOREM RoutesAreServed == RoutingSpec => []RoutingIsConsistent
<1>1. RoutingInit => RoutingInv
  BY DEF RoutingInit, RoutingInv
<1>2. RoutingInv => RoutingIsConsistent
  <2> SUFFICES ASSUME RoutingInv PROVE RoutingIsConsistent
    OBVIOUS
  <2> DEFINE c == config
             q == request
             to == Routed(c, q)
             hits == Hits(c, q.path)
  <2>1. ASSUME phase = "served"
        PROVE  to \in GetEnabledAgents(c) \cup {None, "management"}
    <3>1. ValidRouting(c)
      BY <2>1 DEF RoutingInv, Validate
    <3>2. CASE Matching(c, q) # {}
      <4>1. First(c, Matching(c, q)) \in DOMAIN c.rules
        BY <3>2, FirstRule DEF Matching, RoutingInv
      <4>2. IsAgentEnabled(c, c.rules[First(c, Matching(c, q))].agent)
        BY <3>1, <4>1 DEF ValidRouting, MayServe
      <4> QED
        BY <3>2, <4>2 DEF Routed, GetEnabledAgents, IsAgentEnabled
    <3>3. CASE Matching(c, q) = {}
      BY <3>1, <3>3 DEF Routed, ValidRouting, MayServe, GetEnabledAgents, IsAgentEnabled
    <3> QED
      BY <3>2, <3>3
  <2>2. ASSUME PlainRules(c), to # "management",
               \A i \in DOMAIN c.rules : Templated(c.rules[i]) => (i \in Matching(c, q) <=> i \in hits)
        PROVE  to = GetAgentByPath(c, q.path)
    <3>1. ASSUME NEW i \in DOMAIN c.rules, ~Templated(c.rules[i])
          PROVE  Selects(c, c.rules[i], q) <=> MatchesPath(c.rules[i].match, c.rules[i].pattern, q.path)
      <4>1. ByPath(c)
        BY <2>2 DEF PlainRules
      <4> QED
        BY <3>1, <4>1, SelectsLiterally
    <3>2. \A i \in DOMAIN c.rules : MatchConditions(c.rules[i], q)
      <4>1. ToSet(<<>>) = {}
        BY DEF ToSet
      <4>2. \A i \in DOMAIN c.rules : c.rules[i].conditions = <<>>
        BY <2>2 DEF PlainRules
      <4> QED
        BY <4>1, <4>2, Zenon DEF MatchConditions
    <3>3. \A i \in DOMAIN c.rules : i \in Matching(c, q) <=> i \in hits
      <4>1. ASSUME NEW i \in DOMAIN c.rules, ~Templated(c.rules[i]) PROVE i \in Matching(c, q) <=> i \in hits
        <5>1. i \in Matching(c, q) <=> Selects(c, c.rules[i], q)
          BY <2>2, <3>2, Zenon DEF Matching, PlainRules
        <5> QED
          BY <3>1, <4>1, <5>1, Zenon DEF Hits
      <4> QED
        BY <2>2, <4>1
    <3>4. Matching(c, q) = hits
      <4>1. Matching(c, q) \subseteq DOMAIN c.rules /\ hits \subseteq DOMAIN c.rules
        BY Zenon DEF Matching, Hits
      <4> QED
        BY <3>3, <4>1
    <3> QED
      BY <2>2, <3>4 DEF Routed, GetAgentByPath
  <2>3. ASSUME phase = "served",
               NEW a \in {p.agent : p \in ToSet(c.deployment.ports)},
               NEW b \in {p.agent : p \in ToSet(c.deployment.ports)},
               GetAgentPort(c, a) = GetAgentPort(c, b)
        PROVE  a = b
    <3>1. PICK i \in DOMAIN c.deployment.ports :
             c.deployment.ports[i].agent = a /\ GetAgentPort(c, a) = c.deployment.ports[i].port
      BY OwnPort DEF RoutingInv
    <3>2. PICK j \in DOMAIN c.deployment.ports :
             c.deployment.ports[j].agent = b /\ GetAgentPort(c, b) = c.deployment.ports[j].port
      BY OwnPort DEF RoutingInv
    <3>3. ValidDeployment(c)
      BY <2>3 DEF RoutingInv, Validate
    <3> QED
      BY <2>3, <3>1, <3>2, <3>3 DEF ValidDeployment
  <2> QED
    BY <2>1, <2>2, <2>3 DEF RoutingIsConsistent, RoutingInv
<1> QED
  BY <1>1, <1>2, RoutingKept, PTL DEF RoutingSpec

-------------------------------------------------------------------------------
(* What the commands say of files. Both readers find the same values in a    *)
(* plain block.                                                              *)
LEMMA KeyIsThere ==
  ASSUME NEW block, NEW name, Given(block, name)
  PROVE  \E key \in DOMAIN block.fields : NormalizeKey(key) = name /\ Value(block, name) = block.fields[key]
<1>1. PICK key : key \in Keys(block, name)
  BY DEF Given
<1>2. (CHOOSE k \in Keys(block, name) : TRUE) \in Keys(block, name)
  BY <1>1
<1> QED
  BY <1>2 DEF Keys, Value

LEMMA ReadersSee ==
  ASSUME NEW block, NEW name, Plain(block)
  PROVE  /\ Set(block, name) <=> Given(block, name)
         /\ Given(block, name) => Value(block, name).kind # "null"
<1>1. Keys(block, name) \ CamelCase = Keys(block, name)
  BY DEF Plain, Keys
<1>2. Given(block, name) => Value(block, name).kind # "null"
  BY KeyIsThere DEF Plain
<1> QED
  BY <1>1, <1>2 DEF Set, Given

LEMMA TextsAlike ==
  ASSUME NEW block, NEW name, Plain(block), DecodedText(block, name) # ""
  PROVE  Printed(block, name) = DecodedText(block, name)
BY ReadersSee DEF DecodedText, Printed

LEMMA NumbersAlike ==
  ASSUME NEW file, NEW key \in DOMAIN file.agents, FileOk(file), file.agents[key].kind = "map",
         Plain(file.agents[key]), Decodes(file.agents[key]),
         NEW name \in {"temperature", "maxtokens", "maxiterations"}
  PROVE  /\ Tenths(file.agents[key], name) = Amount(file.agents[key], name)
         /\ Amount(file.agents[key], name) \in Int
         /\ Given(file.agents[key], name) => Value(file.agents[key], name).kind = "number"
<1>1. PICK block : block = file.agents[key]
  OBVIOUS
<1>2. Given(block, name) => Value(block, name).kind = "number"
  BY <1>1, ReadersSee DEF Decodes
<1>3. Given(block, name) => Value(block, name).tenths \in Int
  <2>1. \A k \in DOMAIN block.fields : block.fields[k].kind = "number" => block.fields[k].tenths \in Int
    BY <1>1 DEF FileOk, BlockOk
  <2> QED
    BY <1>2, <2>1, KeyIsThere
<1> QED
  BY <1>1, <1>2, <1>3, ReadersSee DEF Tenths, Amount

LEMMA WholeTruncates ==
  ASSUME NEW n \in Int, n % 10 = 0
  PROVE  Truncate(n) = n \div 10
BY DEF Truncate

LEMMA FieldsFilled ==
  ASSUME NEW block
  PROVE  /\ Filled(Decoded(block)).name = DecodedText(block, "name")
         /\ Filled(Decoded(block)).type = DecodedText(block, "type")
         /\ Filled(Decoded(block)).model = DecodedText(block, "model")
         /\ Filled(Decoded(block)).provider = DecodedText(block, "provider")
         /\ Filled(Decoded(block)).temperature = Tenths(block, "temperature")
         /\ Filled(Decoded(block)).tokens = AmountOr(Truncate(Tenths(block, "maxtokens")), 1000)
         /\ Filled(Decoded(block)).iterations = AmountOr(Truncate(Tenths(block, "maxiterations")), 10)
BY DEF Filled, Decoded

LEMMA FieldsParsed ==
  ASSUME NEW file, NEW key, NEW block, block = file.agents[key]
  PROVE  /\ AgentOf(file, key).name = TextOr(Printed(block, "name"), key)
         /\ AgentOf(file, key).type = TextOr(Printed(block, "type"), "chat")
         /\ AgentOf(file, key).model = Printed(block, "model")
         /\ AgentOf(file, key).provider = Printed(block, "provider")
         /\ AgentOf(file, key).temperature = AmountOr(Amount(block, "temperature"), 7)
         /\ AgentOf(file, key).tokens = AmountOr(Amount(block, "maxtokens") \div 10, 1000)
         /\ AgentOf(file, key).iterations = AmountOr(Amount(block, "maxiterations") \div 10, 10)
BY DEF AgentOf, ToAgentConfig

LEMMA SoundAlike ==
  ASSUME NEW f, NEW c, SoundAgent(f), c.name = f.name, c.type = f.type, c.model = f.model,
         c.provider = f.provider, c.tokens = f.tokens, c.iterations = f.iterations,
         0 <= c.temperature, c.temperature <= 20
  PROVE  SoundAgent(c)
<1>1. Complete(c) = Complete(f)
  BY Zenon DEF Complete
<1> QED
  BY <1>1 DEF SoundAgent, ValidAgent

(* An agent of a fleet that passes is one that validate accepts.             *)
LEMMA AgentPasses ==
  ASSUME NEW file, NEW key \in DOMAIN file.agents, FileOk(file), Plain(file.agents[key]),
         Decodes(file.agents[key]), SoundAgent(Filled(Decoded(file.agents[key])))
  PROVE  Parses(file.agents[key]) /\ SoundAgent(AgentOf(file, key))
<1>1. PICK block : block = file.agents[key]
  OBVIOUS
<1>2. PICK f : f = Filled(Decoded(block))
  OBVIOUS
<1>3. PICK c : c = AgentOf(file, key)
  OBVIOUS
<1>4. Plain(block) /\ Decodes(block) /\ block.kind = "map" /\ SoundAgent(f)
  BY <1>1, <1>2 DEF Decodes
<1>5. \A name \in {"temperature", "maxtokens", "maxiterations"} :
        /\ Tenths(block, name) = Amount(block, name) /\ Amount(block, name) \in Int
        /\ Given(block, name) => Value(block, name).kind = "number"
  BY <1>1, <1>4, NumbersAlike
<1>6. Parses(block)
  <2>1. Given(block, "tools") => ToolNames(Value(block, "tools"))
    BY <1>4, ReadersSee DEF Decodes, ToolNames
  <2> QED
    BY <1>4, <1>5, <2>1 DEF Parses, Plain
<1>7. \A name \in {"maxtokens", "maxiterations"} : Truncate(Tenths(block, name)) = Amount(block, name) \div 10
  <2> SUFFICES ASSUME NEW name \in {"maxtokens", "maxiterations"}
               PROVE  Truncate(Tenths(block, name)) = Amount(block, name) \div 10
    OBVIOUS
  <2>1. Amount(block, name) % 10 = 0
    BY <1>4 DEF Plain, Whole, Amount
  <2> QED
    BY <1>5, <2>1, WholeTruncates
<1>8. /\ f.name # "" /\ f.type # "" /\ f.model # "" /\ f.provider # ""
      /\ 0 <= f.temperature /\ f.temperature <= 20
  <2>1. Complete(f) /\ 0 <= f.temperature /\ f.temperature <= 20
    BY <1>4 DEF SoundAgent, ValidAgent
  <2>2. f.name # "" /\ f.type # "" /\ f.model # "" /\ f.provider # ""
    BY <2>1, Zenon DEF Complete
  <2> QED
    BY <2>1, <2>2, Zenon
<1>9. f.name = DecodedText(block, "name") /\ f.type = DecodedText(block, "type")
  BY <1>2, FieldsFilled
<1>10. f.model = DecodedText(block, "model") /\ f.provider = DecodedText(block, "provider")
  BY <1>2, FieldsFilled
<1>11. c.name = f.name /\ c.type = f.type
  <2>1. Printed(block, "name") = f.name /\ Printed(block, "type") = f.type
    BY <1>4, <1>8, <1>9, TextsAlike
  <2>2. c.name = TextOr(Printed(block, "name"), key) /\ c.type = TextOr(Printed(block, "type"), "chat")
    BY <1>1, <1>3, FieldsParsed
  <2> QED
    BY <1>8, <2>1, <2>2 DEF TextOr
<1>14. c.model = f.model /\ c.provider = f.provider
  <2>1. Printed(block, "model") = f.model /\ Printed(block, "provider") = f.provider
    BY <1>4, <1>8, <1>10, TextsAlike
  <2> QED
    BY <1>1, <1>3, <2>1, FieldsParsed
<1>12. c.tokens = f.tokens /\ c.iterations = f.iterations
  BY <1>1, <1>2, <1>3, <1>7, FieldsFilled, FieldsParsed
<1>13. 0 <= c.temperature /\ c.temperature <= 20
  <2>1. f.temperature = Amount(block, "temperature")
    BY <1>2, <1>5, FieldsFilled
  <2>2. c.temperature = AmountOr(Amount(block, "temperature"), 7)
    BY <1>1, <1>3, FieldsParsed
  <2> QED
    <3>1. PICK n \in Int : n = Amount(block, "temperature")
      BY <1>5
    <3>2. 0 <= n /\ n <= 20
      BY <1>8, <2>1, <3>1
    <3> QED
      BY <2>2, <3>1, <3>2 DEF AmountOr
<1> QED
  BY <1>1, <1>3, <1>4, <1>6, <1>11, <1>12, <1>13, <1>14, SoundAlike

LEMMA FleetPasses ==
  ASSUME NEW file, FileOk(file), PlainFile(file), FleetAccepts(file, FALSE)
  PROVE  ValidateAccepts(file, FALSE)
<1>1. LoadsFleet(file) /\ SchemasHold(file)
  BY DEF FleetAccepts
<1>2. \A key \in DOMAIN file.agents :
        file.agents[key].kind = "map" /\ Parses(file.agents[key]) /\ SoundAgent(AgentOf(file, key))
  <2> SUFFICES ASSUME NEW key \in DOMAIN file.agents
               PROVE  /\ file.agents[key].kind = "map"
                      /\ Parses(file.agents[key]) /\ SoundAgent(AgentOf(file, key))
    OBVIOUS
  <2>1. Decodes(file.agents[key]) /\ file.agents[key].kind = "map"
    BY <1>1 DEF LoadsFleet, Decodes
  <2>2. Plain(file.agents[key])
    BY <2>1 DEF PlainFile
  <2> QED
    BY <1>1, <2>1, <2>2, AgentPasses DEF SchemasHold
<1> DEFINE c == FleetOf(file)
<1>3. DOMAIN c.agents = DOMAIN file.agents /\ c.default = file.default /\ c.rules = file.rules
  BY DEF FleetOf
<1>4. DOMAIN file.agents # {} /\ ValidRouting(c)
  BY <1>1, <1>3 DEF LoadsFleet, Validate
<1>5. RoutesExist(file)
  BY <1>3, <1>4 DEF RoutesExist, ValidRouting, MayServe, IsAgentEnabled, AllIds, FileOk
<1> QED
  BY <1>1, <1>2, <1>4, <1>5 DEF ValidateAccepts, LoadsAgents, LoadsFleet

LEMMA NothingToSanitize ==
  ASSUME NEW v, Named(v), v.tokens \in Int, 100 < v.tokens, v.temperature \in Int, 0 <= v.temperature,
         v.temperature <= 20, v.iterations \in Int, v.iterations > 0, TextOr(v.type, "chat") = v.type,
         TextOr(v.provider, "ollama") = v.provider, TextOr(v.model, "llama2") = v.model
  PROVE  NewAgent(v) = [v EXCEPT !.tokens = v.tokens, !.temperature = v.temperature, !.iterations = v.iterations,
                                 !.type = v.type, !.provider = v.provider, !.model = v.model]
<1>1. PICK t : t = IF Named(v) /\ v.tokens <= 100 THEN 500 ELSE v.tokens
  OBVIOUS
<1>2. PICK e : e = IF 0 <= v.temperature /\ v.temperature <= 20 THEN v.temperature ELSE 7
  OBVIOUS
<1>3. PICK i : i = IF Named(v) /\ v.tokens <= 100000 /\ v.iterations <= 0 THEN 10 ELSE v.iterations
  OBVIOUS
<1>4. PICK y : y = IF Named(v) /\ v.tokens <= 100000 /\ v.iterations <= 100 THEN TextOr(v.type, "chat") ELSE v.type
  OBVIOUS
<1>5. t = v.tokens /\ e = v.temperature /\ i = v.iterations /\ y = v.type
  BY <1>1, <1>2, <1>3, <1>4
<1>6. NewAgent(v) = [v EXCEPT !.tokens = t, !.temperature = e, !.iterations = i,
                                 !.type = y, !.provider = TextOr(v.provider, "ollama"), !.model = TextOr(v.model, "llama2")]
  BY <1>1, <1>2, <1>3, <1>4 DEF NewAgent
<1> QED
  BY <1>5, <1>6, Zenon

(* What validate accepts is what NewAgent builds without emergency defaults. *)
LEMMA BuiltAsGiven ==
  ASSUME NEW file, NEW key \in DOMAIN file.agents, FileOk(file), LoadsAgents(file),
         ValidAgent(AgentOf(file, key))
  PROVE  /\ NewAgent(Validated(AgentOf(file, key))) = Validated(AgentOf(file, key))
         /\ Validated(AgentOf(file, key)).name = AgentOf(file, key).name
<1>1. PICK c : c = AgentOf(file, key)
  OBVIOUS
<1>2. PICK block : block = file.agents[key]
  OBVIOUS
<1>3. c.iterations \in Int /\ c.tokens \in Int /\ c.temperature \in Int
  <2> DEFINE names == {"temperature", "maxtokens", "maxiterations"}
  <2>1. \A name \in names : Given(block, name) => Value(block, name).kind = "number"
    BY <1>2 DEF LoadsAgents, Parses, Whole
  <2>2. \A k \in DOMAIN block.fields : block.fields[k].kind = "number" => block.fields[k].tenths \in Int
    BY <1>2 DEF FileOk, BlockOk, LoadsAgents
  <2>3. \A name \in names : Amount(block, name) \in Int
    BY <2>1, <2>2, KeyIsThere DEF Amount
  <2>4. /\ c.temperature = AmountOr(Amount(block, "temperature"), 7)
        /\ c.iterations = AmountOr(Amount(block, "maxiterations") \div 10, 10)
        /\ c.tokens = AmountOr(Amount(block, "maxtokens") \div 10, 1000)
    BY <1>1, <1>2, FieldsParsed
  <2> QED
    BY <2>3, <2>4 DEF AmountOr
<1>4. PICK v : v = Validated(c)
  OBVIOUS
<1>5. /\ v.name = c.name /\ v.type = c.type /\ v.model = c.model /\ v.provider = c.provider
      /\ v.tokens = c.tokens /\ v.tokens \in Int /\ v.temperature = c.temperature /\ v.temperature \in Int /\ v.iterations \in Int /\ v.iterations > 0
  BY <1>1, <1>3, <1>4 DEF Validated, AgentOf, ToAgentConfig
<1>6. /\ 100 < v.tokens /\ v.tokens <= 100000 /\ 0 <= v.temperature /\ v.temperature <= 20 /\ Complete(v)
  <2>1. Complete(v) = Complete(c)
    BY <1>5, Zenon DEF Complete
  <2> QED
    BY <1>1, <1>5, <2>1 DEF ValidAgent
<1>7. /\ Named(v) /\ TextOr(v.type, "chat") = v.type
      /\ TextOr(v.provider, "ollama") = v.provider /\ TextOr(v.model, "llama2") = v.model
  <2>1. Complete(v)
    BY <1>6
  <2> QED
    BY <2>1, Zenon DEF Complete, Named, TextOr
<1>8. NewAgent(v) = v
  <2> DEFINE names == {"id", "name", "type", "model", "provider", "prompt", "temperature", "tokens", "iterations", "tools"}
  <2>1. v = [x \in names |-> v[x]]
    <3>1. c = [x \in names |-> c[x]]
      BY <1>1 DEF AgentOf, ToAgentConfig
    <3> HIDE DEF names
    <3> QED
      BY <1>4, <3>1 DEF Validated
  <2>2. NewAgent(v) = [v EXCEPT !.tokens = v.tokens, !.temperature = v.temperature, !.iterations = v.iterations,
                                !.type = v.type, !.provider = v.provider, !.model = v.model]
    <3>1. 100 < v.tokens /\ 0 <= v.temperature /\ v.temperature <= 20
      BY <1>6, SMT
    <3> QED
      BY <1>5, <1>7, <3>1, NothingToSanitize, Zenon
  <2> QED
    BY <2>1, <2>2
<1> QED
  BY <1>1, <1>4, <1>5, <1>8

(* A rule that no other one shadows takes the requests it was written for.   *)
LEMMA RuleAnswers ==
  ASSUME NEW c, Len(c.rules) \in Nat, DOMAIN c.rules = 1..Len(c.rules), ValidRouting(c), ExactPaths(c),
         ~PatternsClash(c.rules), NEW i \in DOMAIN c.rules, ~Obscured(c, i)
  PROVE  Routed(c, ItsRequest(c.rules[i])) = c.rules[i].agent
<1>0. PICK q : q = ItsRequest(c.rules[i])
  OBVIOUS
<1>1. q = ItsRequest(c.rules[i]) /\ q.path = c.rules[i].pattern /\ q.method = "POST"
  BY <1>0 DEF ItsRequest
<1>2. \A j \in DOMAIN c.rules : Selects(c, c.rules[j], q) <=> q.path = c.rules[j].pattern
  <2> SUFFICES ASSUME NEW j \in DOMAIN c.rules PROVE Selects(c, c.rules[j], q) <=> q.path = c.rules[j].pattern
    OBVIOUS
  <2>1. ByPath(c) /\ MatchMode(c.rules[j].match) = "exact"
    BY DEF ExactPaths, PlainRules
  <2>2. CASE Literal(c.rules[j].pattern)
    <3>1. Selects(c, c.rules[j], q) <=> MatchesPath(c.rules[j].match, c.rules[j].pattern, q.path)
      BY <2>1, <2>2, SelectsLiterally DEF Templated
    <3> QED
      BY <2>1, <3>1 DEF MatchesPath
  <2>3. CASE ~Literal(c.rules[j].pattern)
    <3>1. j # i /\ ~Selects(c, c.rules[j], q)
      BY <1>1, <2>3, Zenon DEF Obscured
    <3>2. Literal(c.rules[i].pattern)
      BY Zenon DEF Obscured
    <3> QED
      BY <1>1, <2>3, <3>1, <3>2
  <2> QED
    BY <2>2, <2>3
<1>3. \A j \in DOMAIN c.rules : MatchConditions(c.rules[j], q) /\ (c.rules[j].method # "" => c.rules[j].method = q.method)
  <2> SUFFICES ASSUME NEW j \in DOMAIN c.rules
               PROVE  MatchConditions(c.rules[j], q) /\ (c.rules[j].method # "" => c.rules[j].method = q.method)
    OBVIOUS
  <2>1. c.rules[j].conditions = <<>> /\ c.rules[j].method = ""
    BY DEF ExactPaths, PlainRules
  <2>2. ToSet(c.rules[j].conditions) = {}
    <3>1. c.rules[j].conditions = <<>>
      BY <2>1
    <3> QED
      BY <3>1 DEF ToSet
  <2> QED
    BY <2>1, <2>2, Zenon DEF MatchConditions
<1>4. \A j \in DOMAIN c.rules : c.rules[j].pattern = c.rules[i].pattern => j = i
  <2>1. c.rules[i].pattern # <<>>
    BY Zenon DEF ValidRouting
  <2> QED
    BY <2>1 DEF PatternsClash
<1>5. Matching(c, q) = {i}
  <2>1. Matching(c, q) = {j \in DOMAIN c.rules : q.path = c.rules[j].pattern}
    BY <1>2, <1>3, Zenon DEF Matching
  <2> QED
    BY <1>1, <1>4, <2>1
<1>6. First(c, {i}) = i
  BY DEF First
<1>7. <<q.method, q.path>> \notin Management
  BY <1>1 DEF ExactPaths
<1> QED
  BY <1>1, <1>5, <1>6, <1>7 DEF Routed

LEMMA FleetReached ==
  ASSUME NEW file, FileOk(file), FleetAccepts(file, TRUE), file.routed, ExactPaths(FleetOf(file)),
         NEW a \in DOMAIN file.agents
  PROVE  Reached(FleetOf(file), a)
<1>1. PICK c : c = FleetOf(file)
  OBVIOUS
<1>2. c.rules = file.rules /\ c.default = file.default
  BY <1>1 DEF FleetOf
<1>3. /\ ValidRouting(c) /\ ~PatternsClash(file.rules)
      /\ a = file.default \/ \E i \in DOMAIN file.rules : file.rules[i].agent = a
  BY <1>1, Zenon DEF FleetAccepts, LoadsFleet, Validate, StrictHolds
<1>4. Len(c.rules) \in Nat /\ DOMAIN c.rules = 1..Len(c.rules)
  BY <1>2, Zenon DEF FileOk, BlockOk
<1>5. CASE a = file.default
  BY <1>1, <1>2, <1>5 DEF Reached
<1>6. ASSUME NEW i \in DOMAIN file.rules, file.rules[i].agent = a PROVE Reached(c, a)
  <2>1. ~Obscured(c, i) => Routed(c, ItsRequest(c.rules[i])) = c.rules[i].agent
    BY <1>1, <1>2, <1>3, <1>4, <1>6, RuleAnswers
  <2> QED
    BY <1>2, <1>6, <2>1, Zenon DEF Reached
<1> QED
  BY <1>1, <1>3, <1>5, <1>6

(* The agents of a fleet that passes the strict checks are loaded under their*)
(* keys.                                                                     *)
LEMMA LoadedByKey ==
  ASSUME NEW file, PlainFile(file), FleetAccepts(file, TRUE), NEW a \in DOMAIN file.agents, a # ""
  PROVE  IdOf(file, a) = a
<1>1. PICK block : block = file.agents[a]
  OBVIOUS
<1>2. Decodes(block) /\ Decoded(block).id \in {"", a}
  BY <1>1, Zenon DEF FleetAccepts, LoadsFleet, StrictHolds
<1>3. Plain(block)
  BY <1>1, <1>2, Zenon DEF PlainFile, Decodes
<1>4. Printed(block, "id") = DecodedText(block, "id")
  BY <1>3, ReadersSee, Zenon DEF Printed, DecodedText
<1>5. Decoded(block).id = DecodedText(block, "id")
  BY DEF Decoded
<1>6. AgentOf(file, a).id = Printed(block, "id")
  BY <1>1 DEF AgentOf, ToAgentConfig
<1>7. AgentOf(file, a).id \in {"", a}
  BY <1>2, <1>4, <1>5, <1>6, Zenon
<1> QED
  BY <1>7, Zenon DEF IdOf, TextOr

-------------------------------------------------------------------------------
(* The registry of a load has each agent of the files that were read, and    *)
(* every verdict is that on the first file.                                  *)
Registered(i, k) == /\ IdOf(directory[i], k) \in DOMAIN known
                    /\ known[IdOf(directory[i], k)] = AgentOf(directory[i], k)
ChecksInv ==
    /\ directory \in Directories
    /\ \A c \in DOMAIN verdicts : directory # <<>> /\ verdicts[c] = Accepts(c, directory[1])
    /\ enrolled \in Int /\ enrolled <= Len(directory)
    /\ \A i \in 1..enrolled : \A k \in DOMAIN directory[i].agents : Registered(i, k)
    /\ \A i, j \in 1..enrolled : \A k \in DOMAIN directory[i].agents, l \in DOMAIN directory[j].agents :
          IdOf(directory[i], k) = IdOf(directory[j], l) => i = j /\ k = l

LEMMA ChecksInvKept == ChecksInv /\ [ChecksNext]_checksVars => ChecksInv'
<1> SUFFICES ASSUME ChecksInv, [ChecksNext]_checksVars PROVE ChecksInv'
  OBVIOUS
<1>1. ASSUME NEW command, Judge(command) PROVE ChecksInv'
  <2>1. UNCHANGED <<directory, enrolled, known>> /\ directory # <<>>
    BY <1>1 DEF Judge
  <2>2. \A c \in DOMAIN verdicts' : verdicts'[c] = Accepts(c, directory[1])
    BY <1>1, Zenon DEF Judge, ChecksInv
  <2> QED
    BY <2>1, <2>2 DEF ChecksInv, Registered
<1>2. ASSUME EnrolNext PROVE ChecksInv'
  <2>1. UNCHANGED <<directory, verdicts>> /\ directory \in Directories
    BY <1>2 DEF EnrolNext, ChecksInv
  <2>2. Len(directory) \in Nat /\ DOMAIN directory = 1..Len(directory)
    BY <2>1, FilesAssumption
  <2>3. \A c \in DOMAIN verdicts' : directory' # <<>> /\ verdicts'[c] = Accepts(c, directory'[1])
    BY <2>1, Zenon DEF ChecksInv
  <2>4. CASE directory # <<>> /\ Enrols(directory[enrolled + 1], known)
    <3>1. PICK file : file = directory[enrolled + 1]
      OBVIOUS
    <3>2. /\ enrolled' = enrolled + 1 /\ enrolled \in Int /\ enrolled >= 0 /\ enrolled < Len(directory)
          /\ known' = [id \in DOMAIN known \union IdsOf(file) |->
                          IF id \in IdsOf(file)
                          THEN AgentOf(file, CHOOSE key \in DOMAIN file.agents : IdOf(file, key) = id)
                          ELSE known[id]]
      <4>1. enrolled \in Int /\ enrolled >= 0 /\ enrolled < Len(directory)
        BY <1>2, <2>4 DEF EnrolNext, ChecksInv
      <4> QED
        BY <1>2, <2>4, <3>1, <4>1 DEF EnrolNext
    <3>3. \A key \in DOMAIN file.agents : IdOf(file, key) \notin DOMAIN known
      BY <2>4, <3>1 DEF Enrols
    <3>4. \A key, other \in DOMAIN file.agents : IdOf(file, other) = IdOf(file, key) => other = key
      BY <2>4, <3>1 DEF Enrols
    <3>5. \A key \in DOMAIN file.agents : /\ IdOf(file, key) \in DOMAIN known'
                                          /\ known'[IdOf(file, key)] = AgentOf(file, key)
      <4> SUFFICES ASSUME NEW key \in DOMAIN file.agents
                   PROVE  IdOf(file, key) \in DOMAIN known' /\ known'[IdOf(file, key)] = AgentOf(file, key)
        OBVIOUS
      <4>1. IdOf(file, key) \in IdsOf(file)
        BY DEF IdsOf
      <4>2. (CHOOSE k \in DOMAIN file.agents : IdOf(file, k) = IdOf(file, key)) = key
        BY <3>4
      <4> QED
        BY <3>2, <4>1, <4>2
    <3>6. ASSUME NEW i \in 1..enrolled, NEW k \in DOMAIN directory[i].agents
          PROVE  /\ Registered(i, k)'
                 /\ \A key \in DOMAIN file.agents : IdOf(directory[i], k) # IdOf(file, key)
      <4>1. Registered(i, k)
        BY DEF ChecksInv
      <4>2. IdOf(directory[i], k) \notin IdsOf(file)
        BY <3>3, <4>1 DEF Registered, IdsOf
      <4>3. \A id \in DOMAIN known \ IdsOf(file) : id \in DOMAIN known' /\ known'[id] = known[id]
        BY <3>2
      <4> QED
        BY <2>1, <4>1, <4>2, <4>3 DEF Registered, IdsOf
    <3>7. ASSUME NEW i \in 1..enrolled' PROVE i \in 1..enrolled \/ (i = enrolled' /\ directory[i] = file)
      BY <3>1, <3>2
    <3>8. \A i \in 1..enrolled' : \A k \in DOMAIN directory[i].agents : Registered(i, k)'
      <4> SUFFICES ASSUME NEW i \in 1..enrolled', NEW k \in DOMAIN directory[i].agents
                   PROVE  Registered(i, k)'
        OBVIOUS
      <4>1. CASE i \in 1..enrolled
        BY <4>1, <3>6
      <4>2. CASE directory[i] = file
        BY <2>1, <3>5, <4>2 DEF Registered
      <4> QED
        BY <3>7, <4>1, <4>2
    <3>9. \A i, j \in 1..enrolled' : \A k \in DOMAIN directory[i].agents, l \in DOMAIN directory[j].agents :
             IdOf(directory[i], k) = IdOf(directory[j], l) => i = j /\ k = l
      <4> SUFFICES ASSUME NEW i \in 1..enrolled', NEW j \in 1..enrolled', NEW k \in DOMAIN directory[i].agents,
                          NEW l \in DOMAIN directory[j].agents, IdOf(directory[i], k) = IdOf(directory[j], l)
                   PROVE  i = j /\ k = l
        OBVIOUS
      <4>1. CASE i \in 1..enrolled /\ j \in 1..enrolled
        BY <4>1 DEF ChecksInv
      <4>2. CASE i \in 1..enrolled /\ j = enrolled' /\ directory[j] = file
        BY <3>6, <4>2
      <4>3. CASE j \in 1..enrolled /\ i = enrolled' /\ directory[i] = file
        BY <3>6, <4>3
      <4>4. CASE i = enrolled' /\ directory[i] = file /\ j = enrolled' /\ directory[j] = file
        BY <3>4, <4>4
      <4> QED
        BY <3>7, <4>1, <4>2, <4>3, <4>4
    <3> QED
      BY <2>1, <2>2, <2>3, <3>2, <3>8, <3>9 DEF ChecksInv
  <2>5. CASE ~(directory # <<>> /\ Enrols(directory[enrolled + 1], known))
    <3>1. enrolled' = -1
      BY <1>2, <2>5 DEF EnrolNext
    <3>2. 1..enrolled' = {}
      BY <3>1
    <3>3. enrolled' \in Int /\ enrolled' <= Len(directory)
      BY <2>2, <3>1
    <3> QED
      BY <2>1, <2>3, <3>2, <3>3 DEF ChecksInv
  <2> QED
    BY <2>4, <2>5
<1>3. CASE UNCHANGED checksVars
  BY <1>3 DEF checksVars, ChecksInv, Registered
<1> QED
  BY <1>1, <1>2, <1>3 DEF ChecksNext

(* The commands do not contradict one another, whatever files they are given:*)
(* validate, test, the strict checks of a fleet and multi-agent load.        *)
THEOREM CommandsAgree == ChecksSpec => []VerdictsAgree
<1>1. ChecksInit => ChecksInv
  <2> SUFFICES ASSUME ChecksInit PROVE ChecksInv
    OBVIOUS
  <2>1. Len(directory) \in Nat
    BY FilesAssumption DEF ChecksInit
  <2>2. 1..enrolled = {}
    BY DEF ChecksInit
  <2>3. DOMAIN verdicts = {}
    BY DEF ChecksInit
  <2> QED
    BY <2>1, <2>2, <2>3 DEF ChecksInit, ChecksInv
<1>2. ChecksInv => VerdictsAgree
  <2> SUFFICES ASSUME ChecksInv PROVE VerdictsAgree
    OBVIOUS
  <2>1. ASSUME directory # <<>>
        PROVE  LET file == directory[1] IN
          /\ Accepted("fleet") /\ PlainFile(file) => ~Refused("validate")
          /\ Accepted("validate") => /\ ~Refused("test")
                                     /\ \A key \in DOMAIN file.agents : LET c == Validated(AgentOf(file, key))
                                                                        IN  NewAgent(c) = c
          /\ Accepted("fleet strict") =>
                /\ file.routed /\ ExactPaths(FleetOf(file)) => \A a \in DOMAIN file.agents : Reached(FleetOf(file), a)
                /\ PlainFile(file) /\ enrolled > 0 => DOMAIN file.agents \ {""} \subseteq DOMAIN known
    <3>1. PICK file : file = directory[1]
      OBVIOUS
    <3>2. FileOk(file)
      <4>1. directory \in Directories /\ Len(directory) \in Nat /\ DOMAIN directory = 1..Len(directory)
        BY FilesAssumption DEF ChecksInv
      <4>2. 1 \in DOMAIN directory
        BY <2>1, <4>1
      <4> QED
        BY <3>1, <4>1, <4>2, FilesAssumption
    <3>3. \A c \in DOMAIN verdicts : verdicts[c] = Accepts(c, file)
      BY <3>1 DEF ChecksInv
    <3>4. Accepted("fleet") /\ PlainFile(file) => ~Refused("validate")
      <4>1. Accepts("fleet", file) = FleetAccepts(file, FALSE) /\ Accepts("validate", file) = ValidateAccepts(file, FALSE)
        BY DEF Accepts
      <4> QED
        BY <3>2, <3>3, <4>1, FleetPasses, Zenon DEF Accepted, Refused
    <3>5. ASSUME Accepted("validate")
          PROVE  ~Refused("test") /\ \A key \in DOMAIN file.agents : NewAgent(Validated(AgentOf(file, key))) = Validated(AgentOf(file, key))
      <4>1. Accepts("test", file) = TestAccepts(file) /\ Accepts("validate", file) = ValidateAccepts(file, FALSE)
        BY DEF Accepts
      <4>2. ValidateAccepts(file, FALSE)
        BY <3>3, <3>5, <4>1, Zenon DEF Accepted
      <4>3. LoadsAgents(file) /\ \A key \in DOMAIN file.agents : ValidAgent(AgentOf(file, key))
        BY <4>2, Zenon DEF ValidateAccepts, SoundAgent
      <4>4. \A key \in DOMAIN file.agents :
               /\ NewAgent(Validated(AgentOf(file, key))) = Validated(AgentOf(file, key))
               /\ Validated(AgentOf(file, key)).name = AgentOf(file, key).name
        BY <3>2, <4>3, BuiltAsGiven, Zenon
      <4>5. TestAccepts(file)
        BY <4>3, <4>4, Zenon DEF TestAccepts
      <4> QED
        BY <3>3, <4>1, <4>4, <4>5, Zenon DEF Refused
    <3>6. ASSUME Accepted("fleet strict")
          PROVE  /\ file.routed /\ ExactPaths(FleetOf(file)) => \A a \in DOMAIN file.agents : Reached(FleetOf(file), a)
                 /\ PlainFile(file) /\ enrolled > 0 => DOMAIN file.agents \ {""} \subseteq DOMAIN known
      <4>1. Accepts("fleet strict", file) = FleetAccepts(file, TRUE)
        BY DEF Accepts
      <4>2. FleetAccepts(file, TRUE)
        BY <3>3, <3>6, <4>1, Zenon DEF Accepted
      <4>3. file.routed /\ ExactPaths(FleetOf(file)) => \A a \in DOMAIN file.agents : Reached(FleetOf(file), a)
        BY <3>2, <4>2, FleetReached, Zenon
      <4>4. enrolled > 0 => 1 \in 1..enrolled
        BY DEF ChecksInv
      <4>5. ASSUME PlainFile(file), enrolled > 0, NEW a \in DOMAIN file.agents, a # ""
            PROVE  a \in DOMAIN known
        <5>1. 1 \in 1..enrolled
          BY <4>4, <4>5, Zenon
        <5>2. Registered(1, a)
          BY <3>1, <5>1, <4>5, Zenon DEF ChecksInv
        <5>3. IdOf(file, a) = a
          BY <4>2, <4>5, LoadedByKey, Zenon
        <5> QED
          BY <3>1, <5>2, <5>3, Zenon DEF Registered
      <4> QED
        BY <4>3, <4>5, Zenon
    <3> QED
      BY <3>1, <3>4, <3>5, <3>6, Zenon
  <2>2. \A i, j \in 1..enrolled : \A k \in DOMAIN directory[i].agents, l \in DOMAIN directory[j].agents :
          /\ known[IdOf(directory[i], k)] = AgentOf(directory[i], k)
          /\ IdOf(directory[i], k) = IdOf(directory[j], l) => <<i, k>> = <<j, l>>
    BY DEF ChecksInv, Registered
  <2> QED
    BY <2>1, <2>2, Zenon DEF VerdictsAgree
<1> QED
  BY <1>1, <1>2, ChecksInvKept, PTL DEF ChecksSpec
-------------------------------------------------------------------------------
(* The files of a project. A set of names listed as a sequence has each once. *)
LEMMA Listed ==
  ASSUME NEW S, IsFiniteSet(S), NEW ids, ids = SetToSeq(S)
  PROVE  /\ ids \in Seq(S) /\ Len(ids) \in Nat /\ DOMAIN ids = 1 .. Len(ids)
         /\ \A x \in S : \E i \in DOMAIN ids : ids[i] = x
         /\ \A i, j \in DOMAIN ids : ids[i] = ids[j] => i = j
<1>1. PICK n : n = Cardinality(S)
  OBVIOUS
<1>2. n \in Nat /\ Bijection(1 .. n, S) # {}
  BY <1>1, FS_CardinalityType DEF ExistsBijection
<1>3. PICK f : f \in Injection(1 .. n, S)
  BY <1>2 DEF Bijection
<1>4. \E g \in [1 .. n -> S] : IsInjective(g)
  BY <1>3 DEF Injection
<1>5. ids = CHOOSE g \in [1 .. n -> S] : IsInjective(g)
  BY <1>1 DEF SetToSeq
<1>6. ids \in [1 .. n -> S] /\ IsInjective(ids)
  BY <1>4, <1>5
<1>7. ids \in Injection(1 .. n, S)
  BY <1>6 DEF Injection
<1>8. IsFiniteSet(1 .. n) /\ Cardinality(1 .. n) = n
  BY <1>2, FS_Interval
<1>9. ids \in Surjection(1 .. n, S)
  BY <1>1, <1>7, <1>8, FS_Injection
<1>10. \A x \in S : \E i \in 1 .. n : ids[i] = x
  BY <1>9 DEF Surjection
<1>11. ids \in Seq(S) /\ Len(ids) = n /\ DOMAIN ids = 1 .. n
  BY <1>2, <1>6
<1>12. \A i, j \in DOMAIN ids : ids[i] = ids[j] => i = j
  BY <1>6 DEF IsInjective
<1> QED
  BY <1>2, <1>10, <1>11, <1>12

(* A permutation reaches every position. *)
LEMMA OrderReaches ==
  ASSUME NEW n \in Nat, NEW ranks \in Orders(n), NEW k \in 1 .. n
  PROVE  \E i \in 1 .. n : ranks[i] = k
<1>1. ranks \in Injection(1 .. n, 1 .. n)
  BY DEF Orders, Injection, IsInjective
<1>2. IsFiniteSet(1 .. n)
  BY FS_Interval
<1>3. ranks \in Surjection(1 .. n, 1 .. n)
  BY <1>1, <1>2, FS_Injection
<1> QED
  BY <1>3 DEF Surjection

-------------------------------------------------------------------------------
(* What is marshalled and read again is what it was.                         *)
Settings == {"id", "name", "type", "model", "provider", "system_prompt", "temperature", "max_tokens",
             "max_iterations", "tools", "interrupt_on", "metadata"}
FieldsOf(d) ==
    [id |-> TextValue(d.id), name |-> TextValue(d.name), type |-> TextValue(d.type),
     model |-> TextValue(d.model), provider |-> TextValue(d.provider),
     system_prompt |-> TextValue(d.prompt), temperature |-> NumberValue(d.temperature),
     max_tokens |-> NumberValue(10 * d.tokens), max_iterations |-> NumberValue(10 * d.iterations),
     tools |-> ListValue(d.tools), interrupt_on |-> [kind |-> "list", items |-> d.interrupts],
     metadata |-> [kind |-> "map", entries |-> d.metadata]]

LEMMA Spellings ==
  /\ \A k, l \in Settings : NormalizeKey(k) = NormalizeKey(l) => k = l
  /\ Settings \cap CamelCase = {}
  /\ NormalizeKey("id") = "id" /\ NormalizeKey("name") = "name" /\ NormalizeKey("type") = "type"
  /\ NormalizeKey("model") = "model" /\ NormalizeKey("provider") = "provider"
  /\ NormalizeKey("system_prompt") = "systemprompt" /\ NormalizeKey("temperature") = "temperature"
  /\ NormalizeKey("max_tokens") = "maxtokens" /\ NormalizeKey("max_iterations") = "maxiterations"
  /\ NormalizeKey("tools") = "tools" /\ NormalizeKey("interrupt_on") = "interrupton"
  /\ NormalizeKey("metadata") = "metadata"
BY DEF NormalizeKey, Settings, CamelCase

LEMMA EncodedShape ==
  ASSUME NEW d, NEW e, e = Encode(d)
  PROVE  e.kind = "map" /\ e.fields = FieldsOf(d) /\ DOMAIN e.fields = Settings
BY DEF Encode, FieldsOf, Settings

LEMMA FieldOf ==
  ASSUME NEW e, \A k, l \in DOMAIN e.fields : NormalizeKey(k) = NormalizeKey(l) => k = l,
         DOMAIN e.fields \cap CamelCase = {}, NEW k \in DOMAIN e.fields
  PROVE  /\ Keys(e, NormalizeKey(k)) = {k} /\ Given(e, NormalizeKey(k))
         /\ Value(e, NormalizeKey(k)) = e.fields[k]
         /\ e.fields[k].kind # "null" => Set(e, NormalizeKey(k))
<1>1. Keys(e, NormalizeKey(k)) = {k}
  BY DEF Keys
<1>2. (CHOOSE key \in {k} : TRUE) = k
  OBVIOUS
<1>3. {k} \ CamelCase # {}
  OBVIOUS
<1> QED
  BY <1>1, <1>2, <1>3, Zenon DEF Given, Value, Set

LEMMA EncodedBlock ==
  ASSUME NEW d, NEW e, e = Encode(d), NEW k \in Settings
  PROVE  /\ Given(e, NormalizeKey(k)) /\ Set(e, NormalizeKey(k)) /\ Keys(e, NormalizeKey(k)) = {k}
         /\ Value(e, NormalizeKey(k)) = FieldsOf(d)[k]
<1>1. e.fields = FieldsOf(d) /\ DOMAIN e.fields = Settings
  BY EncodedShape
<1>2. FieldsOf(d)[k].kind # "null"
  BY DEF FieldsOf, Settings, TextValue, NumberValue, ListValue
<1> QED
  BY <1>1, <1>2, Spellings, FieldOf

LEMMA EncodedTexts ==
  ASSUME NEW d, NEW e, e = Encode(d)
  PROVE  /\ Value(e, "id") = TextValue(d.id) /\ Value(e, "name") = TextValue(d.name)
         /\ Value(e, "type") = TextValue(d.type) /\ Value(e, "model") = TextValue(d.model)
         /\ Value(e, "provider") = TextValue(d.provider) /\ Value(e, "systemprompt") = TextValue(d.prompt)
         /\ \A name \in {"id", "name", "type", "model", "provider", "systemprompt"} : Given(e, name) /\ Set(e, name)
<1>1. {"id", "name", "type", "model", "provider", "system_prompt"} \subseteq Settings
  BY DEF Settings
<1>2. /\ FieldsOf(d)["id"] = TextValue(d.id) /\ FieldsOf(d)["name"] = TextValue(d.name)
      /\ FieldsOf(d)["type"] = TextValue(d.type) /\ FieldsOf(d)["model"] = TextValue(d.model)
      /\ FieldsOf(d)["provider"] = TextValue(d.provider) /\ FieldsOf(d)["system_prompt"] = TextValue(d.prompt)
  BY DEF FieldsOf
<1> QED
  BY <1>1, <1>2, EncodedBlock, Spellings

LEMMA EncodedRest ==
  ASSUME NEW d, NEW e, e = Encode(d)
  PROVE  /\ Value(e, "temperature") = NumberValue(d.temperature)
         /\ Value(e, "maxtokens") = NumberValue(10 * d.tokens)
         /\ Value(e, "maxiterations") = NumberValue(10 * d.iterations)
         /\ Value(e, "tools") = ListValue(d.tools)
         /\ Value(e, "interrupton") = [kind |-> "list", items |-> d.interrupts]
         /\ Value(e, "metadata") = [kind |-> "map", entries |-> d.metadata]
         /\ \A name \in {"temperature", "maxtokens", "maxiterations", "tools", "interrupton", "metadata"} :
               Given(e, name) /\ Set(e, name)
<1>1. {"temperature", "max_tokens", "max_iterations", "tools", "interrupt_on", "metadata"} \subseteq Settings
  BY DEF Settings
<1>2. /\ FieldsOf(d)["temperature"] = NumberValue(d.temperature)
      /\ FieldsOf(d)["max_tokens"] = NumberValue(10 * d.tokens)
      /\ FieldsOf(d)["max_iterations"] = NumberValue(10 * d.iterations)
      /\ FieldsOf(d)["tools"] = ListValue(d.tools)
      /\ FieldsOf(d)["interrupt_on"] = [kind |-> "list", items |-> d.interrupts]
      /\ FieldsOf(d)["metadata"] = [kind |-> "map", entries |-> d.metadata]
  BY DEF FieldsOf
<1> QED
  BY <1>1, <1>2, EncodedBlock, Spellings

LEMMA TruncatesBack ==
  ASSUME NEW n \in Int
  PROVE  Truncate(10 * n) = n
BY DEF Truncate

LEMMA TextsBack ==
  ASSUME NEW texts
  PROVE  {t.text : t \in {TextValue(u) : u \in texts}} = texts
<1>1. \A u : TextValue(u).text = u
  BY DEF TextValue
<1> QED
  BY <1>1

LEMMA DecodedBack ==
  ASSUME NEW d, NEW e, e = Encode(d), d.tokens \in Int, d.iterations \in Int
  PROVE  /\ Decoded(e) = [id |-> d.id, name |-> d.name, type |-> d.type, model |-> d.model, provider |-> d.provider,
                           prompt |-> d.prompt, temperature |-> d.temperature, tokens |-> d.tokens,
                           iterations |-> d.iterations, tools |-> d.tools, metadata |-> d.metadata,
                           interrupts |-> d.interrupts]
         /\ Decodes(e) /\ e.kind = "map"
<1>0. /\ Value(e, "temperature") = NumberValue(d.temperature)
      /\ Value(e, "maxtokens") = NumberValue(10 * d.tokens)
      /\ Value(e, "maxiterations") = NumberValue(10 * d.iterations)
      /\ Value(e, "tools") = ListValue(d.tools)
      /\ Value(e, "interrupton") = [kind |-> "list", items |-> d.interrupts]
      /\ Value(e, "metadata") = [kind |-> "map", entries |-> d.metadata]
      /\ \A name \in {"temperature", "maxtokens", "maxiterations", "tools", "interrupton", "metadata"} :
            Given(e, name) /\ Set(e, name)
  BY EncodedRest
<1>1. /\ DecodedText(e, "id") = d.id /\ DecodedText(e, "name") = d.name /\ DecodedText(e, "type") = d.type
      /\ DecodedText(e, "model") = d.model /\ DecodedText(e, "provider") = d.provider
      /\ DecodedText(e, "systemprompt") = d.prompt
  <2>1. \A text : TextValue(text).text = text
    BY DEF TextValue
  <2>2. \A name \in {"id", "name", "type", "model", "provider", "systemprompt"} :
           DecodedText(e, name) = Value(e, name).text
    BY EncodedTexts, Zenon DEF DecodedText
  <2>3. /\ Value(e, "id") = TextValue(d.id) /\ Value(e, "name") = TextValue(d.name)
        /\ Value(e, "type") = TextValue(d.type) /\ Value(e, "model") = TextValue(d.model)
        /\ Value(e, "provider") = TextValue(d.provider) /\ Value(e, "systemprompt") = TextValue(d.prompt)
    BY EncodedTexts
  <2> QED
    BY <2>1, <2>2, <2>3
<1>2. /\ Tenths(e, "temperature") = d.temperature
      /\ Tenths(e, "maxtokens") = 10 * d.tokens /\ Tenths(e, "maxiterations") = 10 * d.iterations
  BY <1>0 DEF Tenths, NumberValue
<1>3. Truncate(Tenths(e, "maxtokens")) = d.tokens /\ Truncate(Tenths(e, "maxiterations")) = d.iterations
  BY <1>2, TruncatesBack
<1>4. (IF Set(e, "tools") THEN {t.text : t \in Value(e, "tools").items} ELSE {}) = d.tools
  <2>1. Value(e, "tools").items = {TextValue(u) : u \in d.tools} /\ Set(e, "tools")
    BY <1>0 DEF ListValue
  <2> QED
    BY <2>1, TextsBack
<1>5. /\ (IF Set(e, "metadata") THEN Value(e, "metadata").entries ELSE <<>>) = d.metadata
      /\ (IF Set(e, "interrupton") THEN Value(e, "interrupton").items ELSE {}) = d.interrupts
  BY <1>0
<1>6. Decoded(e) = [id |-> d.id, name |-> d.name, type |-> d.type, model |-> d.model, provider |-> d.provider,
                    prompt |-> d.prompt, temperature |-> d.temperature, tokens |-> d.tokens,
                    iterations |-> d.iterations, tools |-> d.tools, metadata |-> d.metadata,
                    interrupts |-> d.interrupts]
  BY <1>1, <1>2, <1>3, <1>4, <1>5, Zenon DEF Decoded
<1>7. e.kind = "map"
  BY EncodedShape
<1>8. \A name \in {"temperature", "maxtokens", "maxiterations"} : Value(e, name).kind = "number"
  BY <1>0 DEF NumberValue
<1>9. Value(e, "tools").kind = "list" /\ \A t \in Value(e, "tools").items : t.kind = "text"
  BY <1>0 DEF ListValue, TextValue
<1> QED
  BY <1>6, <1>7, <1>8, <1>9 DEF Decodes

(* The agents of a fleet that loads can be marshalled.                       *)
LEMMA NumbersOf ==
  ASSUME NEW block, block.kind = "map", BlockOk(block), Decodes(block),
         NEW name \in {"temperature", "maxtokens", "maxiterations"}
  PROVE  Tenths(block, name) \in Int /\ Truncate(Tenths(block, name)) \in Int
<1>1. CASE ~Set(block, name)
  BY <1>1 DEF Tenths, Truncate
<1>2. CASE Set(block, name)
  <2>1. Value(block, name).kind = "number" /\ Given(block, name)
    BY <1>2 DEF Decodes, Set, Given
  <2>2. Value(block, name).tenths \in Int
    BY <2>1, KeyIsThere DEF BlockOk
  <2>3. PICK n \in Int : n = Tenths(block, name)
    BY <1>2, <2>2 DEF Tenths
  <2> QED
    BY <2>3 DEF Truncate
<1> QED
  BY <1>1, <1>2

LEMMA MarshalledBack ==
  ASSUME NEW block, block.kind = "map", BlockOk(block), Decodes(block), NEW e, e = Encode(Decoded(block))
  PROVE  Decoded(e) = Decoded(block) /\ Decodes(e) /\ e.kind = "map"
<1>1. PICK d : d = Decoded(block)
  OBVIOUS
<1>2. d.tokens = Truncate(Tenths(block, "maxtokens")) /\ d.iterations = Truncate(Tenths(block, "maxiterations"))
  BY <1>1 DEF Decoded
<1>3. d.tokens \in Int /\ d.iterations \in Int
  BY <1>2, NumbersOf
<1>4. d = [id |-> d.id, name |-> d.name, type |-> d.type, model |-> d.model, provider |-> d.provider,
           prompt |-> d.prompt, temperature |-> d.temperature, tokens |-> d.tokens,
           iterations |-> d.iterations, tools |-> d.tools, metadata |-> d.metadata,
           interrupts |-> d.interrupts]
  BY <1>1 DEF Decoded
<1> QED
  BY <1>1, <1>3, <1>4, DecodedBack

-------------------------------------------------------------------------------
(* Whole and one by one, the agents of a fleet that loads are loaded again.  *)
SameAgents(out, file, ids) ==
    /\ DOMAIN out.agents = ids
    /\ \A a \in ids : Decodes(out.agents[a]) /\ Decoded(out.agents[a]) = Decoded(file.agents[a])

LEMMA BlocksOf ==
  ASSUME NEW file, Shaped(file), LoadsFleet(file), NEW a \in DOMAIN file.agents
  PROVE  file.agents[a].kind = "map" /\ BlockOk(file.agents[a]) /\ Decodes(file.agents[a])
<1>1. Decodes(file.agents[a])
  BY DEF LoadsFleet
<1>2. file.agents[a].kind = "map"
  BY <1>1 DEF Decodes
<1> QED
  BY <1>1, <1>2 DEF Shaped, FileOk

LEMMA MarshalledFields ==
  ASSUME NEW file, Shaped(file), NEW out, out = Marshalled(file)
  PROVE  /\ out.agents = [a \in DOMAIN file.agents |-> Encode(Decoded(file.agents[a]))]
         /\ out.shape = file.shape /\ out.name = file.name /\ out.type = file.type
         /\ out.default = file.default /\ out.rules = file.rules /\ out.deployment = file.deployment
<1>1. DOMAIN file = {"shape", "name", "agents", "routed", "type", "default", "rules", "deployment"}
  BY DEF Shaped
<1>2. PICK g : g = [a \in DOMAIN file.agents |-> Encode(Decoded(file.agents[a]))]
  OBVIOUS
<1>3. out = [file EXCEPT !.agents = g]
  BY <1>2, Zenon DEF Marshalled
<1>4. out.agents = g /\ \A x \in DOMAIN file : x # "agents" => out[x] = file[x]
  BY <1>1, <1>3
<1> QED
  BY <1>1, <1>2, <1>4

LEMMA MarshalledLoads ==
  ASSUME NEW file, Shaped(file), LoadsFleet(file), NEW out, out = Marshalled(file)
  PROVE  LoadsFleet(out) /\ SameAgents(out, file, DOMAIN file.agents)
<1>1. /\ out.agents = [a \in DOMAIN file.agents |-> Encode(Decoded(file.agents[a]))]
      /\ out.shape = file.shape /\ out.name = file.name /\ out.type = file.type
      /\ out.default = file.default /\ out.rules = file.rules /\ out.deployment = file.deployment
  BY MarshalledFields
<1>2. PICK ids : ids = DOMAIN file.agents
  OBVIOUS
<1>3. DOMAIN out.agents = ids /\ \A a \in ids : out.agents[a] = Encode(Decoded(file.agents[a]))
  BY <1>1, <1>2
<1>4. \A a \in ids : Decodes(out.agents[a]) /\ Decoded(out.agents[a]) = Decoded(file.agents[a])
  BY <1>2, <1>3, BlocksOf, MarshalledBack
<1>5. [a \in DOMAIN out.agents |-> [complete |-> Complete(Decoded(out.agents[a])),
                                    metadata |-> Decoded(out.agents[a]).metadata]]
        = [a \in DOMAIN file.agents |-> [complete |-> Complete(Decoded(file.agents[a])),
                                         metadata |-> Decoded(file.agents[a]).metadata]]
  BY <1>2, <1>3, <1>4
<1>6. FleetOf(out) = FleetOf(file)
  BY <1>1, <1>5, Zenon DEF FleetOf
<1>7. file.shape = "agents" /\ file.name # "" /\ Validate(FleetOf(file))
  BY Zenon DEF LoadsFleet
<1> QED
  BY <1>1, <1>2, <1>3, <1>4, <1>6, <1>7, Zenon DEF LoadsFleet, SameAgents

OnItsOwn(out, file, a) ==
    /\ out.agents = [b \in {a} |-> Encode(Decoded(file.agents[a]))]
    /\ out.shape = "agents" /\ out.name = file.name /\ out.type = "" /\ out.default = None /\ out.rules = <<>>
    /\ out.deployment.replicas = file.deployment.replicas /\ out.deployment.ports = file.deployment.ports
    /\ out.deployment.healthSettings = file.deployment.healthSettings
    /\ out.deployment.agentSpecific = file.deployment.agentSpecific \intersect {a}
    /\ out.deployment.scaling = file.deployment.scaling

LEMMA OneAgentFields ==
  ASSUME NEW file, Shaped(file), NEW a, NEW out, out = OneAgent(file, a)
  PROVE  OnItsOwn(out, file, a)
<1>1. PICK dep : dep = file.deployment
  OBVIOUS
<1>2. DOMAIN dep = {"replicas", "ports", "healthSettings", "agentSpecific", "scaling"}
  BY <1>1 DEF Shaped
<1>3. PICK own : own = dep.agentSpecific \intersect {a}
  OBVIOUS
<1>4. PICK new : new = DeploymentForAgent(dep, a)
  OBVIOUS
<1>5. new = [dep EXCEPT !.agentSpecific = own]
  BY <1>3, <1>4, Zenon DEF DeploymentForAgent
<1>6. new.agentSpecific = own /\ \A x \in DOMAIN dep : x # "agentSpecific" => new[x] = dep[x]
  BY <1>2, <1>5
<1>7. /\ new.replicas = dep.replicas /\ new.ports = dep.ports /\ new.healthSettings = dep.healthSettings
      /\ new.scaling = dep.scaling
  BY <1>2, <1>6
<1>8. PICK g : g = [b \in {a} |-> Encode(Decoded(file.agents[a]))]
  OBVIOUS
<1>11. PICK blank, empty : blank = "" /\ empty = <<>>
  OBVIOUS
<1>9. out = [shape |-> "agents", name |-> file.name, agents |-> g, routed |-> FALSE, type |-> blank, default |-> None,
             rules |-> empty, deployment |-> new]
  BY <1>1, <1>4, <1>8, <1>11, Zenon DEF OneAgent, Unrouted
<1>10. /\ out.agents = g /\ out.shape = "agents" /\ out.name = file.name /\ out.type = blank /\ out.default = None
       /\ out.rules = empty /\ out.deployment = new
  BY <1>9
<1> QED
  BY <1>1, <1>3, <1>6, <1>7, <1>8, <1>10, <1>11, Zenon DEF OnItsOwn

LEMMA OneAgentLoads ==
  ASSUME NEW file, Shaped(file), LoadsFleet(file), NEW a \in DOMAIN file.agents, NEW out, out = OneAgent(file, a)
  PROVE  LoadsFleet(out) /\ SameAgents(out, file, {a})
<1>0. OnItsOwn(out, file, a)
  BY OneAgentFields
<1>1. PICK e : e = Encode(Decoded(file.agents[a]))
  OBVIOUS
<1>2. Decoded(e) = Decoded(file.agents[a]) /\ Decodes(e)
  BY <1>1, BlocksOf, MarshalledBack
<1>3. DOMAIN out.agents = {a} /\ out.agents[a] = e
  <2>1. out.agents = [b \in {a} |-> Encode(Decoded(file.agents[a]))]
    BY <1>0, Zenon DEF OnItsOwn
  <2> QED
    BY <1>1, <2>1
<1>4. PICK c : c = FleetOf(out)
  OBVIOUS
<1>5. PICK f : f = FleetOf(file)
  OBVIOUS
<1>6. /\ c.agents = [b \in DOMAIN out.agents |-> [complete |-> Complete(Decoded(out.agents[b])),
                                                  metadata |-> Decoded(out.agents[b]).metadata]]
      /\ c.type = out.type /\ c.default = out.default /\ c.rules = out.rules /\ c.deployment = out.deployment
  BY <1>4 DEF FleetOf
<1>7. /\ f.agents = [b \in DOMAIN file.agents |-> [complete |-> Complete(Decoded(file.agents[b])),
                                                  metadata |-> Decoded(file.agents[b]).metadata]]
      /\ f.deployment = file.deployment
  BY <1>5 DEF FleetOf
<1>8. Validate(f)
  BY <1>5 DEF LoadsFleet
<1>9. c.agents[a].complete /\ DOMAIN c.agents = {a} /\ DOMAIN f.agents = DOMAIN file.agents
  <2>1. f.agents[a].complete
    BY <1>7, <1>8 DEF Validate
  <2> QED
    BY <1>2, <1>3, <1>6, <1>7, <2>1
<1>15. out.type = "" /\ out.default = None /\ out.rules = <<>>
  BY <1>0, Zenon DEF OnItsOwn
<1>10. c.type = "" /\ c.default = None /\ c.rules = <<>>
  BY <1>6, <1>15, Zenon
<1>11. ValidRouting(c)
  <2>1. DOMAIN c.rules = {}
    <3>1. \A r : r = <<>> => DOMAIN r = {}
      OBVIOUS
    <3> QED
      BY <1>10, <3>1, Zenon
  <2> QED
    BY <1>10, <2>1, Zenon DEF ValidRouting
<1>12. ValidDeployment(c)
  <2>1. /\ c.deployment.replicas = f.deployment.replicas /\ c.deployment.ports = f.deployment.ports
        /\ c.deployment.healthSettings = f.deployment.healthSettings
        /\ c.deployment.agentSpecific \subseteq {a} /\ c.deployment.scaling = f.deployment.scaling
    <3>1. /\ out.deployment.replicas = file.deployment.replicas /\ out.deployment.ports = file.deployment.ports
          /\ out.deployment.healthSettings = file.deployment.healthSettings
          /\ out.deployment.agentSpecific = file.deployment.agentSpecific \intersect {a}
          /\ out.deployment.scaling = file.deployment.scaling
      BY <1>0, Zenon DEF OnItsOwn
    <3> QED
      BY <1>6, <1>7, <3>1
  <2>2. ValidDeployment(f)
    BY <1>8 DEF Validate
  <2> QED
    BY <1>9, <2>1, <2>2 DEF ValidDeployment
<1>13. Validate(c)
  BY <1>9, <1>11, <1>12 DEF Validate
<1>14. out.shape = "agents" /\ out.name # ""
  <2>1. file.name # ""
    BY Zenon DEF LoadsFleet
  <2>2. out.shape = "agents" /\ out.name = file.name
    BY <1>0, Zenon DEF OnItsOwn
  <2> QED
    BY <2>1, <2>2, Zenon
<1> QED
  BY <1>2, <1>3, <1>4, <1>13, <1>14, Zenon DEF LoadsFleet, SameAgents

-------------------------------------------------------------------------------
(* What init writes passes the strict checks.                                *)
InitNames == {"name", "type", "model", "provider", "system_prompt", "temperature", "max_tokens", "tools", "database"}

LEMMA InitSpellings ==
  /\ \A k, l \in InitNames : NormalizeKey(k) = NormalizeKey(l) => k = l
  /\ InitNames \cap CamelCase = {}
  /\ \A k \in InitNames : /\ NormalizeKey(k) # "id" /\ NormalizeKey(k) # "maxiterations"
                          /\ NormalizeKey(k) \in KnownKeys
BY DEF NormalizeKey, InitNames, CamelCase, KnownKeys

NoText == ""

LEMMA InitAccepted == ValidateAccepts(InitFile, TRUE) /\ InitFile.agents[""].kind = "map"
<1>1. PICK listed : listed = [kind |-> "list", items |-> {[kind |-> "map", text |-> "calculator", enabled |-> TRUE],
                                                         [kind |-> "map", text |-> "web_search", enabled |-> FALSE]}]
  OBVIOUS
<1>2. PICK b : b = [kind |-> "map", fields |-> InitFields]
  OBVIOUS
<1>3. PICK g : g = [key \in {NoText} |-> b]
  OBVIOUS
<1>5. PICK file : file = InitFile
  OBVIOUS
<1>6. file = Unrouted("single", NoText, g, NoDeployment)
  BY <1>2, <1>3, <1>5, Zenon DEF InitFile, NoText
<1>7. file.shape = "single" /\ file.agents = g /\ file.routed = FALSE
  <2>1. \A fleet : Unrouted("single", NoText, fleet, NoDeployment)
                   = [shape |-> "single", name |-> NoText, agents |-> fleet, routed |-> FALSE, type |-> NoText,
                      default |-> None, rules |-> <<>>, deployment |-> NoDeployment]
    BY Zenon DEF Unrouted, NoText
  <2> QED
    BY <1>6, <2>1
<1>8. DOMAIN file.agents = {NoText} /\ file.agents[NoText] = b
  BY <1>3, <1>7
<1>9. b.kind = "map" /\ DOMAIN b.fields = InitNames
  BY <1>2 DEF InitFields, InitNames
<1>10. /\ b.fields["name"] = TextValue("basic-agent") /\ b.fields["type"] = TextValue("chat")
       /\ b.fields["model"] = TextValue("gpt") /\ b.fields["provider"] = TextValue("openai")
       /\ b.fields["system_prompt"] = TextValue("prompt") /\ b.fields["temperature"] = NumberValue(7)
       /\ b.fields["max_tokens"] = NumberValue(10000) /\ b.fields["tools"] = listed
  BY <1>1, <1>2 DEF InitFields
<1>11. \A k \in InitNames : Given(b, NormalizeKey(k)) /\ Value(b, NormalizeKey(k)) = b.fields[k]
  BY <1>9, InitSpellings, FieldOf
<1>12. /\ Given(b, "name") /\ Value(b, "name") = TextValue("basic-agent")
       /\ Given(b, "type") /\ Value(b, "type") = TextValue("chat")
       /\ Given(b, "model") /\ Value(b, "model") = TextValue("gpt")
       /\ Given(b, "provider") /\ Value(b, "provider") = TextValue("openai")
       /\ Given(b, "systemprompt") /\ Value(b, "systemprompt") = TextValue("prompt")
       /\ Given(b, "temperature") /\ Value(b, "temperature") = NumberValue(7)
       /\ Given(b, "maxtokens") /\ Value(b, "maxtokens") = NumberValue(10000)
       /\ Given(b, "tools") /\ Value(b, "tools") = listed
  BY <1>10, <1>11, Spellings DEF InitNames
<1>13. ~Given(b, "maxiterations")
  BY <1>9, InitSpellings DEF Given, Keys
<1>14. Parses(b)
  <2>1. Whole(NumberValue(10000)) /\ NumberValue(7).kind = "number"
    BY DEF Whole, NumberValue
  <2>2. ToolNames(listed)
    <3>1. listed.kind = "list" /\ \A t \in listed.items : t.kind = "map" /\ t.text \in {"calculator", "web_search"}
      BY <1>1
    <3>2. "calculator" # "" /\ "web_search" # ""
      BY Zenon
    <3> QED
      BY <3>1, <3>2, Zenon DEF ToolNames
  <2> QED
    BY <1>12, <1>13, <2>1, <2>2 DEF Parses
<1>15. LoadsAgents(file)
  BY <1>7, <1>8, <1>9, <1>14 DEF LoadsAgents
<1>16. PICK c : c = AgentOf(file, NoText)
  OBVIOUS
<1>17. \A text : TextValue(text).kind = "text" /\ TextValue(text).text = text
  BY DEF TextValue
<1>18. /\ Printed(b, "name") = "basic-agent" /\ Printed(b, "type") = "chat" /\ Printed(b, "model") = "gpt"
       /\ Printed(b, "provider") = "openai" /\ Printed(b, "systemprompt") = "prompt"
  <2>1. ASSUME NEW name, NEW text, Given(b, name), Value(b, name) = TextValue(text)
        PROVE  Printed(b, name) = text
    <3>1. Value(b, name).kind # "null" /\ Value(b, name).text = text
      BY <1>17, <2>1
    <3> QED
      BY <2>1, <3>1, Zenon DEF Printed
  <2> QED
    BY <1>12, <2>1
<1>19. /\ c.name = TextOr(Printed(b, "name"), NoText) /\ c.type = TextOr(Printed(b, "type"), "chat")
       /\ c.model = Printed(b, "model") /\ c.provider = Printed(b, "provider") /\ c.prompt = Printed(b, "systemprompt")
       /\ c.temperature = AmountOr(Amount(b, "temperature"), 7)
       /\ c.tokens = AmountOr(Amount(b, "maxtokens") \div 10, 1000)
       /\ c.iterations = AmountOr(Amount(b, "maxiterations") \div 10, 10)
       /\ c.tools = IF Given(b, "tools") THEN EnabledTools(Value(b, "tools")) ELSE {}
  BY <1>8, <1>16 DEF AgentOf, ToAgentConfig
<1>20. c.name = "basic-agent" /\ c.type = "chat" /\ c.model = "gpt" /\ c.provider = "openai" /\ c.prompt = "prompt"
  <2>1. \A text, default : text # "" => TextOr(text, default) = text
    BY Zenon DEF TextOr
  <2>2. "basic-agent" # "" /\ "chat" # ""
    BY Zenon
  <2>3. TextOr("basic-agent", NoText) = "basic-agent" /\ TextOr("chat", "chat") = "chat"
    BY <2>1, <2>2, Zenon
  <2> QED
    BY <1>18, <1>19, <2>3
<1>21. c.temperature = 7 /\ c.tokens = 1000 /\ c.iterations = 10
  BY <1>12, <1>13, <1>19 DEF Amount, AmountOr, NumberValue
<1>22. c.tools \subseteq {"calculator", "web_search"}
  <2>1. \A t \in listed.items : t.text \in {"calculator", "web_search"}
    BY <1>1
  <2> QED
    BY <1>12, <1>19, <2>1 DEF EnabledTools
<1>23. Complete(c) /\ c.prompt # ""
  BY <1>20, Zenon DEF Complete
<1>24. SoundAgent(c)
  BY <1>20, <1>21, <1>23 DEF SoundAgent, ValidAgent, KnownTypes
<1>25. ~WarnsOf(c)
  <2>1. c.provider \in KnownProviders /\ c.tools \subseteq BuiltinTools
    BY <1>20, <1>22 DEF KnownProviders, BuiltinTools
  <2> QED
    BY <1>23, <2>1, Zenon DEF WarnsOf
<1>26. UnknownKeys(b) = {}
  BY <1>9, InitSpellings DEF UnknownKeys
<1>27. RoutesExist(file)
  BY <1>7, Zenon DEF RoutesExist
<1>28. ValidateAccepts(file, TRUE)
  BY <1>7, <1>8, <1>15, <1>16, <1>24, <1>25, <1>26, <1>27, Zenon DEF ValidateAccepts
<1> QED
  BY <1>5, <1>8, <1>9, <1>28, Zenon DEF NoText

-------------------------------------------------------------------------------
(* The fleets of the templates.                                              *)
IsTemplate(file, c, n, ranks, default) ==
    /\ DOMAIN file = {"shape", "name", "agents", "routed", "type", "default", "rules", "deployment"}
    /\ file.shape = "agents" /\ file.name = "example-multi-agent" /\ file.routed = TRUE
    /\ file.type = c.routing /\ file.default = AgentIds[default]
    /\ DOMAIN file.agents = {AgentIds[i] : i \in 1..n}
    /\ \A i \in 1..n : file.agents[AgentIds[i]] = Encode(TemplateAgent(c.template, i))
    /\ Len(file.rules) = n /\ DOMAIN file.rules = 1..n
    /\ \A i \in 1..n : LET r == file.rules[i]
                       IN  /\ r.id = i /\ r.pattern = PatternFor(c.routing, AgentIds[ranks[i]]) /\ r.match = NoText
                           /\ r.agent = AgentIds[ranks[i]] /\ r.priority = 100 - i /\ r.method = "POST"
                           /\ r.conditions = <<>>
    /\ DOMAIN file.deployment = {"replicas", "ports", "healthSettings", "agentSpecific", "scaling"}
    /\ file.deployment.replicas = 1 /\ file.deployment.ports = <<DefaultPort>>
    /\ file.deployment.healthSettings = <<8080, 30, 10, 5, 1, 3>>
    /\ file.deployment.agentSpecific = {} /\ file.deployment.scaling = <<>>

FleetCommand(c) == c.op = "multi init" /\ ValidCommand(c)

LEMMA FleetCommands ==
  ASSUME NEW c, FleetCommand(c)
  PROVE  /\ c.template \in {"basic", "microservices", "rag", "workflow"}
         /\ c.routing \in {"path", "host", "header", "query"}
         /\ AgentCount(c) \in Nat \ {0} /\ 1 .. AgentCount(c) \subseteq DOMAIN AgentIds
         /\ c.template # "basic" => AgentCount(c) <= Len(TemplateTypes(c.template))
<1>1. /\ c.template \in {"basic", "microservices", "rag", "workflow"} /\ c.count \in Nat \ {0}
      /\ c.routing \in {"path", "host", "header", "query"} /\ AgentCount(c) <= Len(AgentIds)
  BY DEF FleetCommand, ValidCommand, WithDocker
<1>2. /\ Len(TemplateTypes("basic")) = 3 /\ Len(TemplateTypes("microservices")) = 5
      /\ Len(TemplateTypes("rag")) = 3 /\ Len(TemplateTypes("workflow")) = 5
  BY DEF TemplateTypes
<1>3. Len(TemplateTypes(c.template)) \in Nat \ {0}
  <2>1. PICK lens : lens = [t \in {"basic", "microservices", "rag", "workflow"} |-> Len(TemplateTypes(t))]
    OBVIOUS
  <2>2. \A t \in {"basic", "microservices", "rag", "workflow"} : lens[t] = Len(TemplateTypes(t))
    BY <2>1, Zenon
  <2>3. lens["basic"] = 3 /\ lens["microservices"] = 5 /\ lens["rag"] = 3 /\ lens["workflow"] = 5
    BY <1>2, <2>2, Zenon
  <2>4. lens[c.template] \in Nat \ {0}
    BY <1>1, <2>3
  <2> QED
    BY <1>1, <2>2, <2>4, Zenon
<1>4. AgentCount(c) \in Nat \ {0} /\ (c.template # "basic" => AgentCount(c) <= Len(TemplateTypes(c.template)))
  <2>1. PICK most : most = Len(TemplateTypes(c.template))
    OBVIOUS
  <2>2. AgentCount(c) = IF c.template = "basic" \/ c.count <= most THEN c.count ELSE most
    BY <2>1, Zenon DEF AgentCount
  <2> QED
    BY <1>1, <1>3, <2>1, <2>2
<1>5. 1 .. AgentCount(c) \subseteq DOMAIN AgentIds
  BY <1>1, <1>4, IdsAssumption
<1> QED
  BY <1>1, <1>4, <1>5

LEMMA TemplateFields ==
  ASSUME NEW c, FleetCommand(c), NEW n, n = AgentCount(c), NEW ranks \in Orders(n), NEW default \in 1 .. n,
         NEW file, file = TemplateFleet(c, ranks, default)
  PROVE  IsTemplate(file, c, n, ranks, default)
<1>1. n \in Nat \ {0} /\ 1 .. n \subseteq DOMAIN AgentIds
  BY FleetCommands
<1>2. PICK g : g = [a \in {AgentIds[i] : i \in 1..n} |->
                      Encode(TemplateAgent(c.template, CHOOSE i \in 1..n : AgentIds[i] = a))]
  OBVIOUS
<1>3. PICK rules : rules = [i \in 1..n |-> TemplateRule(c, i, AgentIds[ranks[i]])]
  OBVIOUS
<1>4. PICK dep : dep = TemplateDeployment
  OBVIOUS
<1>7. file = [shape |-> "agents", name |-> "example-multi-agent", routed |-> TRUE, type |-> c.routing,
              agents |-> g, default |-> AgentIds[default], rules |-> rules, deployment |-> dep]
  BY <1>2, <1>3, <1>4 DEF TemplateFleet
<1>8. /\ DOMAIN file = {"shape", "name", "agents", "routed", "type", "default", "rules", "deployment"}
      /\ file.shape = "agents" /\ file.name = "example-multi-agent" /\ file.routed = TRUE
      /\ file.type = c.routing /\ file.agents = g /\ file.default = AgentIds[default]
      /\ file.rules = rules /\ file.deployment = dep
  BY <1>7
<1>9. DOMAIN g = {AgentIds[i] : i \in 1..n} /\ \A i \in 1..n : g[AgentIds[i]] = Encode(TemplateAgent(c.template, i))
  <2>1. ASSUME NEW i \in 1..n
        PROVE  (CHOOSE j \in 1..n : AgentIds[j] = AgentIds[i]) = i
    <3>1. \A j \in 1..n : AgentIds[j] = AgentIds[i] => j = i
      BY <1>1, IdsAssumption
    <3> QED
      BY <3>1
  <2> QED
    BY <1>2, <2>1
<1>10. /\ Len(rules) = n /\ DOMAIN rules = 1..n
       /\ \A i \in 1..n : LET r == rules[i]
                          IN  /\ r.id = i /\ r.pattern = PatternFor(c.routing, AgentIds[ranks[i]]) /\ r.match = NoText
                              /\ r.agent = AgentIds[ranks[i]] /\ r.priority = 100 - i /\ r.method = "POST"
                              /\ r.conditions = <<>>
  <2>1. \A i, a : LET r == TemplateRule(c, i, a)
                  IN  /\ r.id = i /\ r.pattern = PatternFor(c.routing, a) /\ r.match = NoText /\ r.agent = a
                      /\ r.priority = 100 - i /\ r.method = "POST" /\ r.conditions = <<>>
    BY Zenon DEF TemplateRule, NoText
  <2> QED
    BY <1>1, <1>3, <2>1
<1>11. /\ DOMAIN dep = {"replicas", "ports", "healthSettings", "agentSpecific", "scaling"}
       /\ dep.replicas = 1 /\ dep.ports = <<DefaultPort>> /\ dep.healthSettings = <<8080, 30, 10, 5, 1, 3>>
       /\ dep.agentSpecific = {}
       /\ dep.scaling = <<>>
  BY <1>4 DEF TemplateDeployment, NoDeployment
<1> QED
  BY <1>8, <1>9, <1>10, <1>11 DEF IsTemplate

IsTemplateAgent(x, c, i) ==
    /\ x.id = AgentIds[i] /\ x.name = "name" /\ x.type \in KnownTypes /\ x.model = "gpt" /\ x.provider = "openai"
    /\ x.prompt = "prompt" /\ x.temperature = 7 /\ x.tokens = 1000 /\ x.iterations = 10 /\ x.metadata = <<>>
    /\ c.template = "basic" => x.tools \subseteq BuiltinTools

LEMMA TemplateAgents ==
  ASSUME NEW c, FleetCommand(c), NEW i \in 1 .. AgentCount(c), NEW d, d = TemplateAgent(c.template, i)
  PROVE  IsTemplateAgent(d, c, i)
<1>1. /\ c.template \in {"basic", "microservices", "rag", "workflow"}
      /\ i \in Nat \ {0}
  BY FleetCommands
<1>2. PICK types : types = TemplateTypes(c.template)
  OBVIOUS
<1>3. PICK tools : tools = TemplateTools(c.template, i)
  OBVIOUS
<1>4. /\ d.id = AgentIds[i] /\ d.name = "name" /\ d.type = types[((i - 1) % Len(types)) + 1] /\ d.model = "gpt"
      /\ d.provider = "openai" /\ d.prompt = "prompt" /\ d.temperature = 7 /\ d.tokens = 1000 /\ d.iterations = 10
      /\ d.metadata = <<>> /\ d.tools = tools
  BY <1>2, <1>3 DEF TemplateAgent
<1>5. Len(types) \in Nat \ {0} /\ \A k \in 1 .. Len(types) : types[k] \in KnownTypes
  <2>1. CASE c.template = "basic"
    <3>1. types = <<"chat", "react", "tool">>
      BY <1>2, <2>1 DEF TemplateTypes
    <3> QED
      BY <3>1 DEF KnownTypes
  <2>2. CASE c.template = "microservices"
    <3>1. types = <<"chat", "react", "tool", "chat", "react">>
      BY <1>2, <2>2 DEF TemplateTypes
    <3> QED
      BY <3>1 DEF KnownTypes
  <2>3. CASE c.template = "rag"
    <3>1. types = <<"react", "react", "react">>
      BY <1>2, <2>3 DEF TemplateTypes
    <3> QED
      BY <3>1 DEF KnownTypes
  <2>4. CASE c.template = "workflow"
    <3>1. types = <<"tool", "react", "react", "tool", "chat">>
      BY <1>2, <2>4 DEF TemplateTypes
    <3> QED
      BY <3>1 DEF KnownTypes
  <2> QED
    BY <1>1, <2>1, <2>2, <2>3, <2>4
<1>6. ((i - 1) % Len(types)) + 1 \in 1 .. Len(types)
  <2>1. PICK l \in Nat \ {0} : l = Len(types)
    BY <1>5
  <2>2. ((i - 1) % l) + 1 \in 1 .. l
    BY <1>1
  <2> QED
    BY <2>1, <2>2
<1>7. c.template = "basic" => tools \subseteq BuiltinTools
  BY <1>3 DEF TemplateTools, BuiltinTools
<1> QED
  BY <1>4, <1>5, <1>6, <1>7 DEF IsTemplateAgent

LEMMA TemplateBlocks ==
  ASSUME NEW c, FleetCommand(c), NEW i \in 1 .. AgentCount(c), NEW e, e = Encode(TemplateAgent(c.template, i))
  PROVE  Decodes(e) /\ e.kind = "map" /\ BlockOk(e) /\ IsTemplateAgent(Decoded(e), c, i)
<1>1. PICK d : d = TemplateAgent(c.template, i)
  OBVIOUS
<1>2. IsTemplateAgent(d, c, i) /\ e = Encode(d)
  BY <1>1, TemplateAgents
<1>3. d.tokens = 1000 /\ d.iterations = 10 /\ d.temperature = 7
  BY <1>2 DEF IsTemplateAgent
<1>4. /\ Decoded(e) = [id |-> d.id, name |-> d.name, type |-> d.type, model |-> d.model, provider |-> d.provider,
                       prompt |-> d.prompt, temperature |-> d.temperature, tokens |-> d.tokens,
                       iterations |-> d.iterations, tools |-> d.tools, metadata |-> d.metadata,
                       interrupts |-> d.interrupts]
      /\ Decodes(e) /\ e.kind = "map"
  BY <1>2, <1>3, DecodedBack
<1>5. IsTemplateAgent(Decoded(e), c, i)
  <2>1. PICK x : x = Decoded(e)
    OBVIOUS
  <2>2. /\ x.id = d.id /\ x.name = d.name /\ x.type = d.type /\ x.model = d.model /\ x.provider = d.provider
        /\ x.prompt = d.prompt /\ x.temperature = d.temperature /\ x.tokens = d.tokens
        /\ x.iterations = d.iterations /\ x.tools = d.tools /\ x.metadata = d.metadata
    BY <1>4, <2>1
  <2>3. IsTemplateAgent(x, c, i)
    BY <1>2, <2>2 DEF IsTemplateAgent
  <2> QED
    BY <2>1, <2>3
<1>6. BlockOk(e)
  <2>1. e.fields = FieldsOf(d) /\ DOMAIN e.fields = Settings
    BY <1>2, EncodedShape
  <2>2. \A k \in Settings : FieldsOf(d)[k].kind = "number" => FieldsOf(d)[k].tenths \in Int
    <3>1. /\ FieldsOf(d)["temperature"] = NumberValue(7) /\ FieldsOf(d)["max_tokens"] = NumberValue(10000)
          /\ FieldsOf(d)["max_iterations"] = NumberValue(100)
      BY <1>3 DEF FieldsOf
    <3>2. NumberValue(7).tenths \in Int /\ NumberValue(10000).tenths \in Int /\ NumberValue(100).tenths \in Int
      BY DEF NumberValue
    <3>3. \A k \in Settings \ {"temperature", "max_tokens", "max_iterations"} : FieldsOf(d)[k].kind # "number"
      BY DEF FieldsOf, Settings, TextValue, ListValue
    <3> QED
      BY <3>1, <3>2, <3>3
  <2> QED
    BY <2>1, <2>2, Spellings DEF BlockOk
<1> QED
  BY <1>4, <1>5, <1>6

LEMMA IdsAreNames == \A i \in DOMAIN AgentIds : AgentIds[i] # NoText /\ AgentIds[i] # None
BY IdsAssumption, Zenon DEF IsId, NoText

LEMMA ComesFrom ==
  ASSUME NEW c, FleetCommand(c), NEW file, file \in TemplateFleets(c)
  PROVE  \E ranks \in Orders(AgentCount(c)), default \in 1 .. AgentCount(c) :
            IsTemplate(file, c, AgentCount(c), ranks, default)
<1>1. PICK ranks \in Orders(AgentCount(c)), default \in 1 .. AgentCount(c) : file = TemplateFleet(c, ranks, default)
  BY DEF TemplateFleets
<1> QED
  BY <1>1, TemplateFields

LEMMA TemplateServed ==
  ASSUME NEW c, FleetCommand(c), NEW n, n = AgentCount(c), NEW ranks \in Orders(n), NEW default \in 1 .. n,
         NEW file, IsTemplate(file, c, n, ranks, default), NEW f, f = FleetOf(file)
  PROVE  /\ \A a \in DOMAIN file.agents : MayServe(f, a) /\ f.agents[a].complete
         /\ DOMAIN f.agents = DOMAIN file.agents
<1>1. \A i \in 1..n : AgentIds[i] \in DOMAIN file.agents
  BY DEF IsTemplate
<1>2. /\ DOMAIN f.agents = DOMAIN file.agents
      /\ \A a \in DOMAIN file.agents : f.agents[a] = [complete |-> Complete(Decoded(file.agents[a])),
                                                      metadata |-> Decoded(file.agents[a]).metadata]
  BY DEF FleetOf
<1>3. ASSUME NEW a \in DOMAIN file.agents
      PROVE  f.agents[a].complete /\ f.agents[a].metadata = <<>>
  <2>1. PICK i \in 1..n : a = AgentIds[i]
    BY DEF IsTemplate
  <2>2. PICK x : x = Decoded(file.agents[a])
    OBVIOUS
  <2>3. IsTemplateAgent(x, c, i)
    BY <2>1, <2>2, TemplateBlocks DEF IsTemplate
  <2>4. x.name = "name" /\ x.type \in {"chat", "react", "tool"} /\ x.model = "gpt" /\ x.provider = "openai"
        /\ x.metadata = <<>>
    BY <2>3 DEF IsTemplateAgent, KnownTypes
  <2>5. Complete(x)
    <3>1. "name" # "" /\ "chat" # "" /\ "react" # "" /\ "tool" # "" /\ "gpt" # "" /\ "openai" # ""
      BY Zenon
    <3> QED
      BY <2>4, <3>1, Zenon DEF Complete
  <2>6. f.agents[a].complete = Complete(x) /\ f.agents[a].metadata = x.metadata
    <3>1. PICK whole : whole = Complete(x)
      OBVIOUS
    <3>2. f.agents[a] = [complete |-> whole, metadata |-> x.metadata]
      BY <1>2, <2>2, <3>1, Zenon
    <3>3. f.agents[a].complete = whole /\ f.agents[a].metadata = x.metadata
      BY <3>2
    <3> QED
      BY <3>1, <3>3, Zenon
  <2> QED
    BY <2>4, <2>5, <2>6
<1>4. ASSUME NEW a \in DOMAIN file.agents
      PROVE  MayServe(f, a)
  <2>1. PICK m : m = f.agents[a].metadata
    OBVIOUS
  <2>2. DOMAIN m = {}
    BY <1>3, <2>1
  <2>3. ~Known(m, "disabled") /\ ~Known(m, "enabled")
    BY <2>2 DEF Known
  <2> QED
    BY <1>2, <2>1, <2>3 DEF MayServe, IsAgentEnabled
<1> QED
  BY <1>2, <1>3, <1>4

LEMMA PatternsGiven ==
  ASSUME NEW routing \in {"path", "host", "header", "query"}, NEW a, NEW b
  PROVE  PatternFor(routing, a) # <<>> /\ (PatternFor(routing, a) = PatternFor(routing, b) => a = b)
<1>1. PatternFor("path", a) # <<>> /\ (PatternFor("path", a) = PatternFor("path", b) => a = b)
  BY DEF PatternFor
<1>2. PatternFor("host", a) # <<>> /\ (PatternFor("host", a) = PatternFor("host", b) => a = b)
  BY DEF PatternFor
<1>3. PatternFor("header", a) # <<>> /\ (PatternFor("header", a) = PatternFor("header", b) => a = b)
  BY DEF PatternFor
<1>4. PatternFor("query", a) # <<>> /\ (PatternFor("query", a) = PatternFor("query", b) => a = b)
  BY DEF PatternFor
<1> QED
  BY <1>1, <1>2, <1>3, <1>4

LEMMA TemplateValid ==
  ASSUME NEW c, FleetCommand(c), NEW n, n = AgentCount(c), NEW ranks \in Orders(n), NEW default \in 1 .. n,
         NEW file, IsTemplate(file, c, n, ranks, default), NEW f, f = FleetOf(file)
  PROVE  Validate(f)
<1>1. n \in Nat \ {0} /\ 1 .. n \subseteq DOMAIN AgentIds /\ c.routing \in {"path", "host", "header", "query"}
  BY FleetCommands
<1>2. /\ \A a \in DOMAIN file.agents : MayServe(f, a) /\ f.agents[a].complete
      /\ DOMAIN f.agents = DOMAIN file.agents
  BY TemplateServed
<1>3. f.type = file.type /\ f.default = file.default /\ f.rules = file.rules /\ f.deployment = file.deployment
  BY DEF FleetOf
<1>4. \A i \in 1..n : AgentIds[i] \in DOMAIN file.agents
  BY DEF IsTemplate
<1>5. \A i \in 1..n : ranks[i] \in 1..n
  BY DEF Orders
<1>6. ASSUME NEW i \in DOMAIN f.rules, NEW r, r = f.rules[i]
      PROVE  /\ MayServe(f, r.agent) /\ r.pattern # <<>> /\ ValidMatchMode(r.match, r.pattern)
             /\ r.id = i /\ i \in 1..n /\ r.conditions = <<>>
  <2>1. /\ i \in 1..n /\ r.id = i /\ r.pattern = PatternFor(c.routing, AgentIds[ranks[i]]) /\ r.match = NoText
        /\ r.agent = AgentIds[ranks[i]] /\ r.conditions = <<>>
    BY <1>3, <1>6 DEF IsTemplate
  <2>2. MayServe(f, r.agent)
    BY <1>2, <1>4, <1>5, <2>1
  <2>3. r.pattern # <<>>
    BY <1>1, <2>1, PatternsGiven
  <2>4. ValidMatchMode(r.match, r.pattern)
    <3>1. MatchMode(r.match) = "exact"
      BY <2>1, Zenon DEF MatchMode, NoText
    <3> QED
      BY <3>1 DEF ValidMatchMode
  <2> QED
    BY <2>1, <2>2, <2>3, <2>4
<1>7. ValidRouting(f)
  <2>1. f.type \in {"", "path", "host", "header", "query"}
    <3>1. f.type \in {"path", "host", "header", "query"}
      BY <1>1, <1>3 DEF IsTemplate
    <3> QED
      BY <3>1, Zenon
  <2>2. MayServe(f, f.default)
    BY <1>2, <1>3, <1>4 DEF IsTemplate
  <2>3. ASSUME NEW i \in DOMAIN f.rules
        PROVE  /\ \A j \in 1..(i - 1) : f.rules[j].id # f.rules[i].id
               /\ \A cond \in ToSet(f.rules[i].conditions) : ValidCondition(cond)
    <3>1. PICK r : r = f.rules[i]
      OBVIOUS
    <3>2. r.id = i /\ i \in 1..n /\ r.conditions = <<>>
      BY <1>6, <3>1
    <3>3. \A j \in 1..(i - 1) : j \in DOMAIN f.rules /\ j # i
      BY <1>1, <1>3, <3>2 DEF IsTemplate
    <3>4. \A j \in DOMAIN f.rules : f.rules[j].id = j
      BY <1>6
    <3>5. ToSet(r.conditions) = {}
      BY <3>2 DEF ToSet
    <3> QED
      BY <3>1, <3>2, <3>3, <3>4, <3>5
  <2> QED
    BY <1>6, <2>1, <2>2, <2>3, Zenon DEF ValidRouting
<1>8. ValidDeployment(f)
  <2>1. PICK d : d = f.deployment
    OBVIOUS
  <2>2. /\ d.replicas = 1 /\ d.ports = <<DefaultPort>> /\ d.healthSettings = <<8080, 30, 10, 5, 1, 3>>
        /\ d.agentSpecific = {} /\ d.scaling = <<>>
    BY <1>3, <2>1 DEF IsTemplate
  <2>3. \A m \in ToSet(d.healthSettings) : m >= 0
    BY <2>2 DEF ToSet
  <2>4. \A i, j \in DOMAIN d.ports : i = j
    BY <2>2
  <2> QED
    BY <2>1, <2>2, <2>3, <2>4 DEF ValidDeployment
<1>9. DOMAIN f.agents # {}
  BY <1>1, <1>2, <1>4
<1> QED
  BY <1>2, <1>7, <1>8, <1>9 DEF Validate

LEMMA TemplateAccepted ==
  ASSUME NEW c, FleetCommand(c), NEW file, file \in TemplateFleets(c)
  PROVE  Shaped(file) /\ FleetAccepts(file, c.template = "basic")
<1>1. PICK n : n = AgentCount(c)
  OBVIOUS
<1>2. PICK ranks \in Orders(n), default \in 1..n : IsTemplate(file, c, n, ranks, default)
  BY <1>1, ComesFrom
<1>3. n \in Nat \ {0} /\ 1 .. n \subseteq DOMAIN AgentIds /\ c.routing \in {"path", "host", "header", "query"}
  BY <1>1, FleetCommands
<1>4. ASSUME NEW a \in DOMAIN file.agents, NEW e, e = file.agents[a]
      PROVE  /\ Decodes(e) /\ e.kind = "map" /\ BlockOk(e)
             /\ \E i \in 1..n : a = AgentIds[i] /\ IsTemplateAgent(Decoded(e), c, i)
  <2>1. PICK i \in 1..n : a = AgentIds[i]
    BY <1>2 DEF IsTemplate
  <2>2. e = Encode(TemplateAgent(c.template, i))
    BY <1>2, <1>4, <2>1 DEF IsTemplate
  <2> QED
    BY <1>1, <2>1, <2>2, TemplateBlocks
<1>5. PICK f : f = FleetOf(file)
  OBVIOUS
<1>6. LoadsFleet(file)
  <2>1. Validate(f)
    BY <1>1, <1>2, <1>5, TemplateValid
  <2>2. file.shape = "agents" /\ file.name = "example-multi-agent"
    BY <1>2 DEF IsTemplate
  <2>3. "example-multi-agent" # ""
    BY Zenon
  <2> QED
    BY <1>4, <1>5, <2>1, <2>2, <2>3, Zenon DEF LoadsFleet
<1>7. Shaped(file)
  <2>1. IsFiniteSet(DOMAIN file.agents)
    <3>1. DOMAIN file.agents = {AgentIds[i] : i \in 1..n}
      BY <1>2 DEF IsTemplate
    <3>2. IsFiniteSet(1..n)
      BY <1>3, FS_Interval
    <3>3. PICK ids : ids = DOMAIN file.agents
      OBVIOUS
    <3>4. [i \in 1..n |-> AgentIds[i]] \in Surjection(1..n, ids)
      BY <3>1, <3>3 DEF Surjection
    <3> QED
      BY <3>2, <3>3, <3>4, FS_Surjection
  <2>2. file.default # NoText /\ file.routed = TRUE
    <3>1. file.default = AgentIds[default] /\ file.routed = TRUE
      BY <1>2 DEF IsTemplate
    <3> QED
      BY <1>3, <3>1, IdsAreNames
  <2>3. Len(file.rules) \in Nat /\ DOMAIN file.rules = 1..Len(file.rules)
    BY <1>2, <1>3 DEF IsTemplate
  <2>4. FileOk(file)
    BY <1>4, <2>2, <2>3, Zenon DEF FileOk, NoText
  <2>5. /\ DOMAIN file = {"shape", "name", "agents", "routed", "type", "default", "rules", "deployment"}
        /\ DOMAIN file.deployment = {"replicas", "ports", "healthSettings", "agentSpecific", "scaling"}
    BY <1>2 DEF IsTemplate
  <2> QED
    BY <2>1, <2>4, <2>5, Zenon DEF Shaped
<1>8. SchemasHold(file)
  <2>1. ASSUME NEW a \in DOMAIN file.agents, NEW x, x = Decoded(file.agents[a])
        PROVE  SoundAgent(Filled(x))
    <3>1. PICK i \in 1..n : IsTemplateAgent(x, c, i)
      BY <1>4, <2>1
    <3>2. /\ x.name = "name" /\ x.type \in KnownTypes /\ x.model = "gpt" /\ x.provider = "openai"
          /\ x.temperature = 7 /\ x.tokens = 1000 /\ x.iterations = 10
      BY <3>1 DEF IsTemplateAgent
    <3>3. PICK y : y = Filled(x)
      OBVIOUS
    <3>4. /\ DOMAIN x = {"id", "name", "type", "model", "provider", "prompt", "temperature", "tokens", "iterations",
                         "tools", "metadata", "interrupts"}
      BY <2>1 DEF Decoded
    <3>5. /\ y.name = "name" /\ y.type = x.type /\ y.model = "gpt" /\ y.provider = "openai"
          /\ y.temperature = 7 /\ y.tokens = 1000 /\ y.iterations = 10
      <4>1. AmountOr(1000, 1000) = 1000 /\ AmountOr(10, 10) = 10
        BY DEF AmountOr
      <4>2. PICK t, k : t = AmountOr(x.tokens, 1000) /\ k = AmountOr(x.iterations, 10)
        OBVIOUS
      <4>3. t = 1000 /\ k = 10
        BY <3>2, <4>1, <4>2
      <4>4. y = [x EXCEPT !.tokens = t, !.iterations = k]
        BY <3>3, <4>2, ZenonT(60) DEF Filled
      <4> QED
        BY <3>2, <3>4, <4>3, <4>4
    <3>6. Complete(y)
      <4>1. "name" # "" /\ "chat" # "" /\ "react" # "" /\ "tool" # "" /\ "gpt" # "" /\ "openai" # ""
        BY Zenon
      <4>2. y.type \in {"chat", "react", "tool"}
        BY <3>2, <3>5 DEF KnownTypes
      <4> QED
        BY <3>5, <4>1, <4>2, Zenon DEF Complete
    <3>7. SoundAgent(y)
      BY <3>2, <3>5, <3>6 DEF SoundAgent, ValidAgent
    <3> QED
      BY <3>3, <3>7
  <2> QED
    BY <2>1 DEF SchemasHold
<1>9. ASSUME c.template = "basic"
      PROVE  StrictHolds(file)
  <2>1. ASSUME NEW a \in DOMAIN file.agents, NEW x, x = Decoded(file.agents[a])
        PROVE  x.prompt # NoText /\ x.id = a /\ x.provider \in KnownProviders /\ x.tools \subseteq BuiltinTools
    <3>1. PICK i \in 1..n : a = AgentIds[i] /\ IsTemplateAgent(x, c, i)
      BY <1>4, <2>1
    <3>2. x.prompt = "prompt" /\ x.id = a /\ x.provider = "openai" /\ x.tools \subseteq BuiltinTools
      BY <1>9, <3>1 DEF IsTemplateAgent
    <3>3. "prompt" # NoText
      BY Zenon DEF NoText
    <3> QED
      BY <3>2, <3>3 DEF KnownProviders
  <2>2. file.default # None
    <3>1. file.default = AgentIds[default]
      BY <1>2 DEF IsTemplate
    <3> QED
      BY <1>3, <3>1, IdsAreNames
  <2>3. ASSUME NEW i \in 1..n, NEW j \in 1..n, file.rules[i].pattern = file.rules[j].pattern
        PROVE  i = j
    <3>1. /\ file.rules[i].pattern = PatternFor(c.routing, AgentIds[ranks[i]])
          /\ file.rules[j].pattern = PatternFor(c.routing, AgentIds[ranks[j]])
      BY <1>2 DEF IsTemplate
    <3>2. AgentIds[ranks[i]] = AgentIds[ranks[j]]
      BY <1>3, <2>3, <3>1, PatternsGiven
    <3>3. ranks[i] \in DOMAIN AgentIds /\ ranks[j] \in DOMAIN AgentIds
      BY <1>3 DEF Orders
    <3>4. ranks[i] = ranks[j]
      BY <3>2, <3>3, IdsAssumption
    <3> QED
      BY <3>4 DEF Orders
  <2>4. ~PatternsClash(file.rules)
    <3>1. DOMAIN file.rules = 1..n
      BY <1>2 DEF IsTemplate
    <3>2. \A i, j \in 1..n : i < j => i # j
      BY <1>3
    <3> QED
      BY <2>3, <3>1, <3>2 DEF PatternsClash
  <2>5. ASSUME NEW a \in DOMAIN file.agents
        PROVE  \E i \in DOMAIN file.rules : file.rules[i].agent = a
    <3>1. PICK k \in 1..n : a = AgentIds[k]
      BY <1>2 DEF IsTemplate
    <3>2. PICK i \in 1..n : ranks[i] = k
      BY <1>3, OrderReaches
    <3>3. i \in DOMAIN file.rules /\ file.rules[i].agent = AgentIds[ranks[i]]
      BY <1>2 DEF IsTemplate
    <3> QED
      BY <3>1, <3>2, <3>3
  <2> QED
    BY <2>1, <2>2, <2>4, <2>5, Zenon DEF StrictHolds, NoText
<1> QED
  BY <1>6, <1>7, <1>8, <1>9, Zenon DEF FleetAccepts

Single(e) == Unrouted("single", "", [key \in {""} |-> e], NoDeployment)

LEMMA SingleFields ==
  ASSUME NEW e, NEW file, file = Single(e)
  PROVE  /\ file.shape = "single" /\ file.routed = FALSE /\ DOMAIN file.agents = {NoText}
         /\ file.agents[NoText] = e
<1>1. PICK g : g = [key \in {NoText} |-> e]
  OBVIOUS
<1>2. \A blank, none : Unrouted("single", blank, g, none)
        = [shape |-> "single", name |-> blank, agents |-> g, routed |-> FALSE, type |-> NoText,
           default |-> None, rules |-> <<>>, deployment |-> none]
  BY Zenon DEF Unrouted, NoText
<1>3. file = Unrouted("single", NoText, g, NoDeployment)
  BY <1>1, Zenon DEF Single, NoText
<1>4. file.shape = "single" /\ file.routed = FALSE /\ file.agents = g
  BY <1>2, <1>3
<1> QED
  BY <1>1, <1>4

LEMMA SingleAccepted ==
  ASSUME NEW c, FleetCommand(c), NEW i \in 1 .. AgentCount(c), NEW e, e = Encode(TemplateAgent(c.template, i)),
         NEW file, file = Single(e)
  PROVE  ValidateAccepts(file, FALSE)
<1>1. PICK d : d = TemplateAgent(c.template, i)
  OBVIOUS
<1>2. IsTemplateAgent(d, c, i) /\ e = Encode(d)
  BY <1>1, TemplateAgents
<1>3. /\ d.name = "name" /\ d.type \in KnownTypes /\ d.model = "gpt" /\ d.provider = "openai"
      /\ d.temperature = 7 /\ d.tokens = 1000 /\ d.iterations = 10
  BY <1>2 DEF IsTemplateAgent
<1>4. /\ Value(e, "name") = TextValue("name") /\ Value(e, "type") = TextValue(d.type)
      /\ Value(e, "model") = TextValue("gpt") /\ Value(e, "provider") = TextValue("openai")
      /\ Given(e, "name") /\ Given(e, "type") /\ Given(e, "model") /\ Given(e, "provider")
  BY <1>2, <1>3, EncodedTexts
<1>5. /\ Value(e, "temperature") = NumberValue(d.temperature) /\ Value(e, "maxtokens") = NumberValue(10 * d.tokens)
      /\ Value(e, "maxiterations") = NumberValue(10 * d.iterations) /\ Value(e, "tools") = ListValue(d.tools)
      /\ Given(e, "temperature") /\ Given(e, "maxtokens") /\ Given(e, "maxiterations") /\ Given(e, "tools")
  BY <1>2, EncodedRest
<1>6. e.kind = "map"
  BY <1>2, EncodedShape
<1>7. /\ Value(e, "temperature") = NumberValue(7) /\ Value(e, "maxtokens") = NumberValue(10000)
      /\ Value(e, "maxiterations") = NumberValue(100)
  BY <1>3, <1>5
<1>8. Parses(e)
  <2>1. NumberValue(7).kind = "number" /\ Whole(NumberValue(10000)) /\ Whole(NumberValue(100))
    BY DEF NumberValue, Whole
  <2>2. ToolNames(ListValue(d.tools))
    <3>1. ListValue(d.tools).kind = "list" /\ \A t \in ListValue(d.tools).items : t.kind = "text"
      BY DEF ListValue, TextValue
    <3> QED
      BY <3>1, Zenon DEF ToolNames
  <2> QED
    BY <1>5, <1>7, <2>1, <2>2 DEF Parses
<1>9. /\ file.shape = "single" /\ file.routed = FALSE /\ DOMAIN file.agents = {NoText} /\ file.agents[NoText] = e
  BY SingleFields
<1>10. LoadsAgents(file)
  BY <1>6, <1>8, <1>9 DEF LoadsAgents
<1>11. PICK x : x = AgentOf(file, NoText)
  OBVIOUS
<1>12. /\ x.name = TextOr(Printed(e, "name"), NoText) /\ x.type = TextOr(Printed(e, "type"), "chat")
       /\ x.model = Printed(e, "model") /\ x.provider = Printed(e, "provider")
       /\ x.temperature = AmountOr(Amount(e, "temperature"), 7)
       /\ x.tokens = AmountOr(Amount(e, "maxtokens") \div 10, 1000)
       /\ x.iterations = AmountOr(Amount(e, "maxiterations") \div 10, 10)
  BY <1>9, <1>11 DEF AgentOf, ToAgentConfig
<1>13. x.temperature = 7 /\ x.tokens = 1000 /\ x.iterations = 10
  BY <1>5, <1>7, <1>12 DEF Amount, AmountOr, NumberValue
<1>14. /\ Printed(e, "name") = "name" /\ Printed(e, "type") = d.type /\ Printed(e, "model") = "gpt"
       /\ Printed(e, "provider") = "openai"
  <2>1. ASSUME NEW name, NEW text, Given(e, name), Value(e, name) = TextValue(text)
        PROVE  Printed(e, name) = text
    <3>1. Value(e, name).kind # "null" /\ Value(e, name).text = text
      BY <2>1 DEF TextValue
    <3> QED
      BY <2>1, <3>1, Zenon DEF Printed
  <2> QED
    BY <1>4, <2>1
<1>15. x.name = "name" /\ x.type = d.type /\ x.model = "gpt" /\ x.provider = "openai"
  <2>1. \A text, default : text # "" => TextOr(text, default) = text
    BY Zenon DEF TextOr
  <2>2. "name" # "" /\ "chat" # "" /\ "react" # "" /\ "tool" # ""
    BY Zenon
  <2>3. d.type \in {"chat", "react", "tool"}
    BY <1>3 DEF KnownTypes
  <2>4. TextOr("name", NoText) = "name" /\ TextOr(d.type, "chat") = d.type
    BY <2>1, <2>2, <2>3, Zenon
  <2> QED
    BY <1>12, <1>14, <2>4
<1>16. Complete(x)
  <2>1. "name" # "" /\ "chat" # "" /\ "react" # "" /\ "tool" # "" /\ "gpt" # "" /\ "openai" # ""
    BY Zenon
  <2>2. x.type \in {"chat", "react", "tool"}
    BY <1>3, <1>15 DEF KnownTypes
  <2> QED
    BY <1>15, <2>1, <2>2, Zenon DEF Complete
<1>17. SoundAgent(x)
  BY <1>3, <1>13, <1>15, <1>16 DEF SoundAgent, ValidAgent
<1>18. RoutesExist(file)
  BY <1>9, Zenon DEF RoutesExist
<1> QED
  BY <1>9, <1>10, <1>11, <1>17, <1>18, Zenon DEF ValidateAccepts

LEMMA OneOf ==
  ASSUME NEW p, NEW k \in Int, NEW x, p[k] = x
  PROVE  SubSeq(p, k, k) = <<x>>
<1>1. PICK q : q = SubSeq(p, k, k)
  OBVIOUS
<1>2. q \in Seq({x}) /\ Len(q) = 1 /\ q[1] = x
  <2>1. \A i \in k .. k : p[i] \in {x}
    OBVIOUS
  <2>2. /\ q \in Seq({x}) /\ Len(q) = IF k <= k THEN k - k + 1 ELSE 0
        /\ \A i \in 1 .. k - k + 1 : q[i] = p[k + i - 1]
    <3>1. PICK S : S = {x}
      OBVIOUS
    <3>2. \A i \in k .. k : p[i] \in S
      BY <2>1, <3>1
    <3>3. ASSUME NEW m \in Int, NEW n \in Int, \A i \in m .. n : p[i] \in S
          PROVE  /\ SubSeq(p, m, n) \in Seq(S) /\ Len(SubSeq(p, m, n)) = IF m <= n THEN n - m + 1 ELSE 0
                 /\ \A i \in 1 .. n - m + 1 : SubSeq(p, m, n)[i] = p[m + i - 1]
      BY <3>3, SubSeqProperties
    <3>4. /\ SubSeq(p, k, k) \in Seq(S) /\ Len(SubSeq(p, k, k)) = IF k <= k THEN k - k + 1 ELSE 0
          /\ \A i \in 1 .. k - k + 1 : SubSeq(p, k, k)[i] = p[k + i - 1]
      BY <3>2, <3>3, Zenon
    <3> QED
      BY <1>1, <3>1, <3>4
  <2>3. k <= k /\ k - k + 1 = 1 /\ k + 1 - 1 = k /\ 1 \in 1 .. 1
    OBVIOUS
  <2>4. Len(q) = 1
    BY <2>2, <2>3
  <2>5. q[1] = p[k]
    BY <2>2, <2>3
  <2> QED
    BY <2>2, <2>4, <2>5
<1>3. q = <<x>>
  BY <1>2
<1> QED
  BY <1>1, <1>3

LEMMA HeaderSplits ==
  ASSUME NEW a
  PROVE  Split(<<"X-Agent-ID", ":", a>>, ":") = <<<<"X-Agent-ID">>, <<a>>>>
<1>1. PICK p : p = <<"X-Agent-ID", ":", a>>
  OBVIOUS
<1>2. PICK cuts : cuts = {i \in DOMAIN p : p[i] = ":"}
  OBVIOUS
<1>3. Len(p) = 3 /\ DOMAIN p = 1..3 /\ p[1] = "X-Agent-ID" /\ p[2] = ":" /\ p[3] = a
  BY <1>1
<1>4. 2 \in cuts /\ \A i \in cuts : i \in {2, 3}
  BY <1>2, <1>3
<1>5. PICK i : i = CHOOSE k \in cuts : \A j \in cuts : k <= j
  OBVIOUS
<1>6. i = 2
  <2>1. \E k \in cuts : \A j \in cuts : k <= j
    BY <1>4
  <2>2. i \in cuts /\ \A j \in cuts : i <= j
    BY <1>5, <2>1
  <2> QED
    BY <1>4, <2>2
<1>7. SubSeq(p, 1, 1) = <<"X-Agent-ID">> /\ SubSeq(p, 3, 3) = <<a>>
  BY <1>3, OneOf
<1>8. Split(p, ":") = <<SubSeq(p, 1, i - 1), SubSeq(p, i + 1, Len(p))>>
  BY <1>2, <1>4, <1>5 DEF Split
<1>9. Split(p, ":") = <<SubSeq(p, 1, 1), SubSeq(p, 3, 3)>>
  BY <1>3, <1>6, <1>8
<1> QED
  BY <1>1, <1>7, <1>9

LEMMA QuerySplits ==
  ASSUME NEW a
  PROVE  Split(<<"agent", "=", a>>, "=") = <<<<"agent">>, <<a>>>>
<1>1. PICK p : p = <<"agent", "=", a>>
  OBVIOUS
<1>2. PICK cuts : cuts = {i \in DOMAIN p : p[i] = "="}
  OBVIOUS
<1>3. Len(p) = 3 /\ DOMAIN p = 1..3 /\ p[1] = "agent" /\ p[2] = "=" /\ p[3] = a
  BY <1>1
<1>4. 2 \in cuts /\ \A i \in cuts : i \in {2, 3}
  BY <1>2, <1>3
<1>5. PICK i : i = CHOOSE k \in cuts : \A j \in cuts : k <= j
  OBVIOUS
<1>6. i = 2
  <2>1. \E k \in cuts : \A j \in cuts : k <= j
    BY <1>4
  <2>2. i \in cuts /\ \A j \in cuts : i <= j
    BY <1>5, <2>1
  <2> QED
    BY <1>4, <2>2
<1>7. SubSeq(p, 1, 1) = <<"agent">> /\ SubSeq(p, 3, 3) = <<a>>
  BY <1>3, OneOf
<1>8. Split(p, "=") = <<SubSeq(p, 1, i - 1), SubSeq(p, i + 1, Len(p))>>
  BY <1>2, <1>4, <1>5 DEF Split
<1>9. Split(p, "=") = <<SubSeq(p, 1, 1), SubSeq(p, 3, 3)>>
  BY <1>3, <1>6, <1>8
<1> QED
  BY <1>1, <1>7, <1>9

LEMMA SelectsByType ==
  ASSUME NEW f, NEW r, NEW q
  PROVE  /\ f.type = "host" => (Selects(f, r, q) <=> MatchesTemplate("host", r.pattern, q.host))
         /\ f.type = "header" => (Selects(f, r, q) <=>
               ValuesOf(q, "header", Split(r.pattern, ":")[1]) = Split(r.pattern, ":")[2])
         /\ f.type = "query" => (Selects(f, r, q) <=>
               ValuesOf(q, "query", Split(r.pattern, "=")[1]) = Split(r.pattern, "=")[2])
<1>2. ASSUME f.type = "host"
      PROVE  Selects(f, r, q) <=> MatchesTemplate("host", r.pattern, q.host)
  BY <1>2, Zenon DEF Selects, ByPath
<1>3. ASSUME f.type = "header"
      PROVE  Selects(f, r, q) <=> ValuesOf(q, "header", Split(r.pattern, ":")[1]) = Split(r.pattern, ":")[2]
  BY <1>3, Zenon DEF Selects, ByPath
<1>4. ASSUME f.type = "query"
      PROVE  Selects(f, r, q) <=> ValuesOf(q, "query", Split(r.pattern, "=")[1]) = Split(r.pattern, "=")[2]
  BY <1>4, Zenon DEF Selects, ByPath
<1> QED
  BY <1>2, <1>3, <1>4, Zenon

(* The patterns of a template have no braces.                                *)
LEMMA PatternsLiteral ==
  ASSUME NEW b, b \notin {"variable", "brace"}
  PROVE  /\ Literal(PatternFor("path", b))
         /\ {"variable", "brace"} \intersect ToSet(PatternFor("host", b)) = {}
<1>1. PatternFor("path", b) = <<"/", b>> /\ PatternFor("host", b) = <<b, ".example.com">>
  BY DEF PatternFor
<1>2. ToSet(<<"/", b>>) = {"/", b} /\ ToSet(<<b, ".example.com">>) = {b, ".example.com"}
  BY DEF ToSet
<1> QED
  BY <1>1, <1>2 DEF Literal

LEMMA SelectsItsOwn ==
  ASSUME NEW routing \in {"path", "host", "header", "query"}, NEW a, NEW b, NEW f, f.type = routing,
         NEW r, r.match = NoText, r.pattern = PatternFor(routing, b), NEW q, q = RequestFor(routing, a),
         b \notin {"variable", "brace"}
  PROVE  Selects(f, r, q) <=> a = b
<1>1. CASE routing = "path"
  <2>1. q.path = PatternFor("path", a)
    BY <1>1 DEF RequestFor
  <2>2. MatchesPath(r.match, r.pattern, q.path) <=> q.path = r.pattern
    <3>1. MatchMode(r.match) = "exact"
      BY Zenon DEF MatchMode, NoText
    <3> QED
      BY <3>1 DEF MatchesPath
  <2>3. PatternFor("path", a) = PatternFor("path", b) <=> a = b
    BY PatternsGiven
  <2>4. Selects(f, r, q) <=> MatchesPath(r.match, r.pattern, q.path)
    <3>1. Literal(r.pattern)
      BY <1>1, PatternsLiteral, Zenon
    <3>2. ByPath(f)
      BY <1>1, Zenon DEF ByPath
    <3> QED
      BY <3>1, <3>2, SelectsLiterally DEF Templated
  <2> QED
    BY <1>1, <2>1, <2>2, <2>3, <2>4
<1>2. CASE routing = "host"
  <2>1. q.host = PatternFor("host", a)
    BY <1>2 DEF RequestFor
  <2>2. PatternFor("host", a) = PatternFor("host", b) <=> a = b
    BY PatternsGiven
  <2>3. Selects(f, r, q) <=> q.host = r.pattern
    <3>1. Selects(f, r, q) <=> MatchesTemplate("host", r.pattern, q.host)
      BY <1>2, SelectsByType, Zenon
    <3>2. {"variable", "brace"} \intersect ToSet(r.pattern) = {}
      BY <1>2, PatternsLiteral, Zenon
    <3> QED
      BY <3>1, <3>2, LiteralsFit
  <2> QED
    BY <1>2, <2>1, <2>2, <2>3
<1>3. CASE routing = "header"
  <2>1. q.headers = [h \in {<<"X-Agent-ID">>} |-> <<a>>]
    BY <1>3 DEF RequestFor
  <2>2. r.pattern = <<"X-Agent-ID", ":", b>>
    BY <1>3 DEF PatternFor
  <2>3. Split(r.pattern, ":")[1] = <<"X-Agent-ID">> /\ Split(r.pattern, ":")[2] = <<b>>
    BY <2>2, HeaderSplits
  <2>4. ValuesOf(q, "header", <<"X-Agent-ID">>) = <<a>>
    BY <2>1 DEF ValuesOf
  <2>5. Selects(f, r, q) <=> ValuesOf(q, "header", Split(r.pattern, ":")[1]) = Split(r.pattern, ":")[2]
    BY <1>3, SelectsByType, Zenon
  <2>6. Selects(f, r, q) <=> <<a>> = <<b>>
    BY <2>3, <2>4, <2>5, Zenon
  <2> QED
    BY <2>6
<1>4. CASE routing = "query"
  <2>1. q.query = [k \in {<<"agent">>} |-> <<a>>]
    BY <1>4 DEF RequestFor
  <2>2. r.pattern = <<"agent", "=", b>>
    BY <1>4 DEF PatternFor
  <2>3. Split(r.pattern, "=")[1] = <<"agent">> /\ Split(r.pattern, "=")[2] = <<b>>
    BY <2>2, QuerySplits
  <2>4. ValuesOf(q, "query", <<"agent">>) = <<a>>
    BY <2>1 DEF ValuesOf
  <2>5. Selects(f, r, q) <=> ValuesOf(q, "query", Split(r.pattern, "=")[1]) = Split(r.pattern, "=")[2]
    BY <1>4, SelectsByType, Zenon
  <2>6. Selects(f, r, q) <=> <<a>> = <<b>>
    BY <2>3, <2>4, <2>5, Zenon
  <2> QED
    BY <2>6
<1> QED
  BY <1>1, <1>2, <1>3, <1>4

LEMMA TemplateRouted ==
  ASSUME NEW c, FleetCommand(c), NEW file, file \in TemplateFleets(c), NEW a \in DOMAIN file.agents
  PROVE  Routed(FleetOf(file), RequestFor(c.routing, a)) = a
<1>1. PICK n : n = AgentCount(c)
  OBVIOUS
<1>2. PICK ranks \in Orders(n), default \in 1..n : IsTemplate(file, c, n, ranks, default)
  BY <1>1, ComesFrom
<1>3. n \in Nat \ {0} /\ 1 .. n \subseteq DOMAIN AgentIds /\ c.routing \in {"path", "host", "header", "query"}
  BY <1>1, FleetCommands
<1>4. PICK k \in 1..n : a = AgentIds[k]
  BY <1>2 DEF IsTemplate
<1>5. PICK f : f = FleetOf(file)
  OBVIOUS
<1>6. PICK q : q = RequestFor(c.routing, a)
  OBVIOUS
<1>7. f.type = c.routing /\ f.rules = file.rules
  BY <1>2, <1>5 DEF FleetOf, IsTemplate
<1>8. q.method = "POST" /\ (q.path = <<"/", a>> \/ q.path = <<"/">>)
  BY <1>6 DEF RequestFor, PatternFor
<1>9. <<q.method, q.path>> \notin Management
  <2>1. <<"POST", <<"/", a>>>> \notin Management /\ <<"POST", <<"/">>>> \notin Management
    BY <1>3, <1>4, IdsAssumption
  <2> QED
    BY <1>8, <2>1
<1>10. PICK i \in 1..n : ranks[i] = k
  BY <1>3, OrderReaches
<1>11. ASSUME NEW j \in 1..n
       PROVE  j \in Matching(f, q) <=> j = i
  <2>1. PICK r : r = f.rules[j]
    OBVIOUS
  <2>2. PICK b : b = AgentIds[ranks[j]]
    OBVIOUS
  <2>3. /\ r.match = NoText /\ r.pattern = PatternFor(c.routing, b) /\ r.method = "POST" /\ r.conditions = <<>>
        /\ DOMAIN f.rules = 1..n
    BY <1>2, <1>7, <2>1, <2>2 DEF IsTemplate
  <2>4. Selects(f, r, q) <=> a = b
    <3>1. ranks[j] \in DOMAIN AgentIds
      BY <1>3 DEF Orders
    <3>2. b \notin {"variable", "brace"}
      BY <2>2, <3>1, IdsAssumption
    <3> QED
      BY <1>3, <1>6, <1>7, <2>3, <3>2, SelectsItsOwn
  <2>5. MatchConditions(r, q)
    <3>1. ToSet(r.conditions) = {}
      BY <2>3 DEF ToSet
    <3> QED
      BY <3>1, Zenon DEF MatchConditions
  <2>6. j \in Matching(f, q) <=> Selects(f, r, q)
    BY <1>8, <2>1, <2>3, <2>5, Zenon DEF Matching
  <2>7. a = b <=> j = i
    <3>1. ranks[j] \in 1..n /\ ranks[i] \in 1..n /\ (ranks[j] = ranks[i] => j = i)
      BY DEF Orders
    <3>2. AgentIds[ranks[j]] = AgentIds[k] <=> ranks[j] = k
      BY <1>3, <3>1, IdsAssumption
    <3> QED
      BY <1>4, <1>10, <2>2, <3>1, <3>2
  <2> QED
    BY <2>4, <2>6, <2>7
<1>12. Matching(f, q) = {i}
  <2>1. Matching(f, q) \subseteq 1..n
    <3>1. DOMAIN f.rules = 1..n
      BY <1>2, <1>7 DEF IsTemplate
    <3> QED
      BY <3>1, Zenon DEF Matching
  <2> QED
    BY <1>11, <2>1
<1>13. First(f, {i}) = i
  BY DEF First
<1>14. f.rules[i].agent = a
  <2>1. \A j \in 1..n : file.rules[j].agent = AgentIds[ranks[j]]
    BY <1>2 DEF IsTemplate
  <2> QED
    BY <1>4, <1>7, <1>10, <2>1
<1>15. Routed(f, q) = a
  BY <1>9, <1>12, <1>13, <1>14, Zenon DEF Routed
<1> QED
  BY <1>5, <1>6, <1>15

-------------------------------------------------------------------------------
(* The invariant of the shells.                                              *)
AllOf(todo) == UNION {todo[i] : i \in DOMAIN todo}

TheDockerfile == Only(Dockerfile, Other("generated"))

(* All that a command is to write.                                           *)
Planned(s, c, source) == IF c.op \in WithDocker THEN TheDockerfile ELSE AllOf(Writes(s, c, source))

Usable(c, source) ==
    CASE c.op = "init"       -> source = InitFile
      [] c.op = "multi init" -> source \in TemplateFleets(c)
      [] OTHER -> c.op \notin WithDocker => Shaped(source) /\ LoadsFleet(source)

Underway(h) == h.pc \notin {"idle", "failed", "killed"}

PhaseFits(h) ==
    /\ h.pc \in {"stat", "docker", "run"} => h.command.op \in WithDocker
    /\ h.pc \in {"apply", "rollout"} => h.command.op = "deploy fleet to k8s"
    /\ h.pc = "write" /\ h.command.op \in WithDocker => h.left = <<TheDockerfile>>

LeftFits(h, writes) ==
    /\ h.pc = "write" => h.left \in Seq(SUBSET writes) /\ h.left # <<>>
    /\ h.wrote \subseteq writes /\ \A w \in h.wrote : w[2] # Unwritable

ShellOk(s, h) ==
    /\ DOMAIN h = {"errands", "pc", "command", "source", "left", "wrote", "alone", "overwrote"}
    /\ h.errands \in Seq(Errands)
    /\ h.pc \in {"idle", "stat", "write", "docker", "run", "apply", "rollout", "done", "failed", "killed"}
    /\ h.overwrote => ~h.alone
    /\ Underway(h) => /\ h.command \in Errands /\ Usable(h.command, h.source) /\ PhaseFits(h)
                      /\ LeftFits(h, Planned(s, h.command, h.source))

DiskOk ==
    \A path \in DOMAIN disk : /\ disk[path] = Operators => path = Dockerfile
                              /\ path = FleetFile /\ disk[path].kind = "file" => Shaped(disk[path].file)

TempOk(s, h) ==
    Temporary(s) # {} => h.pc = "killed" \/ (Busy(s) /\ h.command.op = "deploy fleet to k8s")

(* What a command that is alone can count on.                                *)
Undisturbed(s, h, c) ==
    /\ c.op \notin {"init", "multi init"} => h.source \in Sources(c)
    /\ c.op # "deploy fleet to k8s" => \A w \in h.wrote : w[1] \in DOMAIN disk /\ disk[w[1]] = w[2]
    /\ h.pc = "write" => Planned(s, c, h.source) \subseteq h.wrote \union AllOf(h.left)
    /\ h.pc \in {"apply", "rollout", "done"} /\ c.op \notin WithDocker => Planned(s, c, h.source) \subseteq h.wrote
    /\ c.op \in WithDocker => /\ h.pc = "write" => Dockerfile \notin DOMAIN disk
                              /\ h.pc \in {"docker", "run", "done"} => Dockerfile \in DOMAIN disk

AloneOk(s, h) ==
    h.alone => /\ \A t \in Shells \ {s} : ~Busy(t)
               /\ Underway(h) => Undisturbed(s, h, h.command)

ProjectInv ==
    /\ DOMAIN shells = Shells
    /\ DiskOk
    /\ \A s \in Shells : ShellOk(s, shells[s]) /\ TempOk(s, shells[s]) /\ AloneOk(s, shells[s])

-------------------------------------------------------------------------------
(* What is planned.                                                          *)
LEMMA AllParts ==
  ASSUME NEW S, NEW q \in Seq(S)
  PROVE  q \in Seq(SUBSET AllOf(q))
<1>1. \A i \in 1 .. Len(q) : q[i] \subseteq AllOf(q)
  BY DEF AllOf
<1> QED
  BY <1>1

LEMMA AllOfBoth ==
  ASSUME NEW S, NEW p \in Seq(S), NEW q \in Seq(S)
  PROVE  p \o q \in Seq(S) /\ AllOf(p \o q) = AllOf(p) \cup AllOf(q)
<1>1. PICK r : r = p \o q
  OBVIOUS
<1>2. /\ r \in Seq(S) /\ Len(r) = Len(p) + Len(q)
      /\ \A i \in 1 .. Len(p) : r[i] = p[i]
      /\ \A i \in 1 .. Len(q) : r[Len(p) + i] = q[i]
  BY <1>1
<1>3. /\ DOMAIN p = 1 .. Len(p) /\ DOMAIN q = 1 .. Len(q) /\ DOMAIN r = 1 .. Len(p) + Len(q)
      /\ Len(p) \in Nat /\ Len(q) \in Nat
  BY <1>2
<1>4. ASSUME NEW x \in AllOf(r)
      PROVE  x \in AllOf(p) \cup AllOf(q)
  <2>1. PICK i \in 1 .. Len(p) + Len(q) : x \in r[i]
    BY <1>3, <1>4 DEF AllOf
  <2>2. CASE i <= Len(p)
    <3>1. i \in DOMAIN p /\ x \in p[i]
      BY <1>2, <1>3, <2>1, <2>2
    <3> QED
      BY <3>1 DEF AllOf
  <2>3. CASE i > Len(p)
    <3>1. PICK j \in 1 .. Len(q) : i = Len(p) + j
      <4>1. i - Len(p) \in 1 .. Len(q) /\ i = Len(p) + (i - Len(p))
        BY <1>3, <2>1, <2>3
      <4> QED
        BY <4>1
    <3>2. j \in DOMAIN q /\ x \in q[j]
      BY <1>2, <1>3, <2>1, <3>1
    <3> QED
      BY <3>2 DEF AllOf
  <2> QED
    BY <1>3, <2>1, <2>2, <2>3
<1>5. ASSUME NEW x \in AllOf(p) \cup AllOf(q)
      PROVE  x \in AllOf(r)
  <2>1. CASE x \in AllOf(p)
    <3>1. PICK i \in DOMAIN p : x \in p[i]
      BY <2>1 DEF AllOf
    <3>2. i \in DOMAIN r /\ x \in r[i]
      BY <1>2, <1>3, <3>1
    <3> QED
      BY <3>2 DEF AllOf
  <2>2. CASE x \in AllOf(q)
    <3>1. PICK i \in DOMAIN q : x \in q[i]
      BY <2>2 DEF AllOf
    <3>2. Len(p) + i \in DOMAIN r /\ x \in r[Len(p) + i]
      BY <1>2, <1>3, <3>1
    <3> QED
      BY <3>2 DEF AllOf
  <2> QED
    BY <1>5, <2>1, <2>2
<1> QED
  BY <1>1, <1>2, <1>4, <1>5

Advanced == [InitFile EXCEPT !.shape = "list"]
InitPairs(template) ==
    {<<<<"go.mod">>, Other("go.mod")>>, <<<<"main.go">>, Other("main.go")>>, <<<<"README.md">>, Other(template)>>,
     <<<<".gitignore">>, Other(".gitignore")>>, <<AgentFile, Holds(InitFile)>>,
     <<<<"docker-compose.yml">>, Other("postgres")>>, <<<<"configs", "advanced-config">>, Holds(Advanced)>>,
     <<<<"configs", "rag-config">>, Other("rag")>>}

LEMMA InitPlan ==
  ASSUME NEW template, NEW q, q = InitWrites(template)
  PROVE  /\ q \in Seq(SUBSET AllOf(q)) /\ q # <<>>
         /\ AllOf(q) \subseteq InitPairs(template)
         /\ <<AgentFile, Holds(InitFile)>> \in AllOf(q)
<1>1. PICK S : S = SUBSET InitPairs(template)
  OBVIOUS
<1>2. PICK base : base =
          <<Only(<<"go.mod">>, Other("go.mod")), Only(<<"main.go">>, Other("main.go")),
            Only(<<"README.md">>, Other(template)), Only(<<".gitignore">>, Other(".gitignore")),
            Only(AgentFile, Holds(InitFile)), Only(<<"docker-compose.yml">>, Other("postgres"))>>
  OBVIOUS
<1>3. PICK more : more = IF template = "basic" THEN <<>> ELSE <<Only(<<"configs", "advanced-config">>, Holds(Advanced))>>
  OBVIOUS
<1>4. PICK rag : rag = IF template = "rag" THEN <<Only(<<"configs", "rag-config">>, Other("rag"))>> ELSE <<>>
  OBVIOUS
<1>5. base \in Seq(S) /\ base # <<>> /\ <<AgentFile, Holds(InitFile)>> \in AllOf(base)
  <2>1. \A i \in 1..6 : base[i] \in S
    BY <1>1, <1>2 DEF InitPairs, Only
  <2>2. Len(base) = 6 /\ DOMAIN base = 1..6 /\ base[5] = Only(AgentFile, Holds(InitFile))
    BY <1>2
  <2>3. base \in Seq(S) /\ base # <<>>
    BY <1>2, <2>1, <2>2
  <2> QED
    BY <2>2, <2>3 DEF AllOf, Only
<1>6. more \in Seq(S)
  <2>1. PICK part : part = Only(<<"configs", "advanced-config">>, Holds(Advanced))
    OBVIOUS
  <2>2. part \in S
    BY <1>1, <2>1 DEF InitPairs, Only
  <2>3. more = <<>> \/ more = <<part>>
    BY <1>3, <2>1, Zenon
  <2>4. <<>> \in Seq(S) /\ <<part>> \in Seq(S)
    BY <2>2
  <2> QED
    BY <2>3, <2>4, Zenon
<1>7. rag \in Seq(S)
  <2>1. PICK part : part = Only(<<"configs", "rag-config">>, Other("rag"))
    OBVIOUS
  <2>2. part \in S
    BY <1>1, <2>1 DEF InitPairs, Only
  <2>3. rag = <<>> \/ rag = <<part>>
    BY <1>4, <2>1, Zenon
  <2>4. <<>> \in Seq(S) /\ <<part>> \in Seq(S)
    BY <2>2
  <2> QED
    BY <2>3, <2>4, Zenon
<1>8. q = (base \o more) \o rag
  BY <1>2, <1>3, <1>4, Zenon DEF InitWrites, Advanced
<1>9. base \o more \in Seq(S) /\ AllOf(base \o more) = AllOf(base) \cup AllOf(more)
  BY <1>5, <1>6, AllOfBoth
<1>10. q \in Seq(S) /\ AllOf(q) = (AllOf(base) \cup AllOf(more)) \cup AllOf(rag)
  <2>1. PICK m : m = base \o more
    OBVIOUS
  <2>2. m \in Seq(S)
    BY <1>9, <2>1, Zenon
  <2>3. m \o rag \in Seq(S) /\ AllOf(m \o rag) = AllOf(m) \cup AllOf(rag)
    BY <1>7, <2>2, AllOfBoth
  <2> QED
    BY <1>8, <1>9, <2>1, <2>3, Zenon
<1>11. AllOf(q) \subseteq InitPairs(template)
  BY <1>1, <1>10 DEF AllOf
<1>12. q # <<>>
  <2>1. AllOf(<<>>) = {}
    BY DEF AllOf
  <2> QED
    BY <1>5, <1>10, <2>1
<1>13. q \in Seq(SUBSET AllOf(q))
  BY <1>10, AllParts
<1> QED
  BY <1>5, <1>10, <1>11, <1>12, <1>13

AgentPair(file, a) == <<AgentPath(a), Holds(Single(file.agents[a]))>>
FleetPairs(file) ==
    {<<FleetFile, Holds(file)>>, <<<<"docker-compose.yml">>, Other("multi-agent")>>,
     <<<<"k8s", "deployment">>, Other("init")>>, <<<<"k8s", "service">>, Other("init")>>,
     <<<<"README.md">>, Other("multi-agent")>>} \cup {AgentPair(file, a) : a \in DOMAIN file.agents}

LEMMA FleetPlan ==
  ASSUME NEW file, NEW q, q = FleetWrites(file)
  PROVE  /\ q \in Seq(SUBSET AllOf(q)) /\ q # <<>>
         /\ AllOf(q) \subseteq FleetPairs(file)
         /\ <<FleetFile, Holds(file)>> \in AllOf(q)
         /\ \A a \in DOMAIN file.agents : AgentPair(file, a) \in AllOf(q)
<1>1. PICK S : S = SUBSET FleetPairs(file)
  OBVIOUS
<1>2. PICK own : own = {AgentPair(file, a) : a \in DOMAIN file.agents}
  OBVIOUS
<1>3. q = <<Only(FleetFile, Holds(file)), own, Only(<<"docker-compose.yml">>, Other("multi-agent")),
            Only(<<"k8s", "deployment">>, Other("init")), Only(<<"k8s", "service">>, Other("init")),
            Only(<<"README.md">>, Other("multi-agent"))>>
  BY <1>2, Zenon DEF FleetWrites, AgentPair, Single
<1>4. \A i \in 1..6 : q[i] \in S
  BY <1>1, <1>2, <1>3 DEF FleetPairs, Only
<1>5. Len(q) = 6 /\ DOMAIN q = 1..6 /\ q[1] = Only(FleetFile, Holds(file)) /\ q[2] = own
  BY <1>3
<1>6. q \in Seq(S) /\ q # <<>>
  BY <1>3, <1>4, <1>5
<1>7. q \in Seq(SUBSET AllOf(q))
  BY <1>6, AllParts
<1>8. AllOf(q) \subseteq FleetPairs(file)
  BY <1>1, <1>4, <1>5 DEF AllOf
<1>9. <<FleetFile, Holds(file)>> \in q[1] /\ \A a \in DOMAIN file.agents : AgentPair(file, a) \in q[2]
  BY <1>2, <1>5 DEF Only
<1> QED
  BY <1>5, <1>6, <1>7, <1>8, <1>9 DEF AllOf

(* The configuration of one agent; Unwritable when its id names no file.     *)
OwnConfig(file, a) == <<ConfigPath(a), IF a \in NotNames THEN Unwritable ELSE Holds(OneAgent(file, a))>>
ComposeFor(file, multi) == <<Compose, [kind |-> "compose", services |-> Services(file, multi)]>>
DockerPairs(file, multi) ==
    {ComposeFor(file, multi), <<<<"deploy", "Dockerfile">>, Other("multi-agent")>>}
    \cup IF multi THEN {OwnConfig(file, a) : a \in DOMAIN file.agents}
         ELSE {<<ConfigPath("multi-agent"), Holds(Marshalled(file))>>}

LEMMA DockerPlan ==
  ASSUME NEW file, Shaped(file), NEW multi \in BOOLEAN, NEW q, q = DockerWrites(file, multi)
  PROVE  /\ q \in Seq(SUBSET AllOf(q)) /\ q # <<>>
         /\ AllOf(q) = DockerPairs(file, multi)
<1>1. PICK S : S = SUBSET DockerPairs(file, multi)
  OBVIOUS
<1>2. PICK all : all = DOMAIN file.agents
  OBVIOUS
<1>3. IsFiniteSet(all)
  BY <1>2 DEF Shaped
<1>4. PICK ids : ids = SetToSeq(all)
  OBVIOUS
<1>5. /\ ids \in Seq(all) /\ Len(ids) \in Nat /\ DOMAIN ids = 1 .. Len(ids)
      /\ \A x \in all : \E i \in DOMAIN ids : ids[i] = x
  BY <1>3, <1>4, Listed
<1>6. PICK end : end = <<Only(Compose, [kind |-> "compose", services |-> Services(file, multi)]),
                         Only(<<"deploy", "Dockerfile">>, Other("multi-agent"))>>
  OBVIOUS
<1>7. end = <<{ComposeFor(file, multi)}, {<<<<"deploy", "Dockerfile">>, Other("multi-agent")>>}>>
  BY <1>6, Zenon DEF Only, ComposeFor
<1>8. end \in Seq(S) /\ end # <<>>
      /\ AllOf(end) = {ComposeFor(file, multi), <<<<"deploy", "Dockerfile">>, Other("multi-agent")>>}
  <2>1. PICK v, w : v = ComposeFor(file, multi) /\ w = <<<<"deploy", "Dockerfile">>, Other("multi-agent")>>
    OBVIOUS
  <2>2. {v} \in S /\ {w} \in S
    BY <1>1, <2>1, Zenon DEF DockerPairs
  <2>3. end = <<{v}, {w}>>
    BY <1>7, <2>1, Zenon
  <2>4. end \in Seq(S) /\ end # <<>> /\ DOMAIN end = 1..2 /\ end[1] = {v} /\ end[2] = {w}
    BY <2>2, <2>3
  <2>5. AllOf(end) = {v, w}
    BY <2>4 DEF AllOf
  <2> QED
    BY <2>1, <2>4, <2>5, Zenon
<1>9. CASE multi = TRUE
  <2>1. PICK p : p = [i \in DOMAIN ids |-> Only(ConfigPath(ids[i]), IF ids[i] \in NotNames THEN Unwritable
                                                                   ELSE Holds(OneAgent(file, ids[i])))]
    OBVIOUS
  <2>2. p = [i \in DOMAIN ids |-> {OwnConfig(file, ids[i])}]
    BY <2>1, Zenon DEF Only, OwnConfig
  <2>3. q = p \o end
    BY <1>2, <1>4, <1>6, <1>9, <2>1, Zenon DEF DockerWrites
  <2>4. DockerPairs(file, multi) = AllOf(end) \cup {OwnConfig(file, a) : a \in all}
    BY <1>2, <1>8, <1>9, Zenon DEF DockerPairs
  <2>5. AllOf(p) = {OwnConfig(file, a) : a \in all}
    <3>1. \A i \in DOMAIN ids : ids[i] \in all /\ p[i] = {OwnConfig(file, ids[i])}
      BY <1>5, <2>2
    <3>2. DOMAIN p = DOMAIN ids
      BY <2>2
    <3> QED
      BY <1>5, <3>1, <3>2 DEF AllOf
  <2>6. p \in Seq(S)
    <3>1. \A i \in DOMAIN p : p[i] \subseteq AllOf(p)
      BY DEF AllOf
    <3>2. \A i \in DOMAIN p : p[i] \in S
      BY <1>1, <2>4, <2>5, <3>1
    <3>3. DOMAIN p = 1 .. Len(ids)
      BY <1>5, <2>2
    <3>4. p \in [1 .. Len(ids) -> S]
      BY <2>2, <3>2, <3>3
    <3> QED
      BY <1>5, <3>4
  <2>7. q \in Seq(S) /\ AllOf(q) = AllOf(p) \cup AllOf(end)
    BY <1>8, <2>3, <2>6, AllOfBoth
  <2>8. q # <<>>
    <3>1. AllOf(<<>>) = {}
      BY DEF AllOf
    <3> QED
      BY <1>8, <2>7, <3>1
  <2> QED
    BY <2>4, <2>5, <2>7, <2>8, AllParts
<1>10. CASE multi = FALSE
  <2>1. PICK w : w = <<ConfigPath("multi-agent"), Holds(Marshalled(file))>>
    OBVIOUS
  <2>2. PICK p : p = <<{w}>>
    OBVIOUS
  <2>3. q = p \o end
    <3>1. p = <<Only(ConfigPath("multi-agent"), Holds(Marshalled(file)))>>
      BY <2>1, <2>2, Zenon DEF Only
    <3> QED
      BY <1>2, <1>4, <1>6, <1>10, <3>1, Zenon DEF DockerWrites
  <2>4. DockerPairs(file, multi) = AllOf(end) \cup {w}
    BY <1>8, <1>10, <2>1, Zenon DEF DockerPairs
  <2>5. AllOf(p) = {w} /\ p \in Seq(S)
    <3>1. {w} \in S
      BY <1>1, <2>4
    <3>2. DOMAIN p = 1..1 /\ p[1] = {w} /\ p \in Seq(S)
      BY <2>2, <3>1
    <3> QED
      BY <3>2 DEF AllOf
  <2>6. q \in Seq(S) /\ AllOf(q) = AllOf(p) \cup AllOf(end)
    BY <1>8, <2>3, <2>5, AllOfBoth
  <2>7. q # <<>>
    <3>1. AllOf(<<>>) = {}
      BY DEF AllOf
    <3> QED
      BY <2>5, <2>6, <3>1
  <2> QED
    BY <2>4, <2>5, <2>6, <2>7, AllParts
<1> QED
  BY <1>9, <1>10

K8sPairs(root, file) ==
    {<<root \o <<"configmap">>, Holds(Marshalled(file))>>, <<root \o <<"deployment">>, Other("k8s")>>,
     <<root \o <<"kustomization">>, [kind |-> "kustomization", resources |-> Resources]>>,
     <<root \o <<"namespace">>, Other("k8s")>>, <<root \o <<"service">>, Other("k8s")>>}

LEMMA K8sPlan ==
  ASSUME NEW file, NEW root, NEW q, q = K8sWrites(root, file)
  PROVE  /\ q \in Seq(SUBSET AllOf(q)) /\ q # <<>>
         /\ AllOf(q) = K8sPairs(root, file)
<1>1. PICK a, b, c, d, e :
          /\ a = <<root \o <<"configmap">>, Holds(Marshalled(file))>> /\ b = <<root \o <<"deployment">>, Other("k8s")>>
          /\ c = <<root \o <<"kustomization">>, [kind |-> "kustomization", resources |-> Resources]>>
          /\ d = <<root \o <<"namespace">>, Other("k8s")>> /\ e = <<root \o <<"service">>, Other("k8s")>>
  OBVIOUS
<1>2. q = <<{a}, {b}, {c}, {d}, {e}>>
  BY <1>1, Zenon DEF K8sWrites, Only
<1>3. K8sPairs(root, file) = {a, b, c, d, e}
  BY <1>1, Zenon DEF K8sPairs
<1>4. q \in Seq(SUBSET {a, b, c, d, e}) /\ q # <<>> /\ DOMAIN q = 1..5
      /\ q[1] = {a} /\ q[2] = {b} /\ q[3] = {c} /\ q[4] = {d} /\ q[5] = {e}
  BY <1>2
<1>5. AllOf(q) = {a, b, c, d, e}
  BY <1>4 DEF AllOf
<1> QED
  BY <1>3, <1>4, <1>5, AllParts

PathFits(s, op, path) ==
    /\ path = Dockerfile => op \in WithDocker
    /\ path \in {AgentFile, FleetFile} => op \in {"init", "multi init"}
    /\ path[1] = "temp" => op = "deploy fleet to k8s" /\ path[2] = s
ContentFits(path, content) ==
    /\ content # Operators
    /\ path = FleetFile /\ content.kind = "file" => Shaped(content.file)
WriteFits(s, op, w) == PathFits(s, op, w[1]) /\ ContentFits(w[1], w[2])

OnePerPath(writes) == \A v, w \in writes : v[1] = w[1] => v = w

LEMMA Contents ==
  /\ \A t : Other(t).kind = "text" /\ (Other(t) = Operators <=> t = "by the operator")
  /\ \A f : Holds(f).kind = "file" /\ Holds(f).file = f /\ Holds(f) # Operators /\ Holds(f) # Unwritable
  /\ Unwritable # Operators /\ Unwritable.kind = "unwritable" /\ Partial # Operators /\ Partial.kind = "partial"
  /\ \A v : [kind |-> "compose", services |-> v] # Operators
  /\ \A v : [kind |-> "kustomization", resources |-> v] # Operators
<1>1. \A t : Other(t).kind = "text" /\ Other(t).text = t
  BY DEF Other
<1>2. \A f : Holds(f).kind = "file" /\ Holds(f).file = f
  BY DEF Holds
<1>3. Unwritable.kind = "unwritable" /\ Partial.kind = "partial"
  BY DEF Unwritable, Partial
<1>4. Operators.kind = "text" /\ Operators.text = "by the operator" /\ Operators = Other("by the operator")
  BY <1>1 DEF Operators
<1>5. \A v : [kind |-> "compose", services |-> v].kind = "compose"
  OBVIOUS
<1>6. \A v : [kind |-> "kustomization", resources |-> v].kind = "kustomization"
  OBVIOUS
<1>7. \A t : Other(t) = Operators <=> t = "by the operator"
  BY <1>1, <1>4
<1>8. \A f : Holds(f) # Operators /\ Holds(f) # Unwritable
  BY <1>2, <1>3, <1>4
<1>9. Unwritable # Operators /\ Partial # Operators
  BY <1>3, <1>4
<1>10. \A v : [kind |-> "compose", services |-> v] # Operators
  BY <1>4, <1>5
<1>11. \A v : [kind |-> "kustomization", resources |-> v] # Operators
  BY <1>4, <1>6
<1> QED
  BY <1>1, <1>2, <1>3, <1>7, <1>8, <1>9, <1>10, <1>11

LEMMA InitFits ==
  ASSUME NEW s, NEW template \in {"basic", "advanced", "rag"}, NEW w \in InitPairs(template)
  PROVE  WriteFits(s, "init", w)
<1>1. PathFits(s, "init", w[1]) /\ w[1] # FleetFile
  BY DEF InitPairs, PathFits, AgentFile, FleetFile, Dockerfile
<1>2. \/ \E f : w[2] = Holds(f)
      \/ \E t \in {"go.mod", "main.go", "basic", "advanced", "rag", ".gitignore", "postgres"} : w[2] = Other(t)
  BY DEF InitPairs
<1>3. w[2] # Operators
  BY <1>2, Contents
<1> QED
  BY <1>1, <1>3 DEF WriteFits, ContentFits

LEMMA InitPaths ==
  ASSUME NEW template
  PROVE  OnePerPath(InitPairs(template))
BY DEF InitPairs, OnePerPath, AgentFile

LEMMA FleetFits ==
  ASSUME NEW s, NEW file, Shaped(file), NEW w \in FleetPairs(file)
  PROVE  WriteFits(s, "multi init", w)
<1>1. CASE w = <<FleetFile, Holds(file)>>
  <2>1. w[1] = FleetFile /\ w[2] = Holds(file)
    BY <1>1
  <2>2. ContentFits(w[1], w[2])
    <3>1. Holds(file).kind = "file" /\ Holds(file).file = file /\ Holds(file) # Operators
      BY Contents
    <3> QED
      BY <2>1, <3>1 DEF ContentFits
  <2>3. PathFits(s, "multi init", w[1])
    BY <2>1 DEF PathFits, FleetFile, Dockerfile
  <2> QED
    BY <2>2, <2>3 DEF WriteFits
<1>2. CASE w \in {<<<<"docker-compose.yml">>, Other("multi-agent")>>, <<<<"k8s", "deployment">>, Other("init")>>,
                  <<<<"k8s", "service">>, Other("init")>>, <<<<"README.md">>, Other("multi-agent")>>}
  <2>1. PathFits(s, "multi init", w[1]) /\ w[1] # FleetFile
    <3>1. w[1] \in {<<"docker-compose.yml">>, <<"k8s", "deployment">>, <<"k8s", "service">>, <<"README.md">>}
      BY <1>2
    <3>2. PICK p : p = w[1]
      OBVIOUS
    <3>3. p[1] \in {"docker-compose.yml", "k8s", "README.md"}
      BY <3>1, <3>2
    <3>4. Dockerfile[1] = "Dockerfile.agent" /\ AgentFile[1] = "configs" /\ FleetFile[1] = "configs"
      BY DEF Dockerfile, AgentFile, FleetFile
    <3>5. p # Dockerfile /\ p # AgentFile /\ p # FleetFile /\ p[1] # "temp"
      BY <3>3, <3>4
    <3> QED
      BY <3>2, <3>5, Zenon DEF PathFits
  <2>2. w[2] \in {Other("multi-agent"), Other("init")}
    BY <1>2
  <2>3. Other("multi-agent") # Operators /\ Other("init") # Operators
    BY Contents
  <2> QED
    BY <2>1, <2>2, <2>3 DEF WriteFits, ContentFits
<1>3. ASSUME NEW a \in DOMAIN file.agents, w = AgentPair(file, a)
      PROVE  WriteFits(s, "multi init", w)
  <2>1. w[1] = <<"agents", a, "config">> /\ w[2] = Holds(Single(file.agents[a]))
    BY <1>3 DEF AgentPair, AgentPath
  <2>2. PathFits(s, "multi init", w[1]) /\ w[1] # FleetFile
    BY <2>1 DEF PathFits, FleetFile, AgentFile, Dockerfile
  <2> QED
    BY <2>1, <2>2, Contents DEF WriteFits, ContentFits
<1> QED
  BY <1>1, <1>2, <1>3 DEF FleetPairs

LEMMA FleetPaths ==
  ASSUME NEW file
  PROVE  OnePerPath(FleetPairs(file))
<1>1. PICK plain : plain = {<<FleetFile, Holds(file)>>, <<<<"docker-compose.yml">>, Other("multi-agent")>>,
          <<<<"k8s", "deployment">>, Other("init")>>, <<<<"k8s", "service">>, Other("init")>>,
          <<<<"README.md">>, Other("multi-agent")>>}
  OBVIOUS
<1>2. \A v, w \in plain : v[1] = w[1] => v = w
  BY <1>1 DEF FleetFile
<1>3. \A w \in plain : w[1] \in {<<"configs", "multi-agent">>, <<"docker-compose.yml">>, <<"k8s", "deployment">>,
                                 <<"k8s", "service">>, <<"README.md">>}
  BY <1>1 DEF FleetFile
<1>4. \A a \in DOMAIN file.agents : AgentPair(file, a)[1] = <<"agents", a, "config">>
  BY DEF AgentPair, AgentPath
<1>5. \A w \in plain, a \in DOMAIN file.agents : w[1] # AgentPair(file, a)[1]
  BY <1>3, <1>4
<1>6. \A a, b \in DOMAIN file.agents : AgentPair(file, a)[1] = AgentPair(file, b)[1] => a = b
  BY <1>4
<1>7. FleetPairs(file) = plain \cup {AgentPair(file, a) : a \in DOMAIN file.agents}
  BY <1>1, Zenon DEF FleetPairs
<1> QED
  BY <1>2, <1>5, <1>6, <1>7 DEF OnePerPath

LEMMA DeployPaths ==
  /\ Compose = <<"deploy", "docker-compose">> /\ \A x : ConfigPath(x) = <<"deploy", "configs", x>>
  /\ \A x, y : ConfigPath(x) = ConfigPath(y) => x = y
  /\ \A x : ConfigPath(x) # Compose /\ ConfigPath(x) # <<"deploy", "Dockerfile">>
  /\ Compose # <<"deploy", "Dockerfile">>
  /\ \A s, op : PathFits(s, op, Compose) /\ PathFits(s, op, <<"deploy", "Dockerfile">>)
  /\ \A s, op, x : PathFits(s, op, ConfigPath(x)) /\ ConfigPath(x) # FleetFile
  /\ Compose # FleetFile /\ <<"deploy", "Dockerfile">> # FleetFile
<1>1. Compose = <<"deploy", "docker-compose">> /\ \A x : ConfigPath(x) = <<"deploy", "configs", x>>
  BY DEF Compose, ConfigPath
<1>2. \A x, y : ConfigPath(x) = ConfigPath(y) => x = y
  BY <1>1
<1>3. \A x : ConfigPath(x) # Compose /\ ConfigPath(x) # <<"deploy", "Dockerfile">>
  BY <1>1
<1>4. Compose # <<"deploy", "Dockerfile">>
  BY <1>1
<1>5. Dockerfile[1] = "Dockerfile.agent" /\ AgentFile[1] = "configs" /\ FleetFile[1] = "configs"
  BY DEF Dockerfile, AgentFile, FleetFile
<1>6. ASSUME NEW p, p[1] = "deploy"
      PROVE  p # FleetFile /\ \A s, op : PathFits(s, op, p)
  <2>1. p # Dockerfile /\ p # AgentFile /\ p # FleetFile /\ p[1] # "temp"
    BY <1>5, <1>6
  <2> QED
    BY <2>1, Zenon DEF PathFits
<1>7. \A x : ConfigPath(x)[1] = "deploy"
  BY <1>1
<1>8. Compose[1] = "deploy" /\ <<"deploy", "Dockerfile">>[1] = "deploy"
  BY <1>1
<1> QED
  BY <1>1, <1>2, <1>3, <1>4, <1>6, <1>7, <1>8, Zenon

LEMMA DockerFits ==
  ASSUME NEW s, NEW file, NEW multi \in BOOLEAN, NEW w \in DockerPairs(file, multi)
  PROVE  WriteFits(s, "generate docker", w)
<1>1. CASE w = ComposeFor(file, multi)
  <2>1. w[1] = Compose /\ w[2] = [kind |-> "compose", services |-> Services(file, multi)]
    BY <1>1 DEF ComposeFor
  <2> QED
    BY <2>1, DeployPaths, Contents, Zenon DEF WriteFits, ContentFits
<1>2. CASE w = <<<<"deploy", "Dockerfile">>, Other("multi-agent")>>
  <2>1. w[1] = <<"deploy", "Dockerfile">> /\ w[2] = Other("multi-agent")
    BY <1>2
  <2>2. Other("multi-agent") # Operators
    BY Contents
  <2> QED
    BY <2>1, <2>2, DeployPaths, Zenon DEF WriteFits, ContentFits
<1>3. ASSUME NEW a, w = OwnConfig(file, a)
      PROVE  WriteFits(s, "generate docker", w)
  <2>1. w[1] = ConfigPath(a) /\ (w[2] = Unwritable \/ w[2] = Holds(OneAgent(file, a)))
    BY <1>3 DEF OwnConfig
  <2>2. Unwritable # Operators /\ Holds(OneAgent(file, a)) # Operators
    BY Contents
  <2>3. PathFits(s, "generate docker", ConfigPath(a)) /\ ConfigPath(a) # FleetFile
    BY DeployPaths
  <2> QED
    BY <2>1, <2>2, <2>3, Zenon DEF WriteFits, ContentFits
<1>4. CASE w = <<ConfigPath("multi-agent"), Holds(Marshalled(file))>>
  <2>1. w[1] = ConfigPath("multi-agent") /\ w[2] = Holds(Marshalled(file))
    BY <1>4
  <2>2. Holds(Marshalled(file)) # Operators
    BY Contents
  <2>3. PathFits(s, "generate docker", ConfigPath("multi-agent")) /\ ConfigPath("multi-agent") # FleetFile
    BY DeployPaths
  <2> QED
    BY <2>1, <2>2, <2>3, Zenon DEF WriteFits, ContentFits
<1> QED
  BY <1>1, <1>2, <1>3, <1>4 DEF DockerPairs

LEMMA DockerPaths ==
  ASSUME NEW file, NEW multi \in BOOLEAN
  PROVE  OnePerPath(DockerPairs(file, multi))
<1>1. PICK v, w, u : /\ v = ComposeFor(file, multi) /\ w = <<<<"deploy", "Dockerfile">>, Other("multi-agent")>>
                     /\ u = <<ConfigPath("multi-agent"), Holds(Marshalled(file))>>
  OBVIOUS
<1>2. v[1] = Compose /\ w[1] = <<"deploy", "Dockerfile">> /\ u[1] = ConfigPath("multi-agent")
  BY <1>1 DEF ComposeFor
<1>3. \A a : OwnConfig(file, a)[1] = ConfigPath(a)
  BY DEF OwnConfig
<1>4. CASE multi = TRUE
  <2>1. DockerPairs(file, multi) = {v, w} \cup {OwnConfig(file, a) : a \in DOMAIN file.agents}
    BY <1>1, <1>4, Zenon DEF DockerPairs
  <2> QED
    BY <1>2, <1>3, <2>1, DeployPaths DEF OnePerPath
<1>5. CASE multi = FALSE
  <2>1. DockerPairs(file, multi) = {v, w} \cup {u}
    BY <1>1, <1>5, Zenon DEF DockerPairs
  <2> QED
    BY <1>2, <2>1, DeployPaths DEF OnePerPath
<1> QED
  BY <1>4, <1>5

(* The directories that manifests are written to.                            *)
ManifestRoot(s, op, root) ==
    (op = "generate k8s" /\ root = <<"k8s">>) \/ (op = "deploy fleet to k8s" /\ root = <<"temp", s>>)

LEMMA Below ==
  ASSUME NEW x, NEW root
  PROVE  /\ root = <<"k8s">> => root \o <<x>> = <<"k8s", x>>
         /\ \A s : root = <<"temp", s>> => root \o <<x>> = <<"temp", s, x>>
<1>1. ASSUME root = <<"k8s">>
      PROVE  root \o <<x>> = <<"k8s", x>>
  <2>1. PICK q : q = root \o <<x>>
    OBVIOUS
  <2>2. root \in Seq({"k8s", x}) /\ <<x>> \in Seq({"k8s", x}) /\ Len(root) = 1 /\ Len(<<x>>) = 1 /\ root[1] = "k8s"
    BY <1>1
  <2>3. q \in Seq({"k8s", x}) /\ Len(q) = 2 /\ q[1] = "k8s" /\ q[2] = x
    BY <2>1, <2>2
  <2>4. q = <<"k8s", x>>
    BY <2>3
  <2> QED
    BY <2>1, <2>4, Zenon
<1>2. ASSUME NEW s, root = <<"temp", s>>
      PROVE  root \o <<x>> = <<"temp", s, x>>
  <2>1. PICK q : q = root \o <<x>>
    OBVIOUS
  <2>2. /\ root \in Seq({"temp", s, x}) /\ <<x>> \in Seq({"temp", s, x}) /\ Len(root) = 2 /\ Len(<<x>>) = 1
        /\ root[1] = "temp" /\ root[2] = s
    BY <1>2
  <2>3. /\ q \in Seq({"temp", s, x}) /\ Len(q) = Len(root) + Len(<<x>>)
        /\ \A i \in 1 .. Len(root) + Len(<<x>>) : q[i] = IF i <= Len(root) THEN root[i] ELSE <<x>>[i - Len(root)]
    BY <2>1, <2>2, ConcatProperties
  <2>4. Len(q) = 3 /\ q[1] = "temp" /\ q[2] = s /\ q[3] = x
    BY <2>2, <2>3
  <2>5. q = <<"temp", s, x>>
    <3>1. PICK r : r = <<"temp", s, x>>
      OBVIOUS
    <3>2. r \in Seq({"temp", s, x}) /\ Len(r) = 3 /\ r[1] = "temp" /\ r[2] = s /\ r[3] = x
      BY <3>1
    <3>3. \A i \in 1 .. 3 : q[i] = r[i]
      BY <2>4, <3>2
    <3>4. q = r
      BY <2>3, <2>4, <3>2, <3>3, SeqEqual
    <3> QED
      BY <3>1, <3>4
  <2> QED
    BY <2>1, <2>5, Zenon
<1> QED
  BY <1>1, <1>2

LEMMA ManifestPaths ==
  ASSUME NEW s, NEW op, NEW root, ManifestRoot(s, op, root)
  PROVE  /\ \A x : PathFits(s, op, root \o <<x>>) /\ root \o <<x>> # FleetFile
         /\ \A x, y : root \o <<x>> = root \o <<y>> => x = y
<1>1. Dockerfile[1] = "Dockerfile.agent" /\ AgentFile[1] = "configs" /\ FleetFile[1] = "configs"
  BY DEF Dockerfile, AgentFile, FleetFile
<1>2. CASE op = "generate k8s" /\ root = <<"k8s">>
  <2>1. \A x : root \o <<x>> = <<"k8s", x>>
    BY <1>2, Below
  <2>2. \A x, y : root \o <<x>> = root \o <<y>> => x = y
    BY <2>1
  <2>3. ASSUME NEW x, NEW p, p = root \o <<x>>
        PROVE  PathFits(s, op, p) /\ p # FleetFile
    <3>1. p[1] = "k8s"
      <4>1. p = <<"k8s", x>>
        BY <2>1, <2>3, Zenon
      <4> QED
        BY <4>1
    <3>2. p # Dockerfile /\ p # AgentFile /\ p # FleetFile /\ p[1] # "temp"
      BY <1>1, <3>1
    <3> QED
      BY <3>2, Zenon DEF PathFits
  <2> QED
    BY <2>2, <2>3
<1>3. CASE op = "deploy fleet to k8s" /\ root = <<"temp", s>>
  <2>1. \A x : root \o <<x>> = <<"temp", s, x>>
    BY <1>3, Below
  <2>2. \A x, y : root \o <<x>> = root \o <<y>> => x = y
    BY <2>1
  <2>3. ASSUME NEW x, NEW p, p = root \o <<x>>
        PROVE  PathFits(s, op, p) /\ p # FleetFile
    <3>1. p[1] = "temp" /\ p[2] = s
      <4>1. p = <<"temp", s, x>>
        BY <2>1, <2>3, Zenon
      <4> QED
        BY <4>1
    <3>2. p # Dockerfile /\ p # AgentFile /\ p # FleetFile
      BY <1>1, <3>1
    <3> QED
      BY <1>3, <3>1, <3>2, Zenon DEF PathFits
  <2> QED
    BY <2>2, <2>3
<1> QED
  BY <1>2, <1>3 DEF ManifestRoot

LEMMA K8sFits ==
  ASSUME NEW s, NEW op, NEW root, ManifestRoot(s, op, root), NEW file, NEW w \in K8sPairs(root, file)
  PROVE  WriteFits(s, op, w)
<1>1. \E x : w[1] = root \o <<x>>
  <2>1. PICK a, b, c, d, e : /\ a = root \o <<"configmap">> /\ b = root \o <<"deployment">>
                             /\ c = root \o <<"kustomization">> /\ d = root \o <<"namespace">>
                             /\ e = root \o <<"service">>
    OBVIOUS
  <2>2. w[1] \in {a, b, c, d, e}
    BY <2>1 DEF K8sPairs
  <2> QED
    BY <2>1, <2>2, Zenon
<1>2. \/ w[2] = Holds(Marshalled(file)) \/ w[2] = Other("k8s")
      \/ w[2] = [kind |-> "kustomization", resources |-> Resources]
  BY DEF K8sPairs
<1>3. Other("k8s") # Operators
  BY Contents
<1>4. w[2] # Operators
  BY <1>2, <1>3, Contents, Zenon
<1>5. PathFits(s, op, w[1]) /\ w[1] # FleetFile
  <2>1. \A x : PathFits(s, op, root \o <<x>>) /\ root \o <<x>> # FleetFile
    BY ManifestPaths
  <2> QED
    BY <1>1, <2>1, Zenon
<1> QED
  BY <1>4, <1>5, Zenon DEF WriteFits, ContentFits

LEMMA K8sPaths ==
  ASSUME NEW s, NEW op, NEW root, ManifestRoot(s, op, root), NEW file
  PROVE  OnePerPath(K8sPairs(root, file))
<1>1. PICK a, b, c, d, e :
          /\ a = <<root \o <<"configmap">>, Holds(Marshalled(file))>> /\ b = <<root \o <<"deployment">>, Other("k8s")>>
          /\ c = <<root \o <<"kustomization">>, [kind |-> "kustomization", resources |-> Resources]>>
          /\ d = <<root \o <<"namespace">>, Other("k8s")>> /\ e = <<root \o <<"service">>, Other("k8s")>>
  OBVIOUS
<1>2. K8sPairs(root, file) = {a, b, c, d, e}
  BY <1>1, Zenon DEF K8sPairs
<1>3. /\ a[1] = root \o <<"configmap">> /\ b[1] = root \o <<"deployment">> /\ c[1] = root \o <<"kustomization">>
      /\ d[1] = root \o <<"namespace">> /\ e[1] = root \o <<"service">>
  BY <1>1
<1>4. \A x, y : root \o <<x>> = root \o <<y>> => x = y
  BY ManifestPaths
<1>5. /\ a[1] # b[1] /\ a[1] # c[1] /\ a[1] # d[1] /\ a[1] # e[1] /\ b[1] # c[1] /\ b[1] # d[1] /\ b[1] # e[1]
      /\ c[1] # d[1] /\ c[1] # e[1] /\ d[1] # e[1]
  BY <1>3, <1>4, Zenon
<1> QED
  BY <1>2, <1>5 DEF OnePerPath

LEMMA Operations ==
  ASSUME NEW c \in Errands
  PROVE  /\ ValidCommand(c)
         /\ c.op \in {"init", "multi init", "generate docker", "generate k8s", "deploy fleet to k8s"} \cup WithDocker
         /\ c.op = "init" => c.template \in {"basic", "advanced", "rag"}
         /\ c.op = "multi init" => FleetCommand(c)
         /\ c.op = "generate docker" => c.multi \in BOOLEAN
<1>1. ValidCommand(c)
  BY DEF Errands
<1> QED
  BY <1>1 DEF ValidCommand, FleetCommand, WithDocker

LEMMA UsableBy ==
  ASSUME NEW c, NEW source, Usable(c, source)
  PROVE  /\ c.op = "init" => source = InitFile
         /\ c.op = "multi init" => source \in TemplateFleets(c)
         /\ c.op \in {"generate docker", "generate k8s", "deploy fleet to k8s"} => Shaped(source) /\ LoadsFleet(source)
<1>1. ASSUME c.op = "init"
      PROVE  source = InitFile
  BY <1>1 DEF Usable
<1>2. ASSUME c.op = "multi init"
      PROVE  source \in TemplateFleets(c)
  BY <1>2 DEF Usable
<1>3. ASSUME c.op \in {"generate docker", "generate k8s", "deploy fleet to k8s"}
      PROVE  Shaped(source) /\ LoadsFleet(source)
  BY <1>3 DEF Usable, WithDocker
<1> QED
  BY <1>1, <1>2, <1>3

LEMMA WritesBy ==
  ASSUME NEW s, NEW c, NEW source
  PROVE  /\ c.op = "init" => Writes(s, c, source) = InitWrites(c.template)
         /\ c.op = "multi init" => Writes(s, c, source) = FleetWrites(source)
         /\ c.op = "generate docker" => Writes(s, c, source) = DockerWrites(source, c.multi)
         /\ c.op = "generate k8s" => Writes(s, c, source) = K8sWrites(<<"k8s">>, source)
         /\ c.op = "deploy fleet to k8s" => Writes(s, c, source) = K8sWrites(<<"temp", s>>, source)
<1>1. ASSUME c.op = "init"
      PROVE  Writes(s, c, source) = InitWrites(c.template)
  BY <1>1 DEF Writes
<1>2. ASSUME c.op = "multi init"
      PROVE  Writes(s, c, source) = FleetWrites(source)
  BY <1>2 DEF Writes
<1>3. ASSUME c.op = "generate docker"
      PROVE  Writes(s, c, source) = DockerWrites(source, c.multi)
  BY <1>3 DEF Writes
<1>4. ASSUME c.op = "generate k8s"
      PROVE  Writes(s, c, source) = K8sWrites(<<"k8s">>, source)
  BY <1>4 DEF Writes
<1>5. ASSUME c.op = "deploy fleet to k8s"
      PROVE  Writes(s, c, source) = K8sWrites(<<"temp", s>>, source)
  BY <1>5 DEF Writes
<1> QED
  BY <1>1, <1>2, <1>3, <1>4, <1>5

Sequenced(q, writes) == q \in Seq(SUBSET writes) /\ q # <<>>

LEMMA PlanOk ==
  ASSUME NEW s, NEW c \in Errands, NEW source, Usable(c, source), NEW writes, writes = Planned(s, c, source)
  PROVE  /\ \A w \in writes : WriteFits(s, c.op, w)
         /\ OnePerPath(writes)
         /\ c.op \notin WithDocker => Sequenced(Writes(s, c, source), writes)
<1>1. PICK q : q = Writes(s, c, source)
  OBVIOUS
<1>2. c.op \notin WithDocker => writes = AllOf(q)
  BY <1>1, Zenon DEF Planned
<1>3. CASE c.op \in WithDocker
  <2>1. PICK w : w = <<Dockerfile, Other("generated")>>
    OBVIOUS
  <2>2. writes = {w}
    BY <1>3, <2>1, Zenon DEF Planned, TheDockerfile, Only
  <2>3. w[1] = Dockerfile /\ w[2] = Other("generated")
    BY <2>1
  <2>4. Other("generated") # Operators /\ Dockerfile # FleetFile /\ PathFits(s, c.op, Dockerfile)
    <3>1. Other("generated") # Operators
      BY Contents
    <3>2. Dockerfile[1] = "Dockerfile.agent" /\ AgentFile[1] = "configs" /\ FleetFile[1] = "configs"
      BY DEF Dockerfile, AgentFile, FleetFile
    <3>3. Dockerfile # FleetFile /\ Dockerfile # AgentFile /\ Dockerfile[1] # "temp"
      BY <3>2
    <3> QED
      BY <1>3, <3>1, <3>3, Zenon DEF PathFits
  <2>5. WriteFits(s, c.op, w)
    BY <2>3, <2>4, Zenon DEF WriteFits, ContentFits
  <2> QED
    BY <1>3, <2>2, <2>5 DEF OnePerPath
<1>4. CASE c.op = "init"
  <2>1. c.op \notin WithDocker /\ c.template \in {"basic", "advanced", "rag"} /\ q = InitWrites(c.template)
    BY <1>1, <1>4, Operations, WritesBy DEF WithDocker
  <2>2. q \in Seq(SUBSET AllOf(q)) /\ q # <<>> /\ AllOf(q) \subseteq InitPairs(c.template)
    BY <2>1, InitPlan
  <2>3. \A w \in InitPairs(c.template) : WriteFits(s, "init", w)
    BY <2>1, InitFits
  <2>4. OnePerPath(InitPairs(c.template))
    BY InitPaths
  <2> QED
    BY <1>1, <1>2, <1>4, <2>1, <2>2, <2>3, <2>4 DEF OnePerPath, Sequenced
<1>5. CASE c.op = "multi init"
  <2>1. c.op \notin WithDocker /\ FleetCommand(c) /\ q = FleetWrites(source) /\ source \in TemplateFleets(c)
    <3>1. c.op \notin WithDocker
      BY <1>5 DEF WithDocker
    <3>2. FleetCommand(c)
      BY <1>5, Operations, Zenon
    <3>3. q = FleetWrites(source)
      BY <1>1, <1>5, WritesBy, Zenon
    <3>4. source \in TemplateFleets(c)
      BY <1>5, UsableBy, Zenon
    <3> QED
      BY <3>1, <3>2, <3>3, <3>4
  <2>2. q \in Seq(SUBSET AllOf(q)) /\ q # <<>> /\ AllOf(q) \subseteq FleetPairs(source)
    BY <2>1, FleetPlan
  <2>3. Shaped(source)
    BY <2>1, TemplateAccepted
  <2>4. \A w \in FleetPairs(source) : WriteFits(s, "multi init", w)
    BY <2>3, FleetFits
  <2>5. OnePerPath(FleetPairs(source))
    BY FleetPaths
  <2> QED
    BY <1>1, <1>2, <1>5, <2>1, <2>2, <2>4, <2>5 DEF OnePerPath, Sequenced
<1>6. CASE c.op = "generate docker"
  <2>1. c.op \notin WithDocker /\ c.multi \in BOOLEAN /\ q = DockerWrites(source, c.multi) /\ Shaped(source)
    <3>1. c.op \notin WithDocker
      BY <1>6 DEF WithDocker
    <3>2. c.multi \in BOOLEAN
      BY <1>6, Operations, Zenon
    <3>3. q = DockerWrites(source, c.multi)
      BY <1>1, <1>6, WritesBy, Zenon
    <3>4. Shaped(source)
      BY <1>6, UsableBy
    <3> QED
      BY <3>1, <3>2, <3>3, <3>4
  <2>2. q \in Seq(SUBSET AllOf(q)) /\ q # <<>> /\ AllOf(q) = DockerPairs(source, c.multi)
    BY <2>1, DockerPlan
  <2>3. \A w \in DockerPairs(source, c.multi) : WriteFits(s, "generate docker", w)
    BY <2>1, DockerFits
  <2>4. OnePerPath(DockerPairs(source, c.multi))
    BY <2>1, DockerPaths
  <2> QED
    BY <1>1, <1>2, <1>6, <2>1, <2>2, <2>3, <2>4 DEF Sequenced
<1>7. ASSUME NEW root, ManifestRoot(s, c.op, root), q = K8sWrites(root, source)
      PROVE  /\ \A w \in writes : WriteFits(s, c.op, w)
             /\ OnePerPath(writes) /\ Sequenced(q, writes)
  <2>1. q \in Seq(SUBSET AllOf(q)) /\ q # <<>> /\ AllOf(q) = K8sPairs(root, source)
    BY <1>7, K8sPlan
  <2>2. \A w \in K8sPairs(root, source) : WriteFits(s, c.op, w)
    BY <1>7, K8sFits
  <2>3. OnePerPath(K8sPairs(root, source))
    BY <1>7, K8sPaths
  <2>4. c.op \notin WithDocker
    BY <1>7 DEF ManifestRoot, WithDocker
  <2> QED
    BY <1>2, <2>1, <2>2, <2>3, <2>4 DEF Sequenced
<1>8. CASE c.op = "generate k8s"
  <2>1. q = K8sWrites(<<"k8s">>, source) /\ ManifestRoot(s, c.op, <<"k8s">>)
    BY <1>1, <1>8, WritesBy DEF ManifestRoot
  <2> QED
    BY <1>1, <1>7, <2>1
<1>9. CASE c.op = "deploy fleet to k8s"
  <2>1. q = K8sWrites(<<"temp", s>>, source) /\ ManifestRoot(s, c.op, <<"temp", s>>)
    BY <1>1, <1>9, WritesBy DEF ManifestRoot
  <2> QED
    BY <1>1, <1>7, <2>1
<1> QED
  BY <1>3, <1>4, <1>5, <1>6, <1>8, <1>9, Operations

-------------------------------------------------------------------------------
(* What one step does to the disk.                                           *)
Rewritten(path, content) ==
    /\ DOMAIN disk' = DOMAIN disk \cup {path}
    /\ disk'[path] = content
    /\ \A p \in DOMAIN disk \ {path} : disk'[p] = disk[p]

LEMMA DiskWritten ==
  ASSUME NEW path, NEW content, disk' = DiskWith(path, content)
  PROVE  Rewritten(path, content)
BY DEF DiskWith, Rewritten

LEMMA SourcesStay ==
  ASSUME NEW c, \A p \in {AgentFile, FleetFile} : /\ p \in DOMAIN disk' <=> p \in DOMAIN disk
                                                  /\ p \in DOMAIN disk => disk'[p] = disk[p]
  PROVE  Sources(c)' = Sources(c)
<1>1. AgentFiles(AgentFile)' = AgentFiles(AgentFile) /\ AgentFiles(FleetFile)' = AgentFiles(FleetFile)
  BY DEF AgentFiles
<1> QED
  BY <1>1, Zenon DEF Sources

LEMMA WritingKeepsDisk ==
  ASSUME DiskOk, NEW path, NEW content, Rewritten(path, content), ContentFits(path, content)
  PROVE  DiskOk'
<1>1. ASSUME NEW p \in DOMAIN disk'
      PROVE  /\ disk'[p] = Operators => p = Dockerfile
             /\ p = FleetFile /\ disk'[p].kind = "file" => Shaped(disk'[p].file)
  <2>1. CASE p = path
    BY <2>1 DEF Rewritten, ContentFits
  <2>2. CASE p # path
    <3>1. p \in DOMAIN disk /\ disk'[p] = disk[p]
      BY <1>1, <2>2 DEF Rewritten
    <3> QED
      BY <3>1 DEF DiskOk
  <2> QED
    BY <2>1, <2>2
<1> QED
  BY <1>1 DEF DiskOk

LEMMA EditKeepsDisk ==
  ASSUME DiskOk, Rewritten(Dockerfile, Operators)
  PROVE  DiskOk'
<1>1. ASSUME NEW p \in DOMAIN disk'
      PROVE  /\ disk'[p] = Operators => p = Dockerfile
             /\ p = FleetFile /\ disk'[p].kind = "file" => Shaped(disk'[p].file)
  <2>1. CASE p = Dockerfile
    <3>1. Operators.kind = "text"
      BY Contents DEF Operators
    <3> QED
      BY <2>1, <3>1 DEF Rewritten
  <2>2. CASE p # Dockerfile
    <3>1. p \in DOMAIN disk /\ disk'[p] = disk[p]
      BY <1>1, <2>2 DEF Rewritten
    <3> QED
      BY <3>1 DEF DiskOk
  <2> QED
    BY <2>1, <2>2
<1> QED
  BY <1>1 DEF DiskOk

LEMMA WritingTemporary ==
  ASSUME NEW path, NEW content, Rewritten(path, content), NEW t, ~(path[1] = "temp" /\ path[2] = t)
  PROVE  Temporary(t)' = Temporary(t)
BY DEF Rewritten, Temporary

(* One shell moves on; the others are as they were.                          *)
Turned(s, n) ==
    /\ DOMAIN shells' = Shells /\ shells'[s] = n
    /\ \A t \in Shells \ {s} : shells'[t] = shells[t]

LEMMA NobodyElseAlone ==
  ASSUME ProjectInv, NEW s \in Shells, Busy(s), NEW t \in Shells \ {s}
  PROVE  ~shells[t].alone
<1>1. AloneOk(t, shells[t])
  BY DEF ProjectInv
<1> QED
  BY <1>1 DEF AloneOk

LEMMA StepKeeps ==
  ASSUME ProjectInv, NEW s \in Shells, Busy(s), NEW n, Turned(s, n), DiskOk', ShellOk(s, n), TempOk(s, n)',
         AloneOk(s, n)', \A t \in Shells \ {s} : Temporary(t)' = Temporary(t)
  PROVE  ProjectInv'
<1>1. ASSUME NEW t \in Shells
      PROVE  ShellOk(t, shells'[t]) /\ TempOk(t, shells[t])' /\ AloneOk(t, shells[t])'
  <2>1. CASE t = s
    <3>1. shells'[t] = n
      BY <2>1 DEF Turned
    <3>2. TempOk(t, shells[t])' /\ AloneOk(t, shells[t])'
      BY <2>1, <3>1, Zenon DEF TempOk, AloneOk, Undisturbed
    <3> QED
      BY <2>1, <3>1, <3>2
  <2>2. CASE t # s
    <3>1. shells'[t] = shells[t]
      BY <2>2 DEF Turned
    <3>2. ShellOk(t, shells[t]) /\ TempOk(t, shells[t])
      BY DEF ProjectInv
    <3>3. Busy(t)' <=> Busy(t)
      BY <3>1 DEF Busy
    <3>4. TempOk(t, shells[t])'
      BY <2>2, <3>1, <3>2, <3>3 DEF TempOk
    <3>5. ~shells[t].alone
      BY <2>2, NobodyElseAlone
    <3> QED
      BY <3>1, <3>2, <3>4, <3>5 DEF AloneOk
  <2> QED
    BY <2>1, <2>2
<1>2. DOMAIN shells' = Shells
  BY DEF Turned
<1> QED
  BY <1>1, <1>2 DEF ProjectInv

LEMMA ShellFacts ==
  ASSUME ProjectInv, NEW s \in Shells, NEW h, h = shells[s]
  PROVE  /\ ShellOk(s, h) /\ TempOk(s, h) /\ AloneOk(s, h) /\ DiskOk /\ DOMAIN shells = Shells
         /\ DOMAIN h = {"errands", "pc", "command", "source", "left", "wrote", "alone", "overwrote"}
BY DEF ProjectInv, ShellOk

(* All that a step changes of a shell.                                       *)
Continues(n, h) ==
    /\ DOMAIN n = DOMAIN h /\ n.errands = h.errands /\ n.command = h.command /\ n.source = h.source /\ n.alone = h.alone

LEMMA BusyShell ==
  ASSUME ProjectInv, NEW s \in Shells, Busy(s), NEW h, h = shells[s]
  PROVE  /\ h.command \in Errands /\ Usable(h.command, h.source) /\ PhaseFits(h)
         /\ LeftFits(h, Planned(s, h.command, h.source))
         /\ h.alone => Undisturbed(s, h, h.command)
<1>1. ShellOk(s, h) /\ AloneOk(s, h)
  BY ShellFacts
<1>2. Underway(h)
  BY DEF Busy, Underway
<1> QED
  BY <1>1, <1>2 DEF ShellOk, AloneOk

LEMMA EndKeeps ==
  ASSUME ProjectInv, NEW s \in Shells, Busy(s), NEW h, h = shells[s], NEW n, Turned(s, n), Continues(n, h),
         n.overwrote = h.overwrote, n.pc \in {"failed", "killed"}, DiskOk',
         n.pc = "failed" => Temporary(s)' = {}, \A t \in Shells \ {s} : Temporary(t)' = Temporary(t)
  PROVE  ProjectInv'
<1>1. ShellOk(s, h) /\ AloneOk(s, h) /\ TempOk(s, h)
  BY ShellFacts
<1>2. ~Underway(n)
  BY DEF Underway
<1>3. ShellOk(s, n)
  BY <1>1, <1>2 DEF ShellOk, Continues
<1>4. TempOk(s, n)'
  <2>1. n.pc = "killed" \/ Temporary(s)' = {}
    OBVIOUS
  <2> QED
    BY <2>1 DEF TempOk
<1>5. AloneOk(s, n)'
  <2>1. ASSUME n.alone, NEW t \in Shells \ {s}
        PROVE  ~Busy(t)'
    <3>1. ~Busy(t)
      BY <1>1, <2>1 DEF AloneOk, Continues
    <3>2. shells'[t] = shells[t]
      BY DEF Turned
    <3> QED
      BY <3>1, <3>2 DEF Busy
  <2> QED
    BY <1>2, <2>1 DEF AloneOk
<1> QED
  BY <1>3, <1>4, <1>5, StepKeeps

LEMMA TurnKeeps ==
  ASSUME ProjectInv, NEW s \in Shells, Busy(s), NEW h, h = shells[s], NEW n, Turned(s, n), Continues(n, h),
         n.pc \in {"stat", "write", "docker", "run", "apply", "rollout", "done"}, n.overwrote => ~n.alone,
         PhaseFits(n), LeftFits(n, Planned(s, h.command, h.source)), DiskOk',
         n.pc = "done" => Temporary(s)' = {},
         Temporary(s)' # {} => h.command.op = "deploy fleet to k8s",
         \A t \in Shells \ {s} : Temporary(t)' = Temporary(t),
         n.alone => Undisturbed(s, n, h.command)'
  PROVE  ProjectInv'
<1>1. ShellOk(s, h) /\ AloneOk(s, h) /\ TempOk(s, h)
  BY ShellFacts
<1>2. h.command \in Errands /\ Usable(h.command, h.source)
  BY BusyShell
<1>3. ShellOk(s, n)
  BY <1>1, <1>2 DEF ShellOk, Continues
<1>4. TempOk(s, n)'
  <2>1. n.pc # "done" => Busy(s)'
    BY DEF Busy, Turned
  <2> QED
    BY <2>1 DEF TempOk, Continues
<1>5. AloneOk(s, n)'
  <2>1. ASSUME n.alone, NEW t \in Shells \ {s}
        PROVE  ~Busy(t)'
    <3>1. ~Busy(t)
      BY <1>1, <2>1 DEF AloneOk, Continues
    <3>2. shells'[t] = shells[t]
      BY DEF Turned
    <3> QED
      BY <3>1, <3>2 DEF Busy
  <2>2. n.alone => Undisturbed(s, n, n.command)'
    BY DEF Continues
  <2> QED
    BY <2>1, <2>2 DEF AloneOk
<1> QED
  BY <1>3, <1>4, <1>5, StepKeeps

LEMMA QuietDisk ==
  ASSUME ProjectInv, disk' = disk
  PROVE  /\ DiskOk' /\ \A t : Temporary(t)' = Temporary(t) /\ \A c : Sources(c)' = Sources(c)
<1>1. DiskOk
  BY DEF ProjectInv
<1> QED
  BY <1>1, SourcesStay DEF DiskOk, Temporary

LEMMA OneElement ==
  ASSUME NEW S
  PROVE  <<S>> \in Seq(SUBSET S) /\ <<S>> # <<>> /\ AllOf(<<S>>) = S
BY DEF AllOf

LEMMA StatKeeps ==
  ASSUME ProjectInv, NEW s \in Shells, Stat(s)
  PROVE  ProjectInv'
<1>1. PICK h : h = shells[s]
  OBVIOUS
<1>2. PICK n : n = shells'[s]
  OBVIOUS
<1>3. h.pc = "stat" /\ Busy(s) /\ disk' = disk
  BY <1>1 DEF Stat, Busy
<1>4. /\ ShellOk(s, h) /\ TempOk(s, h) /\ DOMAIN shells = Shells
      /\ DOMAIN h = {"errands", "pc", "command", "source", "left", "wrote", "alone", "overwrote"}
  BY <1>1, ShellFacts
<1>5. /\ h.command \in Errands /\ Usable(h.command, h.source) /\ PhaseFits(h)
      /\ LeftFits(h, Planned(s, h.command, h.source)) /\ (h.alone => Undisturbed(s, h, h.command))
  BY <1>1, <1>3, BusyShell
<1>6. h.command.op \in WithDocker
  BY <1>3, <1>5 DEF PhaseFits
<1>7. Planned(s, h.command, h.source) = TheDockerfile
  BY <1>6 DEF Planned
<1>8. /\ DiskOk' /\ \A t : Temporary(t)' = Temporary(t)
      /\ \A c : Sources(c)' = Sources(c)
  BY <1>3, QuietDisk
<1>9. h.command.op # "deploy fleet to k8s"
  BY <1>6 DEF WithDocker
<1>10. CASE Dockerfile \in DOMAIN disk
  <2>1. shells' = [shells EXCEPT ![s].pc = "docker"]
    BY <1>10 DEF Stat
  <2>2. Turned(s, n) /\ Continues(n, h) /\ n.overwrote = h.overwrote /\ n.pc = "docker" /\ n.wrote = h.wrote
    BY <1>1, <1>2, <1>4, <2>1 DEF Turned, Continues
  <2>3. PhaseFits(n) /\ LeftFits(n, Planned(s, h.command, h.source))
    BY <1>5, <1>6, <2>2 DEF PhaseFits, LeftFits, Continues
  <2>4. n.alone => Undisturbed(s, n, h.command)'
    BY <1>3, <1>5, <1>6, <1>8, <1>9, <1>10, <2>2 DEF Undisturbed, Continues
  <2> QED
    BY <1>1, <1>3, <1>4, <1>8, <1>9, <2>2, <2>3, <2>4, TurnKeeps DEF ShellOk, TempOk, Continues
<1>11. CASE Dockerfile \notin DOMAIN disk
  <2>1. shells' = [shells EXCEPT ![s].pc = "write", ![s].left = <<TheDockerfile>>]
    BY <1>11 DEF Stat, TheDockerfile
  <2>2. /\ Turned(s, n) /\ Continues(n, h) /\ n.overwrote = h.overwrote /\ n.pc = "write" /\ n.wrote = h.wrote
        /\ n.left = <<TheDockerfile>>
    BY <1>1, <1>2, <1>4, <2>1 DEF Turned, Continues
  <2>3. PhaseFits(n) /\ LeftFits(n, Planned(s, h.command, h.source))
    BY <1>5, <1>6, <1>7, <2>2, OneElement DEF PhaseFits, LeftFits, Continues
  <2>4. n.alone => Undisturbed(s, n, h.command)'
    BY <1>3, <1>5, <1>6, <1>7, <1>8, <1>9, <1>11, <2>2, OneElement DEF Undisturbed, Continues
  <2> QED
    BY <1>1, <1>3, <1>4, <1>8, <1>9, <2>2, <2>3, <2>4, TurnKeeps DEF ShellOk, TempOk, Continues
<1> QED
  BY <1>10, <1>11

LEMMA DockerStepKeeps ==
  ASSUME ProjectInv, NEW s \in Shells, DockerStep(s)
  PROVE  ProjectInv'
<1>1. PICK h : h = shells[s]
  OBVIOUS
<1>2. PICK n : n = shells'[s]
  OBVIOUS
<1>3. h.pc \in {"docker", "run"} /\ Busy(s) /\ disk' = disk
  BY <1>1 DEF DockerStep, Busy
<1>4. /\ ShellOk(s, h) /\ TempOk(s, h) /\ DOMAIN shells = Shells
      /\ DOMAIN h = {"errands", "pc", "command", "source", "left", "wrote", "alone", "overwrote"}
  BY <1>1, ShellFacts
<1>5. /\ h.command \in Errands /\ Usable(h.command, h.source) /\ PhaseFits(h)
      /\ LeftFits(h, Planned(s, h.command, h.source)) /\ (h.alone => Undisturbed(s, h, h.command))
  BY <1>1, <1>3, BusyShell
<1>6. h.command.op \in WithDocker /\ h.command.op # "deploy fleet to k8s"
  BY <1>3, <1>5 DEF PhaseFits, WithDocker
<1>7. PICK to : to = IF h.pc = "docker" /\ h.command.op # "docker build" THEN "run" ELSE "done"
  OBVIOUS
<1>8. /\ DiskOk' /\ \A t : Temporary(t)' = Temporary(t)
      /\ \A c : Sources(c)' = Sources(c)
  BY <1>3, QuietDisk
<1>9. shells' = [shells EXCEPT ![s].pc = to]
  BY <1>1, <1>7 DEF DockerStep
<1>10. /\ Turned(s, n) /\ Continues(n, h) /\ n.overwrote = h.overwrote /\ n.pc = to /\ n.wrote = h.wrote
       /\ to \in {"run", "done"}
  BY <1>1, <1>2, <1>4, <1>7, <1>9 DEF Turned, Continues
<1>11. PhaseFits(n) /\ LeftFits(n, Planned(s, h.command, h.source))
  BY <1>5, <1>6, <1>10 DEF PhaseFits, LeftFits, Continues
<1>12. n.alone => Undisturbed(s, n, h.command)'
  BY <1>3, <1>5, <1>6, <1>8, <1>10 DEF Undisturbed, Continues
<1>13. Temporary(s)' = {}
  BY <1>3, <1>4, <1>6, <1>8 DEF TempOk
<1> QED
  BY <1>1, <1>3, <1>4, <1>8, <1>10, <1>11, <1>12, <1>13, TurnKeeps DEF ShellOk, Continues

LEMMA RemovingKeeps ==
  ASSUME ProjectInv, NEW s, disk' = DiskWithout(Temporary(s))
  PROVE  /\ DiskOk' /\ Temporary(s)' = {} /\ \A t : t # s => Temporary(t)' = Temporary(t)
         /\ \A c : Sources(c)' = Sources(c)
<1>1. DOMAIN disk' = DOMAIN disk \ Temporary(s) /\ \A p \in DOMAIN disk' : disk'[p] = disk[p]
  BY DEF DiskWithout
<1>2. AgentFile[1] = "configs" /\ FleetFile[1] = "configs"
  BY DEF AgentFile, FleetFile
<1>3. AgentFile \notin Temporary(s) /\ FleetFile \notin Temporary(s)
  BY <1>2 DEF Temporary
<1>4. \A c : Sources(c)' = Sources(c)
  BY <1>1, <1>3, SourcesStay
<1>5. DiskOk'
  BY <1>1 DEF ProjectInv, DiskOk
<1>6. Temporary(s)' = {} /\ \A t : t # s => Temporary(t)' = Temporary(t)
  BY <1>1 DEF Temporary
<1> QED
  BY <1>4, <1>5, <1>6

LEMMA KubectlStepKeeps ==
  ASSUME ProjectInv, NEW s \in Shells, KubectlStep(s)
  PROVE  ProjectInv'
<1>1. PICK h : h = shells[s]
  OBVIOUS
<1>2. PICK n : n = shells'[s]
  OBVIOUS
<1>3. h.pc \in {"apply", "rollout"} /\ Busy(s)
  BY <1>1 DEF KubectlStep, Busy
<1>4. /\ ShellOk(s, h) /\ TempOk(s, h) /\ DOMAIN shells = Shells
      /\ DOMAIN h = {"errands", "pc", "command", "source", "left", "wrote", "alone", "overwrote"}
  BY <1>1, ShellFacts
<1>5. /\ h.command \in Errands /\ Usable(h.command, h.source) /\ PhaseFits(h)
      /\ LeftFits(h, Planned(s, h.command, h.source)) /\ (h.alone => Undisturbed(s, h, h.command))
  BY <1>1, <1>3, BusyShell
<1>6. h.command.op = "deploy fleet to k8s" /\ h.command.op \notin WithDocker
  BY <1>3, <1>5 DEF PhaseFits, WithDocker
<1>7. PICK to : to = IF h.pc = "apply" THEN "rollout" ELSE "done"
  OBVIOUS
<1>8. /\ DiskOk' /\ \A t : t # s => Temporary(t)' = Temporary(t)
      /\ \A c : Sources(c)' = Sources(c)
      /\ h.pc = "rollout" => Temporary(s)' = {}
  <2>1. CASE h.pc = "rollout"
    <3>1. disk' = DiskWithout(Temporary(s))
      BY <1>1, <2>1 DEF KubectlStep
    <3> QED
      BY <3>1, RemovingKeeps
  <2>2. CASE h.pc # "rollout"
    <3>1. disk' = disk
      BY <1>1, <2>2 DEF KubectlStep
    <3> QED
      BY <2>2, <3>1, QuietDisk
  <2> QED
    BY <2>1, <2>2
<1>9. shells' = [shells EXCEPT ![s].pc = to]
  BY <1>1, <1>7 DEF KubectlStep
<1>10. /\ Turned(s, n) /\ Continues(n, h) /\ n.overwrote = h.overwrote /\ n.pc = to /\ n.wrote = h.wrote
       /\ to \in {"rollout", "done"}
  BY <1>1, <1>2, <1>4, <1>7, <1>9 DEF Turned, Continues
<1>11. PhaseFits(n) /\ LeftFits(n, Planned(s, h.command, h.source))
  BY <1>5, <1>6, <1>10 DEF PhaseFits, LeftFits, Continues
<1>12. n.alone => Undisturbed(s, n, h.command)'
  BY <1>3, <1>5, <1>6, <1>8, <1>10 DEF Undisturbed, Continues, Planned
<1>13. n.pc = "done" => Temporary(s)' = {}
  BY <1>3, <1>7, <1>8, <1>10
<1> QED
  BY <1>1, <1>3, <1>4, <1>6, <1>8, <1>10, <1>11, <1>12, <1>13, TurnKeeps DEF ShellOk, Continues

(* A file that is cut off.                                                   *)
LEMMA LeavesFit ==
  ASSUME ProjectInv, NEW s \in Shells, Busy(s), NEW todo \in Leaves(s)
  PROVE  \/ todo = disk
         \/ \E w : todo = DiskWith(w[1], Partial) /\ WriteFits(s, shells[s].command.op, w)
<1>1. PICK h : h = shells[s]
  OBVIOUS
<1>2. CASE todo # disk
  <2>1. h.pc = "write"
    BY <1>1, <1>2 DEF Leaves
  <2>2. PICK w \in Head(h.left) : todo = DiskWith(w[1], Partial)
    BY <1>1, <1>2, <2>1 DEF Leaves
  <2>3. PICK writes : writes = Planned(s, h.command, h.source)
    OBVIOUS
  <2>4. h.command \in Errands /\ Usable(h.command, h.source) /\ LeftFits(h, writes)
    BY <1>1, <2>3, BusyShell
  <2>5. h.left \in Seq(SUBSET writes) /\ h.left # <<>>
    BY <2>1, <2>4 DEF LeftFits
  <2>6. w \in writes
    <3>1. Head(h.left) \in SUBSET writes
      BY <2>5
    <3> QED
      BY <2>2, <3>1
  <2>7. WriteFits(s, h.command.op, w)
    BY <2>3, <2>4, <2>6, PlanOk
  <2> QED
    BY <1>1, <2>2, <2>7
<1> QED
  BY <1>2

LEMMA Cut ==
  ASSUME ProjectInv, NEW s \in Shells, NEW w, NEW op, WriteFits(s, op, w), Rewritten(w[1], Partial)
  PROVE  DiskOk' /\ \A t : t # s => Temporary(t)' = Temporary(t)
<1>1. ContentFits(w[1], Partial)
  BY Contents DEF ContentFits
<1>2. DiskOk
  BY DEF ProjectInv
<1>3. DiskOk'
  BY <1>1, <1>2, WritingKeepsDisk
<1>4. ASSUME NEW t, t # s
      PROVE  Temporary(t)' = Temporary(t)
  <2>1. ~(w[1][1] = "temp" /\ w[1][2] = t)
    BY <1>4 DEF WriteFits, PathFits
  <2> QED
    BY <2>1, WritingTemporary
<1> QED
  BY <1>3, <1>4

LEMMA KillKeeps ==
  ASSUME ProjectInv, NEW s \in Shells, Kill(s)
  PROVE  ProjectInv'
<1>1. PICK h : h = shells[s]
  OBVIOUS
<1>2. PICK n : n = shells'[s]
  OBVIOUS
<1>3. Busy(s) /\ shells' = [shells EXCEPT ![s].pc = "killed"] /\ disk' \in Leaves(s)
  BY DEF Kill
<1>4. /\ DOMAIN shells = Shells
      /\ DOMAIN h = {"errands", "pc", "command", "source", "left", "wrote", "alone", "overwrote"}
  BY <1>1, ShellFacts
<1>5. Turned(s, n) /\ Continues(n, h) /\ n.overwrote = h.overwrote /\ n.pc = "killed"
  BY <1>1, <1>2, <1>3, <1>4 DEF Turned, Continues
<1>6. DiskOk' /\ \A t : t # s => Temporary(t)' = Temporary(t)
  <2>1. CASE disk' = disk
    BY <2>1, QuietDisk
  <2>2. CASE disk' # disk
    <3>1. PICK w : disk' = DiskWith(w[1], Partial) /\ WriteFits(s, shells[s].command.op, w)
      BY <1>3, <2>2, LeavesFit
    <3>2. Rewritten(w[1], Partial)
      BY <3>1, DiskWritten
    <3> QED
      BY <3>1, <3>2, Cut
  <2> QED
    BY <2>1, <2>2
<1> QED
  BY <1>1, <1>3, <1>5, <1>6, EndKeeps

LEMMA FailKeeps ==
  ASSUME ProjectInv, NEW s \in Shells, Fail(s)
  PROVE  ProjectInv'
<1>1. PICK h : h = shells[s]
  OBVIOUS
<1>2. PICK n : n = shells'[s]
  OBVIOUS
<1>3. Busy(s) /\ shells' = [shells EXCEPT ![s].pc = "failed"]
  BY DEF Fail
<1>4. PICK todo \in Leaves(s) : disk' = [p \in DOMAIN todo \ {q \in DOMAIN todo : q[1] = "temp" /\ q[2] = s} |-> todo[p]]
  BY DEF Fail
<1>5. /\ DOMAIN disk' = {p \in DOMAIN todo : ~(p[1] = "temp" /\ p[2] = s)}
      /\ \A p \in DOMAIN disk' : disk'[p] = todo[p]
  BY <1>4
<1>6. /\ DOMAIN shells = Shells /\ DiskOk
      /\ DOMAIN h = {"errands", "pc", "command", "source", "left", "wrote", "alone", "overwrote"}
  BY <1>1, ShellFacts
<1>7. Turned(s, n) /\ Continues(n, h) /\ n.overwrote = h.overwrote /\ n.pc = "failed"
  BY <1>1, <1>2, <1>3, <1>6 DEF Turned, Continues
<1>8. Temporary(s)' = {}
  BY <1>5 DEF Temporary
<1>9. DiskOk' /\ \A t : t # s => Temporary(t)' = Temporary(t)
  <2>1. CASE todo = disk
    BY <1>5, <1>6, <2>1 DEF DiskOk, Temporary
  <2>2. CASE todo # disk
    <3>1. PICK w : todo = DiskWith(w[1], Partial) /\ WriteFits(s, shells[s].command.op, w)
      BY <1>3, <2>2, LeavesFit
    <3>2. /\ DOMAIN todo = DOMAIN disk \cup {w[1]} /\ todo[w[1]] = Partial
          /\ \A p \in DOMAIN disk \ {w[1]} : todo[p] = disk[p]
      BY <3>1 DEF DiskWith
    <3>3. ASSUME NEW p \in DOMAIN disk'
          PROVE  /\ disk'[p] = Operators => p = Dockerfile
                 /\ p = FleetFile /\ disk'[p].kind = "file" => Shaped(disk'[p].file)
      <4>1. CASE p = w[1]
        BY <1>5, <3>2, <3>3, <4>1, Contents
      <4>2. CASE p # w[1]
        <5>1. p \in DOMAIN disk /\ disk'[p] = disk[p]
          BY <1>5, <3>2, <3>3, <4>2
        <5> QED
          BY <1>6, <5>1 DEF DiskOk
      <4> QED
        BY <4>1, <4>2
    <3>4. ASSUME NEW t, t # s
          PROVE  Temporary(t)' = Temporary(t)
      <4>1. ~(w[1][1] = "temp" /\ w[1][2] = t)
        BY <3>1, <3>4 DEF WriteFits, PathFits
      <4> QED
        BY <1>5, <3>2, <3>4, <4>1 DEF Temporary
    <3> QED
      BY <3>3, <3>4 DEF DiskOk
  <2> QED
    BY <2>1, <2>2
<1> QED
  BY <1>1, <1>3, <1>7, <1>8, <1>9, EndKeeps

LEMMA Rest ==
  ASSUME NEW writes, NEW todo \in Seq(SUBSET writes), todo # <<>>, NEW w \in Head(todo), NEW first,
         Head(todo) = {w} => first = <<>>, Head(todo) # {w} => first = <<Head(todo) \ {w}>>,
         NEW rest, rest = first \o Tail(todo)
  PROVE  /\ w \in writes /\ rest \in Seq(SUBSET writes)
         /\ AllOf(todo) \subseteq AllOf(rest) \cup {w}
         /\ Len(todo) = 1 /\ todo[1] = {w} => rest = <<>>
<1>1. PICK more : more = Tail(todo)
  OBVIOUS
<1>2. Head(todo) = todo[1] /\ todo[1] \in SUBSET writes /\ Len(todo) \in Nat \ {0} /\ DOMAIN todo = 1 .. Len(todo)
  OBVIOUS
<1>3. more \in Seq(SUBSET writes) /\ Len(more) = Len(todo) - 1 /\ \A i \in 1 .. Len(todo) - 1 : more[i] = todo[i + 1]
  BY <1>1
<1>4. first \in Seq(SUBSET writes) /\ Head(todo) \subseteq AllOf(first) \cup {w}
  <2>1. CASE Head(todo) = {w}
    <3>1. first = <<>>
      BY <2>1
    <3> QED
      BY <2>1, <3>1
  <2>2. CASE Head(todo) # {w}
    <3>1. first = <<Head(todo) \ {w}>>
      BY <1>1, <2>2
    <3>2. AllOf(first) = Head(todo) \ {w}
      BY <3>1, OneElement
    <3>3. first \in Seq(SUBSET writes)
      BY <1>2, <3>1
    <3> QED
      BY <3>2, <3>3
  <2> QED
    BY <2>1, <2>2
<1>5. rest \in Seq(SUBSET writes) /\ AllOf(rest) = AllOf(first) \cup AllOf(more)
  <2>1. rest = first \o more
    BY <1>1
  <2> QED
    <3>1. first \o more \in Seq(SUBSET writes) /\ AllOf(first \o more) = AllOf(first) \cup AllOf(more)
      <4>1. PICK S : S = SUBSET writes
        OBVIOUS
      <4>2. first \in Seq(S) /\ more \in Seq(S)
        BY <1>3, <1>4, <4>1
      <4>3. first \o more \in Seq(S) /\ AllOf(first \o more) = AllOf(first) \cup AllOf(more)
        BY <4>2, AllOfBoth
      <4> QED
        BY <4>1, <4>3
    <3> QED
      BY <2>1, <3>1, Zenon
<1>6. AllOf(todo) \subseteq Head(todo) \cup AllOf(more)
  <2>1. ASSUME NEW x \in AllOf(todo)
        PROVE  x \in todo[1] \cup AllOf(more)
    <3>1. PICK i \in 1 .. Len(todo) : x \in todo[i]
      BY <1>2, <2>1 DEF AllOf
    <3>2. CASE i # 1
      <4>1. PICK j : j = i - 1
        OBVIOUS
      <4>2. j \in 1 .. Len(todo) - 1 /\ todo[j + 1] = todo[i]
        BY <1>2, <3>1, <3>2, <4>1
      <4>3. DOMAIN more = 1 .. Len(todo) - 1
        BY <1>2, <1>3
      <4>4. j \in DOMAIN more /\ x \in more[j]
        BY <1>3, <3>1, <4>2, <4>3
      <4> QED
        BY <4>4 DEF AllOf
    <3> QED
      BY <3>1, <3>2
  <2> QED
    BY <1>2, <2>1
<1>7. ASSUME Len(todo) = 1, todo[1] = {w}
      PROVE  rest = <<>>
  <2>1. first = <<>>
    BY <1>1, <1>2, <1>7
  <2>2. more = <<>>
    BY <1>3, <1>7
  <2> QED
    BY <1>1, <2>1, <2>2
<1> QED
  BY <1>2, <1>4, <1>5, <1>6, <1>7

LEMMA WriteKeeps ==
  ASSUME ProjectInv, NEW s \in Shells, Write(s)
  PROVE  ProjectInv'
<1>1. PICK h : h = shells[s]
  OBVIOUS
<1>2. PICK n : n = shells'[s]
  OBVIOUS
<1>3. h.pc = "write" /\ Busy(s)
  BY <1>1 DEF Write, Busy
<1>4. /\ ShellOk(s, h) /\ TempOk(s, h) /\ DOMAIN shells = Shells /\ DiskOk
      /\ DOMAIN h = {"errands", "pc", "command", "source", "left", "wrote", "alone", "overwrote"}
  BY <1>1, ShellFacts
<1>5. PICK c, writes : c = h.command /\ writes = Planned(s, c, h.source)
  OBVIOUS
<1>6. c \in Errands /\ Usable(c, h.source) /\ PhaseFits(h) /\ LeftFits(h, writes) /\ (h.alone => Undisturbed(s, h, c))
  BY <1>1, <1>3, <1>5, BusyShell
<1>7. (\A w \in writes : WriteFits(s, c.op, w)) /\ OnePerPath(writes)
  BY <1>5, <1>6, PlanOk
<1>8. PICK w \in Head(h.left) :
          LET rest == (IF Head(h.left) = {w} THEN <<>> ELSE <<Head(h.left) \ {w}>>) \o Tail(h.left)
              op == c.op
          IN  /\ w[2] # Unwritable
              /\ disk' = DiskWith(w[1], w[2])
              /\ shells' = [shells EXCEPT ![s].left = rest, ![s].wrote = @ \union {w},
                                          ![s].overwrote = @ \/ (w[1] \in DOMAIN disk /\ disk[w[1]] = Operators),
                                          ![s].pc = IF rest # <<>> THEN "write"
                                                    ELSE IF op \in WithDocker THEN "docker"
                                                    ELSE IF op = "deploy fleet to k8s" THEN "apply" ELSE "done"]
  BY <1>1, <1>5, Zenon DEF Write
<1>9. PICK rest : rest = (IF Head(h.left) = {w} THEN <<>> ELSE <<Head(h.left) \ {w}>>) \o Tail(h.left)
  OBVIOUS
<1>10. PICK to : to = IF rest # <<>> THEN "write" ELSE IF c.op \in WithDocker THEN "docker"
                      ELSE IF c.op = "deploy fleet to k8s" THEN "apply" ELSE "done"
  OBVIOUS
<1>11. PICK over : over = (h.overwrote \/ (w[1] \in DOMAIN disk /\ disk[w[1]] = Operators))
  OBVIOUS
<1>12. shells' = [shells EXCEPT ![s].left = rest, ![s].wrote = @ \union {w},
                                ![s].overwrote = @ \/ (w[1] \in DOMAIN disk /\ disk[w[1]] = Operators), ![s].pc = to]
  BY <1>8, <1>9, <1>10, Zenon
<1>13. /\ Turned(s, n) /\ Continues(n, h) /\ n.overwrote = over /\ n.pc = to /\ n.wrote = h.wrote \cup {w}
       /\ n.left = rest
  BY <1>1, <1>2, <1>4, <1>11, <1>12 DEF Turned, Continues
<1>14. h.left \in Seq(SUBSET writes) /\ h.left # <<>> /\ h.wrote \subseteq writes /\ \A v \in h.wrote : v[2] # Unwritable
  BY <1>3, <1>6 DEF LeftFits
<1>15. /\ w \in writes /\ rest \in Seq(SUBSET writes) /\ AllOf(h.left) \subseteq AllOf(rest) \cup {w}
       /\ Len(h.left) = 1 /\ h.left[1] = {w} => rest = <<>>
  <2>1. PICK todo : todo = h.left
    OBVIOUS
  <2>2. todo \in Seq(SUBSET writes) /\ todo # <<>> /\ w \in Head(todo)
    BY <1>8, <1>14, <2>1
  <2>3. PICK first : first = (IF Head(todo) = {w} THEN <<>> ELSE <<Head(todo) \ {w}>>)
    OBVIOUS
  <2>6. rest = first \o Tail(todo)
    BY <1>9, <2>1, <2>3, Zenon
  <2>7. (Head(todo) = {w} => first = <<>>) /\ (Head(todo) # {w} => first = <<Head(todo) \ {w}>>)
    BY <2>3, Zenon
  <2>4. /\ w \in writes /\ rest \in Seq(SUBSET writes) /\ AllOf(todo) \subseteq AllOf(rest) \cup {w}
        /\ Len(todo) = 1 /\ todo[1] = {w} => rest = <<>>
    BY <2>2, <2>6, <2>7, Rest, ZenonT(60)
  <2> QED
    BY <2>1, <2>4
<1>16. w[2] # Unwritable /\ Rewritten(w[1], w[2]) /\ WriteFits(s, c.op, w)
  BY <1>7, <1>8, <1>15, DiskWritten
<1>17. /\ DiskOk' /\ \A t : t # s => Temporary(t)' = Temporary(t)
       /\ c.op # "deploy fleet to k8s" => Temporary(s)' = Temporary(s)
  <2>1. DiskOk'
    BY <1>4, <1>16, WritingKeepsDisk DEF WriteFits
  <2>2. ASSUME NEW t, t # s \/ c.op # "deploy fleet to k8s"
        PROVE  Temporary(t)' = Temporary(t)
    <3>1. ~(w[1][1] = "temp" /\ w[1][2] = t)
      BY <1>16, <2>2 DEF WriteFits, PathFits
    <3> QED
      BY <1>16, <3>1, WritingTemporary
  <2> QED
    BY <2>1, <2>2
<1>18. c.op \notin {"init", "multi init"} => Sources(c)' = Sources(c)
  <2>1. ASSUME c.op \notin {"init", "multi init"}
        PROVE  Sources(c)' = Sources(c)
    <3>1. w[1] \notin {AgentFile, FleetFile}
      BY <1>16, <2>1 DEF WriteFits, PathFits
    <3> QED
      BY <1>16, <3>1, SourcesStay DEF Rewritten
  <2> QED
    BY <2>1
<1>19. Temporary(s)' # {} => c.op = "deploy fleet to k8s"
  BY <1>3, <1>4, <1>5, <1>17 DEF TempOk
<1>20. c.op \in WithDocker => rest = <<>> /\ w[1] = Dockerfile
  <2>1. ASSUME c.op \in WithDocker
        PROVE  rest = <<>> /\ w[1] = Dockerfile
    <3>1. PICK g : g = <<Dockerfile, Other("generated")>>
      OBVIOUS
    <3>2. h.left = <<{g}>> /\ g[1] = Dockerfile
      BY <1>3, <1>5, <1>6, <2>1, <3>1 DEF PhaseFits, TheDockerfile, Only
    <3>3. Head(h.left) = {g} /\ Len(h.left) = 1 /\ h.left[1] = {g}
      BY <3>2
    <3> QED
      BY <1>8, <1>15, <3>2, <3>3
  <2> QED
    BY <2>1
<1>21. PhaseFits(n) /\ LeftFits(n, writes)
  BY <1>5, <1>10, <1>13, <1>14, <1>15, <1>16, <1>20 DEF PhaseFits, LeftFits, Continues
<1>22. n.overwrote => ~n.alone
  <2>1. ASSUME h.alone, w[1] \in DOMAIN disk, disk[w[1]] = Operators
        PROVE  FALSE
    <3>1. w[1] = Dockerfile /\ c.op \in WithDocker
      BY <1>4, <1>16, <2>1 DEF DiskOk, WriteFits, PathFits
    <3> QED
      BY <1>3, <1>6, <2>1, <3>1 DEF Undisturbed
  <2>2. h.overwrote => ~h.alone
    BY <1>4 DEF ShellOk
  <2>3. n.overwrote => h.overwrote \/ (w[1] \in DOMAIN disk /\ disk[w[1]] = Operators)
    BY <1>11, <1>13
  <2> QED
    BY <1>13, <2>1, <2>2, <2>3 DEF Continues
<1>23. n.alone => Undisturbed(s, n, c)'
  <2>1. SUFFICES ASSUME n.alone
                 PROVE  Undisturbed(s, n, c)'
    OBVIOUS
  <2>2. Undisturbed(s, h, c)
    BY <1>6, <1>13, <2>1 DEF Continues
  <2>3. c.op \notin {"init", "multi init"} => n.source \in Sources(c)'
    BY <1>13, <1>18, <2>2 DEF Undisturbed, Continues
  <2>4. c.op # "deploy fleet to k8s" => \A v \in n.wrote : v[1] \in DOMAIN disk' /\ disk'[v[1]] = v[2]
    <3>1. ASSUME c.op # "deploy fleet to k8s", NEW v \in n.wrote, v # w
          PROVE  v[1] \in DOMAIN disk' /\ disk'[v[1]] = v[2]
      <4>1. v \in h.wrote /\ v[1] # w[1]
        BY <1>7, <1>13, <1>14, <1>15, <3>1 DEF OnePerPath
      <4> QED
        BY <1>16, <2>2, <3>1, <4>1 DEF Undisturbed, Rewritten
    <3>2. w[1] \in DOMAIN disk' /\ disk'[w[1]] = w[2]
      BY <1>16 DEF Rewritten
    <3> QED
      BY <3>1, <3>2
  <2>5. writes \subseteq n.wrote \union AllOf(n.left)
    BY <1>3, <1>5, <1>13, <1>15, <2>2 DEF Undisturbed
  <2>6. n.pc # "write" => AllOf(n.left) = {}
    <3>1. n.pc # "write" => n.left = <<>>
      BY <1>10, <1>13
    <3>2. AllOf(<<>>) = {}
      BY DEF AllOf
    <3> QED
      BY <3>1, <3>2
  <2>7. c.op \in WithDocker => n.pc = "docker" /\ Dockerfile \in DOMAIN disk'
    BY <1>10, <1>13, <1>16, <1>20 DEF Rewritten
  <2>8. Planned(s, c, n.source) = writes
    BY <1>5, <1>13 DEF Continues
  <2>9. n.pc \in {"write", "docker", "apply", "done"}
    BY <1>10, <1>13
  <2> HIDE DEF Planned
  <2> QED
    BY <2>3, <2>4, <2>5, <2>6, <2>7, <2>8, <2>9 DEF Undisturbed
<1>24. n.pc = "done" => Temporary(s)' = {}
  BY <1>10, <1>13, <1>19
<1> QED
  <2>1. n.pc \in {"stat", "write", "docker", "run", "apply", "rollout", "done"}
    BY <1>10, <1>13
  <2> QED
    BY <1>1, <1>3, <1>5, <1>13, <1>17, <1>19, <1>21, <1>22, <1>23, <1>24, <2>1, TurnKeeps

LEMMA Interrupted ==
  ASSUME ProjectInv, NEW t \in Shells, shells'[t] = [shells[t] EXCEPT !.alone = FALSE], Temporary(t)' = Temporary(t)
  PROVE  ShellOk(t, shells'[t]) /\ TempOk(t, shells[t])' /\ AloneOk(t, shells[t])'
<1>1. PICK g, m : g = shells[t] /\ m = shells'[t]
  OBVIOUS
<1>2. /\ ShellOk(t, g) /\ TempOk(t, g)
      /\ DOMAIN g = {"errands", "pc", "command", "source", "left", "wrote", "alone", "overwrote"}
  BY <1>1, ShellFacts
<1>3. /\ DOMAIN m = DOMAIN g /\ m.errands = g.errands /\ m.pc = g.pc /\ m.command = g.command /\ m.source = g.source
      /\ m.left = g.left /\ m.wrote = g.wrote /\ m.overwrote = g.overwrote /\ m.alone = FALSE
  BY <1>1, <1>2
<1>4. ShellOk(t, m)
  BY <1>2, <1>3 DEF ShellOk, Underway, PhaseFits, LeftFits
<1>5. Busy(t)' <=> Busy(t)
  BY <1>1, <1>3 DEF Busy
<1>6. TempOk(t, shells[t])'
  BY <1>1, <1>2, <1>3, <1>5 DEF TempOk
<1>7. AloneOk(t, shells[t])'
  BY <1>1, <1>3 DEF AloneOk
<1> QED
  BY <1>1, <1>4, <1>6, <1>7

LEMMA EditKeeps ==
  ASSUME ProjectInv, Edit
  PROVE  ProjectInv'
<1>1. Rewritten(Dockerfile, Operators) /\ shells' = [s \in Shells |-> [shells[s] EXCEPT !.alone = FALSE]]
  BY DiskWritten DEF Edit
<1>2. DiskOk'
  BY <1>1, EditKeepsDisk DEF ProjectInv
<1>3. ASSUME NEW t \in Shells
      PROVE  ShellOk(t, shells'[t]) /\ TempOk(t, shells[t])' /\ AloneOk(t, shells[t])'
  <2>1. Dockerfile[1] = "Dockerfile.agent"
    BY DEF Dockerfile
  <2>2. Temporary(t)' = Temporary(t)
    BY <1>1, <2>1, WritingTemporary
  <2>3. shells'[t] = [shells[t] EXCEPT !.alone = FALSE]
    BY <1>1
  <2> QED
    BY <2>2, <2>3, Interrupted
<1>4. DOMAIN shells' = Shells
  BY <1>1
<1> QED
  BY <1>2, <1>3, <1>4 DEF ProjectInv

LEMMA BeginKeeps ==
  ASSUME ProjectInv, NEW s \in Shells, NEW n, shells' = Runs(s, n), DiskOk', ShellOk(s, n),
         Temporary(s)' # {} => n.pc # "done" /\ Underway(n) /\ n.command.op = "deploy fleet to k8s",
         n.alone => (\A t \in Shells \ {s} : ~Busy(t)) /\ (Underway(n) => Undisturbed(s, n, n.command)'),
         \A t \in Shells \ {s} : Temporary(t)' = Temporary(t)
  PROVE  ProjectInv'
<1>1. /\ DOMAIN shells' = Shells /\ shells'[s] = n
      /\ \A t \in Shells \ {s} : shells'[t] = [shells[t] EXCEPT !.alone = FALSE]
  BY DEF Runs
<1>2. ASSUME NEW t \in Shells \ {s}
      PROVE  ShellOk(t, shells'[t]) /\ TempOk(t, shells[t])' /\ AloneOk(t, shells[t])' /\ (Busy(t)' <=> Busy(t))
  <2>1. shells'[t] = [shells[t] EXCEPT !.alone = FALSE] /\ Temporary(t)' = Temporary(t)
    BY <1>1
  <2>2. ShellOk(t, shells'[t]) /\ TempOk(t, shells[t])' /\ AloneOk(t, shells[t])'
    BY <2>1, Interrupted
  <2>3. PICK g : g = shells[t]
    OBVIOUS
  <2>4. DOMAIN g = {"errands", "pc", "command", "source", "left", "wrote", "alone", "overwrote"}
    BY <2>3, ShellFacts
  <2>5. shells'[t].pc = g.pc
    BY <2>1, <2>3, <2>4
  <2> QED
    BY <2>2, <2>3, <2>5 DEF Busy
<1>3. TempOk(s, n)'
  <2>1. Temporary(s)' # {} => Busy(s)'
    BY <1>1 DEF Underway, Busy
  <2> QED
    BY <2>1 DEF TempOk
<1>4. AloneOk(s, n)'
  <2>1. n.alone => \A t \in Shells \ {s} : ~Busy(t)'
    BY <1>2
  <2> QED
    BY <2>1 DEF AloneOk
<1>5. TempOk(s, shells[s])' /\ AloneOk(s, shells[s])'
  BY <1>1, <1>3, <1>4, Zenon DEF TempOk, AloneOk, Undisturbed
<1>6. ASSUME NEW t \in Shells
      PROVE  ShellOk(t, shells'[t]) /\ TempOk(t, shells[t])' /\ AloneOk(t, shells[t])'
  <2>1. CASE t = s
    BY <1>1, <1>5, <2>1
  <2>2. CASE t # s
    BY <1>2, <2>2
  <2> QED
    BY <2>1, <2>2
<1> QED
  BY <1>1, <1>6 DEF ProjectInv

Writing == {"init", "multi init", "generate docker", "generate k8s", "deploy fleet to k8s"}

LEMMA DirectoryFits ==
  ASSUME NEW s, NEW c, c.op \in Writing
  PROVE  /\ Directory(s, c) \notin {AgentFile, FleetFile, Dockerfile}
         /\ Directory(s, c)[1] = "temp" => c.op = "deploy fleet to k8s" /\ Directory(s, c)[2] = s
<1>1. AgentFile[1] = "configs" /\ FleetFile[1] = "configs" /\ Len(AgentFile) = 2 /\ Len(FleetFile) = 2
  <2>1. PICK x : x = <<"configs", "agent-config">>
    OBVIOUS
  <2>2. PICK y : y = <<"configs", "multi-agent">>
    OBVIOUS
  <2>3. x[1] = "configs" /\ y[1] = "configs" /\ Len(x) = 2 /\ Len(y) = 2
    BY <2>1, <2>2
  <2>4. x = AgentFile /\ y = FleetFile
    BY <2>1, <2>2 DEF AgentFile, FleetFile
  <2> QED
    BY <2>3, <2>4
<1>2. Dockerfile[1] = "Dockerfile.agent"
  BY DEF Dockerfile
<1>3. PICK d : d = Directory(s, c)
  OBVIOUS
<1>4. CASE c.op \in {"init", "multi init"}
  <2>1. d = <<"configs">>
    BY <1>3, <1>4 DEF Directory
  <2>2. d[1] = "configs" /\ Len(d) = 1
    BY <2>1
  <2>3. d # AgentFile /\ d # FleetFile
    <3>1. 1 # 2
      OBVIOUS
    <3> QED
      BY <1>1, <2>2, <3>1, Zenon
  <2>4. d # Dockerfile /\ d[1] # "temp"
    BY <1>2, <2>2
  <2> QED
    BY <1>3, <2>3, <2>4
<1>5. CASE c.op = "generate docker"
  <2>1. d = <<"deploy">>
    BY <1>3, <1>5 DEF Directory
  <2>2. d[1] = "deploy"
    BY <2>1
  <2> QED
    BY <1>1, <1>2, <1>3, <2>2
<1>6. CASE c.op = "generate k8s"
  <2>1. d = <<"k8s">>
    BY <1>3, <1>6 DEF Directory
  <2>2. d[1] = "k8s"
    BY <2>1
  <2> QED
    BY <1>1, <1>2, <1>3, <2>2
<1>7. CASE c.op = "deploy fleet to k8s"
  <2>1. d = <<"temp", s>>
    BY <1>3, <1>7 DEF Directory
  <2>2. d[1] = "temp" /\ d[2] = s
    BY <2>1
  <2> QED
    BY <1>1, <1>2, <1>3, <1>7, <2>2
<1> QED
  BY <1>4, <1>5, <1>6, <1>7 DEF Writing

LEMMA SourcesUsable ==
  ASSUME DiskOk, NEW c, NEW source \in Sources(c)
  PROVE  Usable(c, source)
<1>1. CASE c.op = "init"
  BY <1>1 DEF Sources, Usable
<1>2. CASE c.op = "multi init"
  BY <1>2 DEF Sources, Usable
<1>3. CASE c.op \in WithDocker
  BY <1>3 DEF Usable, WithDocker
<1>4. CASE c.op \notin {"init", "multi init"} \cup WithDocker
  <2>1. source \in {f \in AgentFiles(FleetFile) : LoadsFleet(f)}
    BY <1>4 DEF Sources, WithDocker
  <2>2. FleetFile \in DOMAIN disk /\ disk[FleetFile].kind = "file" /\ source = disk[FleetFile].file
    BY <2>1 DEF AgentFiles
  <2>3. Shaped(source)
    BY <2>2 DEF DiskOk
  <2> QED
    BY <1>4, <2>1, <2>3 DEF Usable, WithDocker
<1> QED
  BY <1>1, <1>2, <1>3, <1>4

LEMMA NoneYet ==
  ASSUME ProjectInv, NEW s \in Shells, shells[s].pc \in {"idle", "done", "failed"}
  PROVE  Temporary(s) = {}
<1>1. TempOk(s, shells[s])
  BY DEF ProjectInv
<1> QED
  BY <1>1 DEF TempOk, Busy

LEMMA EnterKeeps ==
  ASSUME ProjectInv, NEW s \in Shells, Enter(s)
  PROVE  ProjectInv'
<1>1. PICK h : h = shells[s]
  OBVIOUS
<1>2. h.pc \in {"idle", "done", "failed"} /\ h.errands # <<>>
  BY <1>1 DEF Enter
<1>3. ShellOk(s, h) /\ DiskOk /\ Temporary(s) = {}
  BY <1>1, <1>2, ShellFacts, NoneYet
<1>4. PICK c, quiet : c = Head(h.errands) /\ quiet = (\A t \in Shells \ {s} : ~Busy(t))
  OBVIOUS
<1>5. PICK g, fresh : g = Fresh(Tail(h.errands)) /\ fresh = [g EXCEPT !.command = c, !.alone = quiet]
  OBVIOUS
<1>6. /\ DOMAIN fresh = {"errands", "pc", "command", "source", "left", "wrote", "alone", "overwrote"}
      /\ fresh.errands = Tail(h.errands) /\ fresh.command = c /\ fresh.alone = quiet /\ fresh.wrote = {}
      /\ fresh.overwrote = FALSE
  <2>1. /\ DOMAIN g = {"errands", "pc", "command", "source", "left", "wrote", "alone", "overwrote"}
        /\ g.errands = Tail(h.errands) /\ g.wrote = {} /\ g.overwrote = FALSE
    BY <1>5 DEF Fresh
  <2> QED
    BY <1>5, <2>1
<1>7. c \in Errands /\ Tail(h.errands) \in Seq(Errands)
  BY <1>2, <1>3, <1>4 DEF ShellOk
<1>8. \/ shells' = Runs(s, [fresh EXCEPT !.pc = "failed"]) /\ disk' = disk
      \/ /\ \E source \in Sources(c) :
               shells' = Runs(s, [fresh EXCEPT !.pc = IF c.op \in WithDocker THEN "stat" ELSE "write",
                                               !.source = source, !.left = Writes(s, c, source)])
         /\ disk' = IF c.op \in WithDocker THEN disk ELSE DiskWith(Directory(s, c), Other("directory"))
  BY <1>1, <1>4, <1>5, Zenon DEF Enter
<1>9. CASE shells' = Runs(s, [fresh EXCEPT !.pc = "failed"]) /\ disk' = disk
  <2>1. PICK n : n = [fresh EXCEPT !.pc = "failed"]
    OBVIOUS
  <2>2. /\ DOMAIN n = {"errands", "pc", "command", "source", "left", "wrote", "alone", "overwrote"}
        /\ n.errands = Tail(h.errands) /\ n.pc = "failed" /\ n.alone = quiet /\ n.overwrote = FALSE
    BY <1>6, <2>1
  <2>3. ShellOk(s, n) /\ ~Underway(n)
    BY <1>7, <2>2 DEF ShellOk, Underway
  <2>4. DiskOk' /\ \A t : Temporary(t)' = Temporary(t)
    BY <1>9, QuietDisk
  <2>5. shells' = Runs(s, n)
    BY <1>9, <2>1
  <2>6. n.alone => \A t \in Shells \ {s} : ~Busy(t)
    BY <1>4, <2>2
  <2> QED
    BY <1>3, <2>3, <2>4, <2>5, <2>6, BeginKeeps
<1>10. CASE /\ \E source \in Sources(c) :
                  shells' = Runs(s, [fresh EXCEPT !.pc = IF c.op \in WithDocker THEN "stat" ELSE "write",
                                                  !.source = source, !.left = Writes(s, c, source)])
            /\ disk' = IF c.op \in WithDocker THEN disk ELSE DiskWith(Directory(s, c), Other("directory"))
  <2>1. PICK source \in Sources(c) :
             shells' = Runs(s, [fresh EXCEPT !.pc = IF c.op \in WithDocker THEN "stat" ELSE "write",
                                             !.source = source, !.left = Writes(s, c, source)])
    BY <1>10
  <2>2. PICK n, to, todo : /\ n = [fresh EXCEPT !.pc = to, !.source = source, !.left = todo]
                           /\ to = (IF c.op \in WithDocker THEN "stat" ELSE "write") /\ todo = Writes(s, c, source)
    OBVIOUS
  <2>3. /\ DOMAIN n = {"errands", "pc", "command", "source", "left", "wrote", "alone", "overwrote"}
        /\ n.errands = Tail(h.errands) /\ n.pc = to /\ n.alone = quiet /\ n.overwrote = FALSE
        /\ n.command = c /\ n.source = source /\ n.left = todo /\ n.wrote = {}
    BY <1>6, <2>2
  <2>4. shells' = Runs(s, n)
    BY <2>1, <2>2
  <2>5. PICK writes : writes = Planned(s, c, source)
    OBVIOUS
  <2>6. Usable(c, source)
    BY <1>3, SourcesUsable
  <2>7. c.op \notin WithDocker => Sequenced(todo, writes) /\ writes = AllOf(todo)
    <3>1. c.op \notin WithDocker => Sequenced(todo, writes)
      BY <1>7, <2>2, <2>5, <2>6, PlanOk
    <3> QED
      BY <2>2, <2>5, <3>1, Zenon DEF Planned
  <2>8. PhaseFits(n) /\ LeftFits(n, writes)
    BY <2>2, <2>3, <2>7 DEF PhaseFits, LeftFits, Sequenced
  <2>9. ShellOk(s, n) /\ n.pc # "done" /\ Underway(n)
    <3>1. LeftFits(n, Planned(s, n.command, n.source))
      BY <2>3, <2>5, <2>8
    <3>2. n.pc \in {"stat", "write"}
      BY <2>2, <2>3
    <3> QED
      BY <1>7, <2>3, <2>6, <2>8, <3>1, <3>2 DEF ShellOk, Underway
  <2>10. /\ DiskOk' /\ \A t \in Shells \ {s} : Temporary(t)' = Temporary(t)
         /\ Temporary(s)' # {} => c.op = "deploy fleet to k8s"
         /\ Sources(c)' = Sources(c)
    <3>1. CASE c.op \in WithDocker
      <4>1. disk' = disk
        BY <1>10, <3>1
      <4> QED
        BY <1>3, <4>1, QuietDisk
    <3>2. CASE c.op \notin WithDocker
      <4>1. PICK d : d = Directory(s, c)
        OBVIOUS
      <4>2. /\ d \notin {AgentFile, FleetFile, Dockerfile}
            /\ d[1] = "temp" => c.op = "deploy fleet to k8s" /\ d[2] = s
        <5>1. c.op \in Writing
          BY <1>7, <3>2, Operations DEF Writing
        <5>2. /\ Directory(s, c) \notin {AgentFile, FleetFile, Dockerfile}
              /\ Directory(s, c)[1] = "temp" => c.op = "deploy fleet to k8s" /\ Directory(s, c)[2] = s
          BY <5>1, DirectoryFits, Zenon
        <5> QED
          BY <4>1, <5>2, Zenon
      <4>3. Rewritten(d, Other("directory"))
        <5>1. disk' = DiskWith(d, Other("directory"))
          BY <1>10, <3>2, <4>1
        <5> QED
          BY <5>1, DiskWritten
      <4>4. ContentFits(d, Other("directory"))
        BY <4>2, Contents DEF ContentFits
      <4>5. DiskOk'
        BY <1>3, <4>3, <4>4, WritingKeepsDisk
      <4>6. Sources(c)' = Sources(c)
        BY <4>2, <4>3, SourcesStay DEF Rewritten
      <4>7. ASSUME NEW t, ~(d[1] = "temp" /\ d[2] = t)
            PROVE  Temporary(t)' = Temporary(t)
        BY <4>3, <4>7, WritingTemporary
      <4> QED
        BY <1>3, <4>2, <4>5, <4>6, <4>7
    <3> QED
      BY <3>1, <3>2
  <2>11. Undisturbed(s, n, c)'
    <3>1. n.source \in Sources(c)'
      BY <2>3, <2>10
    <3>2. Planned(s, c, n.source) = writes
      BY <2>3, <2>5
    <3>3. n.pc = IF c.op \in WithDocker THEN "stat" ELSE "write"
      BY <2>2, <2>3
    <3> HIDE DEF Planned
    <3> QED
      BY <2>3, <2>7, <3>1, <3>2, <3>3 DEF Undisturbed
  <2>12. n.alone => \A t \in Shells \ {s} : ~Busy(t)
    BY <1>4, <2>3
  <2> QED
    BY <2>3, <2>4, <2>9, <2>10, <2>11, <2>12, BeginKeeps
<1> QED
  BY <1>8, <1>9, <1>10

LEMMA InitKeeps ==
  ASSUME ProjectInit
  PROVE  ProjectInv
<1>1. PICK p \in Projects : disk = p.disk /\ shells = [s \in Shells |-> Fresh(p.errands[s])]
  BY DEF ProjectInit
<1>2. p.errands \in [Shells -> Seq(Errands)]
  BY ProjectsAssumption
<1>3. \A path \in DOMAIN disk : /\ path[1] # "temp" /\ (disk[path] = Operators => path = Dockerfile)
                                /\ disk[path].kind = "file" => Shaped(disk[path].file)
  BY <1>1, ProjectsAssumption
<1>4. DiskOk
  BY <1>3 DEF DiskOk
<1>5. ASSUME NEW s \in Shells
      PROVE  ShellOk(s, shells[s]) /\ TempOk(s, shells[s]) /\ AloneOk(s, shells[s])
  <2>1. PICK h : h = shells[s]
    OBVIOUS
  <2>2. h = Fresh(p.errands[s])
    BY <1>1, <2>1
  <2>3. /\ DOMAIN h = {"errands", "pc", "command", "source", "left", "wrote", "alone", "overwrote"}
        /\ h.errands = p.errands[s] /\ h.pc = "idle" /\ h.alone = FALSE /\ h.overwrote = FALSE
    BY <2>2 DEF Fresh
  <2>4. h.errands \in Seq(Errands)
    BY <1>2, <2>3
  <2>5. ShellOk(s, h)
    BY <2>3, <2>4 DEF ShellOk, Underway
  <2>6. TempOk(s, h)
    BY <1>3 DEF TempOk, Temporary
  <2>7. AloneOk(s, h)
    BY <2>3 DEF AloneOk
  <2> QED
    BY <2>1, <2>5, <2>6, <2>7
<1>6. DOMAIN shells = Shells
  BY <1>1
<1> QED
  BY <1>4, <1>5, <1>6 DEF ProjectInv

LEMMA DeployableBy ==
  ASSUME NEW c
  PROVE  /\ c.op = "init" => (Deployable(c) <=> ValidateAccepts(File(AgentFile), TRUE))
         /\ c.op = "multi init" =>
               (Deployable(c) <=>
                  /\ FleetAccepts(File(FleetFile), c.template = "basic")
                  /\ \A a \in DOMAIN File(FleetFile).agents :
                        /\ ValidateAccepts(File(AgentPath(a)), FALSE)
                        /\ Routed(FleetOf(File(FleetFile)), RequestFor(c.routing, a)) = a)
         /\ c.op = "generate docker" =>
               (Deployable(c) <=>
                  /\ \A a \in DOMAIN File(FleetFile).agents :
                        \E v \in disk[Compose].services : Serves(v.config, a, File(FleetFile).agents[a])
                  /\ \A u, v \in disk[Compose].services : u = v \/ u.port # v.port
                  /\ c.multi => \A v \in disk[Compose].services : DOMAIN File(v.config).agents = v.agents)
         /\ c.op = "generate k8s" =>
               (Deployable(c) <=>
                  /\ \A r \in disk[<<"k8s", "kustomization">>].resources : <<"k8s", r>> \in DOMAIN disk
                  /\ \A a \in DOMAIN File(FleetFile).agents :
                        Serves(<<"k8s", "configmap">>, a, File(FleetFile).agents[a]))
         /\ c.op \in {"deploy fleet to k8s"} \cup WithDocker =>
               (Deployable(c) <=> Sources(c) # {} /\ (c.op \in WithDocker => Dockerfile \in DOMAIN disk))
<1>1. ASSUME c.op = "init"
      PROVE  Deployable(c) <=> ValidateAccepts(File(AgentFile), TRUE)
  BY <1>1, Zenon DEF Deployable
<1>2. ASSUME c.op = "multi init"
      PROVE  Deployable(c) <=>
                  /\ FleetAccepts(File(FleetFile), c.template = "basic")
                  /\ \A a \in DOMAIN File(FleetFile).agents :
                        /\ ValidateAccepts(File(AgentPath(a)), FALSE)
                        /\ Routed(FleetOf(File(FleetFile)), RequestFor(c.routing, a)) = a
  BY <1>2, Zenon DEF Deployable
<1>3. ASSUME c.op = "generate docker"
      PROVE  Deployable(c) <=>
                  /\ \A a \in DOMAIN File(FleetFile).agents :
                        \E v \in disk[Compose].services : Serves(v.config, a, File(FleetFile).agents[a])
                  /\ \A u, v \in disk[Compose].services : u = v \/ u.port # v.port
                  /\ c.multi => \A v \in disk[Compose].services : DOMAIN File(v.config).agents = v.agents
  BY <1>3, Zenon DEF Deployable
<1>4. ASSUME c.op = "generate k8s"
      PROVE  Deployable(c) <=>
                  /\ \A r \in disk[<<"k8s", "kustomization">>].resources : <<"k8s", r>> \in DOMAIN disk
                  /\ \A a \in DOMAIN File(FleetFile).agents :
                        Serves(<<"k8s", "configmap">>, a, File(FleetFile).agents[a])
  BY <1>4, Zenon DEF Deployable
<1>5. ASSUME c.op \in {"deploy fleet to k8s"} \cup WithDocker
      PROVE  Deployable(c) <=> Sources(c) # {} /\ (c.op \in WithDocker => Dockerfile \in DOMAIN disk)
  BY <1>5, Zenon DEF Deployable, WithDocker
<1> QED
  BY <1>1, <1>2, <1>3, <1>4, <1>5

(* What a command that succeeded alone wrote is still there.                 *)
Written(writes) == \A w \in writes : w[1] \in DOMAIN disk /\ disk[w[1]] = w[2] /\ w[2] # Unwritable

LEMMA Finished ==
  ASSUME ProjectInv, NEW s \in Shells, shells[s].pc = "done", shells[s].alone, NEW h, h = shells[s],
         NEW c, c = h.command, NEW writes, writes = Planned(s, c, h.source)
  PROVE  /\ c \in Errands /\ Usable(c, h.source) /\ (c.op \notin {"init", "multi init"} => h.source \in Sources(c))
         /\ c.op \in WithDocker => Dockerfile \in DOMAIN disk
         /\ c.op \in {"init", "multi init", "generate docker", "generate k8s"} => Written(writes)
<1>1. ShellOk(s, h) /\ AloneOk(s, h)
  BY ShellFacts
<1>2. Underway(h)
  BY DEF Underway
<1>3. c \in Errands /\ Usable(c, h.source) /\ LeftFits(h, writes) /\ Undisturbed(s, h, c)
  BY <1>1, <1>2 DEF ShellOk, AloneOk
<1>4. ASSUME c.op \in {"init", "multi init", "generate docker", "generate k8s"}
      PROVE  Written(writes)
  <2>1. c.op \notin WithDocker /\ c.op # "deploy fleet to k8s"
    BY <1>4 DEF WithDocker
  <2>2. writes \subseteq h.wrote /\ \A w \in h.wrote : w[1] \in DOMAIN disk /\ disk[w[1]] = w[2]
    BY <1>3, <2>1 DEF Undisturbed
  <2>3. \A w \in h.wrote : w[2] # Unwritable
    BY <1>3 DEF LeftFits
  <2> QED
    BY <2>2, <2>3 DEF Written
<1>5. c.op \notin {"init", "multi init"} => h.source \in Sources(c)
  BY <1>3 DEF Undisturbed
<1>6. c.op \in WithDocker => Dockerfile \in DOMAIN disk
  BY <1>3 DEF Undisturbed
<1> QED
  BY <1>3, <1>4, <1>5, <1>6

LEMMA FileWritten ==
  ASSUME NEW writes, Written(writes), NEW path, NEW file, <<path, Holds(file)>> \in writes
  PROVE  path \in DOMAIN disk /\ File(path) = file
<1>1. path \in DOMAIN disk /\ disk[path] = Holds(file)
  BY DEF Written
<1> QED
  BY <1>1, Contents DEF File

LEMMA InitDeploys ==
  ASSUME NEW s, NEW c \in Errands, c.op = "init", NEW source, Usable(c, source), Written(Planned(s, c, source))
  PROVE  Deployable(c)
<1>1. PICK writes, q : writes = Planned(s, c, source) /\ q = Writes(s, c, source)
  OBVIOUS
<1>2. q = InitWrites(c.template)
  BY <1>1, WritesBy
<1>3. <<AgentFile, Holds(InitFile)>> \in AllOf(q)
  BY <1>2, InitPlan
<1>4. writes = AllOf(q)
  <2>1. c.op \notin WithDocker
    BY DEF WithDocker
  <2> QED
    BY <1>1, <2>1, Zenon DEF Planned
<1>5. File(AgentFile) = InitFile
  BY <1>1, <1>3, <1>4, FileWritten
<1> QED
  BY <1>5, DeployableBy, InitAccepted

LEMMA AgentsOfTemplate ==
  ASSUME NEW c, FleetCommand(c), NEW file, file \in TemplateFleets(c), NEW a \in DOMAIN file.agents
  PROVE  \E i \in 1 .. AgentCount(c) : file.agents[a] = Encode(TemplateAgent(c.template, i))
<1>1. PICK n : n = AgentCount(c)
  OBVIOUS
<1>2. PICK ranks \in Orders(n), default \in 1 .. n : IsTemplate(file, c, n, ranks, default)
  BY <1>1, ComesFrom
<1>3. DOMAIN file.agents = {AgentIds[i] : i \in 1..n}
  BY <1>2 DEF IsTemplate
<1>4. \A i \in 1..n : file.agents[AgentIds[i]] = Encode(TemplateAgent(c.template, i))
  BY <1>2 DEF IsTemplate
<1>5. PICK i \in 1..n : a = AgentIds[i]
  BY <1>3
<1> QED
  BY <1>1, <1>4, <1>5

LEMMA FleetDeploys ==
  ASSUME NEW s, NEW c \in Errands, c.op = "multi init", NEW source, Usable(c, source), Written(Planned(s, c, source))
  PROVE  Deployable(c)
<1>1. PICK writes, q : writes = Planned(s, c, source) /\ q = Writes(s, c, source)
  OBVIOUS
<1>2. q = FleetWrites(source) /\ source \in TemplateFleets(c) /\ FleetCommand(c)
  <2>1. q = FleetWrites(source)
    BY <1>1, WritesBy, Zenon
  <2>2. source \in TemplateFleets(c)
    BY UsableBy, Zenon
  <2>3. FleetCommand(c)
    BY Operations, Zenon
  <2> QED
    BY <2>1, <2>2, <2>3
<1>3. <<FleetFile, Holds(source)>> \in AllOf(q) /\ \A a \in DOMAIN source.agents : AgentPair(source, a) \in AllOf(q)
  BY <1>2, FleetPlan
<1>4. writes = AllOf(q)
  <2>1. c.op \notin WithDocker
    BY DEF WithDocker
  <2> QED
    BY <1>1, <2>1, Zenon DEF Planned
<1>5. File(FleetFile) = source
  BY <1>1, <1>3, <1>4, FileWritten
<1>6. FleetAccepts(source, c.template = "basic")
  BY <1>2, TemplateAccepted
<1>7. ASSUME NEW a \in DOMAIN source.agents
      PROVE  /\ ValidateAccepts(File(AgentPath(a)), FALSE)
             /\ Routed(FleetOf(source), RequestFor(c.routing, a)) = a
  <2>2. PICK i \in 1 .. AgentCount(c) : source.agents[a] = Encode(TemplateAgent(c.template, i))
    BY <1>2, AgentsOfTemplate
  <2>3. PICK e : e = source.agents[a]
    OBVIOUS
  <2>4. <<AgentPath(a), Holds(Single(e))>> \in AllOf(q)
    BY <1>3, <2>3 DEF AgentPair
  <2>5. File(AgentPath(a)) = Single(e)
    BY <1>1, <1>4, <2>4, FileWritten
  <2>6. ValidateAccepts(Single(e), FALSE)
    BY <1>2, <2>2, <2>3, SingleAccepted
  <2>7. Routed(FleetOf(source), RequestFor(c.routing, a)) = a
    BY <1>2, TemplateRouted
  <2> QED
    BY <2>5, <2>6, <2>7
<1> QED
  BY <1>5, <1>6, <1>7, DeployableBy, Zenon

LEMMA ServiceFields ==
  ASSUME NEW name, NEW port, NEW who, NEW v, v = Service(name, port, who)
  PROVE  v.port = port /\ v.agents = who /\ v.config = ConfigPath(name)
BY DEF Service

(* The file that a command read is still there.                              *)
Generating == {"generate docker", "generate k8s"}

LEMMA FleetRead ==
  ASSUME NEW c, c.op \in Generating, NEW source \in Sources(c)
  PROVE  FleetFile \in DOMAIN disk /\ File(FleetFile) = source
<1>1. source \in {f \in AgentFiles(FleetFile) : LoadsFleet(f)}
  BY DEF Sources, Generating
<1> QED
  BY <1>1 DEF AgentFiles, File

LEMMA ServesSame ==
  ASSUME NEW path \in DOMAIN disk, NEW file, NEW ids, LoadsFleet(File(path)), SameAgents(File(path), file, ids),
         NEW a \in ids
  PROVE  Serves(path, a, file.agents[a])
BY DEF Serves, SameAgents

ServiceAt(ids, i) == Service(ids[i], 8079 + i, {ids[i]})

Composed(services, source, multi) ==
    /\ \A a \in DOMAIN source.agents : \E v \in services : Serves(v.config, a, source.agents[a])
    /\ \A u, v \in services : u = v \/ u.port # v.port
    /\ multi => \A v \in services : DOMAIN File(v.config).agents = v.agents

LEMMA ComposedServices ==
  ASSUME NEW source, Shaped(source), LoadsFleet(source), NEW multi \in BOOLEAN, Written(DockerPairs(source, multi))
  PROVE  Composed(disk[Compose].services, source, multi)
<1> PICK services : services = Services(source, multi)
  OBVIOUS
<1>1. disk[Compose].services = services
  <2>1. ComposeFor(source, multi) \in DockerPairs(source, multi)
    BY DEF DockerPairs
  <2>2. disk[Compose] = [kind |-> "compose", services |-> services]
    BY <2>1 DEF Written, ComposeFor
  <2> QED
    BY <2>2
<1>2. /\ \A a \in DOMAIN source.agents : \E v \in services : Serves(v.config, a, source.agents[a])
      /\ \A u, v \in services : u = v \/ u.port # v.port
      /\ multi => \A v \in services : DOMAIN File(v.config).agents = v.agents
  <2>1. CASE multi
    <3>1. PICK ids : ids = SetToSeq(DOMAIN source.agents)
      OBVIOUS
    <3>2. /\ DOMAIN ids = 1 .. Len(ids) /\ \A i \in DOMAIN ids : ids[i] \in DOMAIN source.agents
          /\ \A x \in DOMAIN source.agents : \E i \in DOMAIN ids : ids[i] = x
      <4>1. PICK S : S = DOMAIN source.agents
        OBVIOUS
      <4>2. IsFiniteSet(S) /\ ids = SetToSeq(S)
        BY <3>1, <4>1 DEF Shaped
      <4>3. /\ ids \in Seq(S) /\ DOMAIN ids = 1 .. Len(ids) /\ \A x \in S : \E i \in DOMAIN ids : ids[i] = x
        BY <4>2, Listed
      <4> QED
        BY <4>1, <4>3
    <3>3. services = {ServiceAt(ids, i) : i \in DOMAIN ids}
      BY <2>1, <3>1 DEF Services, ServiceAt
    <3>4. ASSUME NEW a \in DOMAIN source.agents
          PROVE  /\ Serves(ConfigPath(a), a, source.agents[a])
                 /\ DOMAIN File(ConfigPath(a)).agents = {a}
      <4>1. PICK w : w = OwnConfig(source, a)
        OBVIOUS
      <4>2. w \in DockerPairs(source, multi)
        BY <2>1, <3>4, <4>1 DEF DockerPairs
      <4>3. w[1] = ConfigPath(a) /\ w[2] = IF a \in NotNames THEN Unwritable ELSE Holds(OneAgent(source, a))
        BY <4>1 DEF OwnConfig
      <4>4. w[2] # Unwritable /\ w[1] \in DOMAIN disk /\ disk[w[1]] = w[2]
        BY <4>2 DEF Written
      <4>5. PICK out : out = OneAgent(source, a)
        OBVIOUS
      <4>6. ConfigPath(a) \in DOMAIN disk /\ File(ConfigPath(a)) = out
        BY <4>3, <4>4, <4>5, Contents DEF File
      <4>7. LoadsFleet(out) /\ SameAgents(out, source, {a})
        BY <4>5, OneAgentLoads
      <4>8. Serves(ConfigPath(a), a, source.agents[a])
        BY <4>6, <4>7, ServesSame
      <4> QED
        BY <4>6, <4>7, <4>8 DEF SameAgents
    <3>5. \A a \in DOMAIN source.agents : \E v \in services : Serves(v.config, a, source.agents[a])
      <4>1. SUFFICES ASSUME NEW a \in DOMAIN source.agents
                     PROVE  \E v \in services : Serves(v.config, a, source.agents[a])
        OBVIOUS
      <4>2. PICK i \in DOMAIN ids : ids[i] = a
        BY <3>2
      <4>3. PICK v : v = ServiceAt(ids, i)
        OBVIOUS
      <4>4. v \in services
        BY <3>3, <4>3
      <4>5. v.config = ConfigPath(a)
        BY <4>2, <4>3, ServiceFields DEF ServiceAt
      <4> QED
        BY <3>4, <4>4, <4>5
    <3>6. ASSUME NEW u \in services
          PROVE  \E i \in DOMAIN ids : /\ u = ServiceAt(ids, i) /\ u.port = 8079 + i
                                       /\ u.agents = {ids[i]} /\ u.config = ConfigPath(ids[i])
      <4>1. PICK i \in DOMAIN ids : u = ServiceAt(ids, i)
        BY <3>3
      <4>2. u.port = 8079 + i /\ u.agents = {ids[i]} /\ u.config = ConfigPath(ids[i])
        BY <4>1, ServiceFields DEF ServiceAt
      <4> QED
        BY <4>1, <4>2
    <3>7. \A u, v \in services : u = v \/ u.port # v.port
      <4>1. SUFFICES ASSUME NEW u \in services, NEW v \in services, u.port = v.port
                     PROVE  u = v
        OBVIOUS
      <4>2. PICK i \in DOMAIN ids : u = ServiceAt(ids, i) /\ u.port = 8079 + i
        BY <3>6
      <4>3. PICK j \in DOMAIN ids : v = ServiceAt(ids, j) /\ v.port = 8079 + j
        BY <3>6
      <4>4. i = j
        BY <3>2, <4>1, <4>2, <4>3
      <4> QED
        BY <4>2, <4>3, <4>4
    <3>8. \A v \in services : DOMAIN File(v.config).agents = v.agents
      <4>1. SUFFICES ASSUME NEW v \in services
                     PROVE  DOMAIN File(v.config).agents = v.agents
        OBVIOUS
      <4>2. PICK i \in DOMAIN ids : v.agents = {ids[i]} /\ v.config = ConfigPath(ids[i])
        BY <3>6
      <4>3. ids[i] \in DOMAIN source.agents
        BY <3>2
      <4> QED
        BY <3>4, <4>2, <4>3
    <3> QED
      BY <3>5, <3>7, <3>8
  <2>2. CASE ~multi
    <3>1. PICK v : v = Service("multi-agent", 8080, DOMAIN source.agents)
      OBVIOUS
    <3>2. services = {v}
      BY <2>2, <3>1 DEF Services
    <3>3. v.config = ConfigPath("multi-agent")
      BY <3>1, ServiceFields
    <3>4. PICK out : out = Marshalled(source)
      OBVIOUS
    <3>5. ConfigPath("multi-agent") \in DOMAIN disk /\ File(ConfigPath("multi-agent")) = out
      <4>1. <<ConfigPath("multi-agent"), Holds(out)>> \in DockerPairs(source, multi)
        BY <2>2, <3>4 DEF DockerPairs
      <4> QED
        BY <4>1, FileWritten
    <3>6. LoadsFleet(out) /\ SameAgents(out, source, DOMAIN source.agents)
      BY <3>4, MarshalledLoads
    <3>7. \A a \in DOMAIN source.agents : Serves(v.config, a, source.agents[a])
      BY <3>3, <3>5, <3>6, ServesSame
    <3> QED
      BY <2>2, <3>2, <3>7
  <2> QED
    BY <2>1, <2>2
<1> QED
  BY <1>1, <1>2 DEF Composed

LEMMA DockerDeploys ==
  ASSUME NEW s, NEW c \in Errands, c.op = "generate docker", NEW source \in Sources(c), Usable(c, source),
         Written(Planned(s, c, source))
  PROVE  Deployable(c)
<1>1. PICK writes, q, multi : writes = Planned(s, c, source) /\ q = Writes(s, c, source) /\ multi = c.multi
  OBVIOUS
<1>2. q = DockerWrites(source, multi) /\ Shaped(source) /\ LoadsFleet(source) /\ multi \in BOOLEAN
  BY <1>1, WritesBy, UsableBy, Operations
<1>3. AllOf(q) = DockerPairs(source, multi)
  BY <1>2, DockerPlan
<1>4. writes = AllOf(q)
  <2>1. c.op \notin WithDocker
    BY DEF WithDocker
  <2> QED
    BY <1>1, <2>1, Zenon DEF Planned
<1>5. Written(DockerPairs(source, multi))
  BY <1>1, <1>3, <1>4
<1>6. Composed(disk[Compose].services, source, multi)
  BY <1>2, <1>5, ComposedServices, Zenon
<1>7. File(FleetFile) = source
  <2>1. c.op \in Generating
    BY DEF Generating
  <2> QED
    BY <2>1, FleetRead, Zenon
<1> QED
  BY <1>1, <1>6, <1>7, DeployableBy, Zenon DEF Composed

LEMMA ManifestsServe ==
  ASSUME NEW source, Shaped(source), LoadsFleet(source), Written(K8sPairs(<<"k8s">>, source))
  PROVE  /\ \A r \in disk[<<"k8s", "kustomization">>].resources : <<"k8s", r>> \in DOMAIN disk
         /\ \A a \in DOMAIN source.agents : Serves(<<"k8s", "configmap">>, a, source.agents[a])
<1> PICK pairs : pairs = K8sPairs(<<"k8s">>, source)
  OBVIOUS
<1>1. \A x : <<"k8s">> \o <<x>> = <<"k8s", x>>
  BY Below
<1>2. PICK out : out = Marshalled(source)
  OBVIOUS
<1>3. /\ <<<<"k8s", "configmap">>, Holds(out)>> \in pairs /\ <<<<"k8s", "deployment">>, Other("k8s")>> \in pairs
      /\ <<<<"k8s", "kustomization">>, [kind |-> "kustomization", resources |-> Resources]>> \in pairs
      /\ <<<<"k8s", "namespace">>, Other("k8s")>> \in pairs /\ <<<<"k8s", "service">>, Other("k8s")>> \in pairs
  BY <1>1, <1>2 DEF K8sPairs
<1>4. ASSUME NEW path, NEW content, <<path, content>> \in pairs
      PROVE  path \in DOMAIN disk /\ disk[path] = content
  BY <1>4 DEF Written
<1>5. disk[<<"k8s", "kustomization">>].resources = Resources
  <2>1. disk[<<"k8s", "kustomization">>] = [kind |-> "kustomization", resources |-> Resources]
    BY <1>3, <1>4
  <2> QED
    BY <2>1
<1>6. \A r \in Resources : <<"k8s", r>> \in DOMAIN disk
  BY <1>3, <1>4 DEF Resources
<1>7. <<"k8s", "configmap">> \in DOMAIN disk /\ File(<<"k8s", "configmap">>) = out
  BY <1>3, FileWritten
<1>8. LoadsFleet(out) /\ SameAgents(out, source, DOMAIN source.agents)
  BY <1>2, MarshalledLoads
<1>9. \A a \in DOMAIN source.agents : Serves(<<"k8s", "configmap">>, a, source.agents[a])
  BY <1>7, <1>8, ServesSame
<1> QED
  BY <1>5, <1>6, <1>9

LEMMA K8sDeploys ==
  ASSUME NEW s, NEW c \in Errands, c.op = "generate k8s", NEW source \in Sources(c), Usable(c, source),
         Written(Planned(s, c, source))
  PROVE  Deployable(c)
<1>1. PICK writes, q : writes = Planned(s, c, source) /\ q = Writes(s, c, source)
  OBVIOUS
<1>2. q = K8sWrites(<<"k8s">>, source) /\ Shaped(source) /\ LoadsFleet(source)
  BY <1>1, WritesBy, UsableBy
<1>3. AllOf(q) = K8sPairs(<<"k8s">>, source)
  BY <1>2, K8sPlan
<1>4. writes = AllOf(q)
  <2>1. c.op \notin WithDocker
    BY DEF WithDocker
  <2> QED
    BY <1>1, <2>1, Zenon DEF Planned
<1>5. Written(K8sPairs(<<"k8s">>, source))
  BY <1>1, <1>3, <1>4
<1>6. /\ \A r \in disk[<<"k8s", "kustomization">>].resources : <<"k8s", r>> \in DOMAIN disk
      /\ \A a \in DOMAIN source.agents : Serves(<<"k8s", "configmap">>, a, source.agents[a])
  BY <1>2, <1>5, ManifestsServe
<1>7. File(FleetFile) = source
  <2>1. c.op \in Generating
    BY DEF Generating
  <2> QED
    BY <2>1, FleetRead, Zenon
<1> QED
  BY <1>6, <1>7, DeployableBy, Zenon

LEMMA Succeeds ==
  ASSUME ProjectInv, NEW s \in Shells, shells[s].pc = "done", shells[s].alone
  PROVE  Deployable(shells[s].command)
<1>1. PICK h : h = shells[s]
  OBVIOUS
<1>2. PICK c : c = h.command
  OBVIOUS
<1>3. PICK writes : writes = Planned(s, c, h.source)
  OBVIOUS
<1>4. /\ c \in Errands /\ Usable(c, h.source) /\ (c.op \notin {"init", "multi init"} => h.source \in Sources(c))
      /\ c.op \in WithDocker => Dockerfile \in DOMAIN disk
      /\ c.op \in {"init", "multi init", "generate docker", "generate k8s"} => Written(writes)
  BY <1>1, <1>2, <1>3, Finished, Zenon
<1>5. SUFFICES Deployable(c)
  BY <1>1, <1>2
<1>6. CASE c.op = "init"
  <2>1. Written(Planned(s, c, h.source))
    BY <1>3, <1>4, <1>6
  <2> QED
    BY <1>4, <1>6, <2>1, InitDeploys, Zenon
<1>7. CASE c.op = "multi init"
  <2>1. Written(Planned(s, c, h.source))
    BY <1>3, <1>4, <1>7
  <2> QED
    BY <1>4, <1>7, <2>1, FleetDeploys, Zenon
<1>8. CASE c.op = "generate docker"
  <2>1. h.source \in Sources(c)
    BY <1>4, <1>8
  <2>2. Written(Planned(s, c, h.source))
    BY <1>3, <1>4, <1>8
  <2> QED
    BY <1>4, <1>8, <2>1, <2>2, DockerDeploys, Zenon
<1>9. CASE c.op = "generate k8s"
  <2>1. h.source \in Sources(c)
    BY <1>4, <1>9
  <2>2. Written(Planned(s, c, h.source))
    BY <1>3, <1>4, <1>9
  <2> QED
    BY <1>4, <1>9, <2>1, <2>2, K8sDeploys, Zenon
<1>10. CASE c.op \in {"deploy fleet to k8s"} \cup WithDocker
  <2>1. Sources(c) # {}
    <3>1. c.op \notin {"init", "multi init"}
      BY <1>10 DEF WithDocker
    <3> QED
      BY <1>4, <3>1, Zenon
  <2> QED
    BY <1>4, <1>10, <2>1, Zenon DEF Deployable, WithDocker
<1>11. Deployable(c)
  <2>1. c.op \in {"init", "multi init", "generate docker", "generate k8s", "deploy fleet to k8s"} \cup WithDocker
    BY <1>4, Operations
  <2> QED
    <3>1. \/ c.op = "init" \/ c.op = "multi init" \/ c.op = "generate docker" \/ c.op = "generate k8s"
          \/ c.op \in {"deploy fleet to k8s"} \cup WithDocker
      BY <2>1
    <3> QED
      BY <1>6, <1>7, <1>8, <1>9, <1>10, <3>1, Zenon
<1> QED
  BY <1>11

LEMMA ProjectsFollow ==
  ASSUME ProjectInv
  PROVE  ProjectsHold
<1>1. ASSUME NEW s \in Shells
      PROVE  /\ shells[s].pc = "done" /\ shells[s].alone => Deployable(shells[s].command)
             /\ shells[s].overwrote => ~shells[s].alone
             /\ Temporary(s) # {} => Busy(s) \/ shells[s].pc = "killed"
  <2>1. ShellOk(s, shells[s]) /\ TempOk(s, shells[s])
    BY DEF ProjectInv
  <2>2. shells[s].pc = "done" /\ shells[s].alone => Deployable(shells[s].command)
    BY Succeeds
  <2>3. shells[s].overwrote => ~shells[s].alone
    BY <2>1 DEF ShellOk
  <2>4. Temporary(s) # {} => Busy(s) \/ shells[s].pc = "killed"
    BY <2>1 DEF TempOk
  <2> QED
    BY <2>2, <2>3, <2>4
<1> QED
  BY <1>1 DEF ProjectsHold

LEMMA ProjectStays ==
  ASSUME ProjectInv, [ProjectNext]_projectVars
  PROVE  ProjectInv'
<1>1. CASE UNCHANGED projectVars
  <2>1. disk' = disk /\ shells' = shells
    BY <1>1 DEF projectVars
  <2>2. DiskOk' /\ (\A t : Temporary(t)' = Temporary(t)) /\ \A c : Sources(c)' = Sources(c)
    BY <2>1, QuietDisk
  <2>3. ASSUME NEW s \in Shells
        PROVE  ShellOk(s, shells'[s]) /\ TempOk(s, shells[s])' /\ AloneOk(s, shells[s])'
    <3>1. ShellOk(s, shells[s]) /\ TempOk(s, shells[s]) /\ AloneOk(s, shells[s])
      BY DEF ProjectInv
    <3>2. \A t : Busy(t)' <=> Busy(t)
      BY <2>1 DEF Busy
    <3>3. TempOk(s, shells[s])'
      BY <2>1, <2>2, <3>1, <3>2 DEF TempOk
    <3>4. AloneOk(s, shells[s])'
      BY <2>1, <2>2, <3>1, <3>2 DEF AloneOk, Undisturbed
    <3> QED
      BY <2>1, <3>1, <3>3, <3>4
  <2> QED
    BY <2>1, <2>2, <2>3 DEF ProjectInv
<1>2. CASE Edit
  BY <1>2, EditKeeps
<1>3. ASSUME NEW s \in Shells,
             Enter(s) \/ Stat(s) \/ Write(s) \/ DockerStep(s) \/ KubectlStep(s) \/ Fail(s) \/ Kill(s)
      PROVE  ProjectInv'
  BY <1>3, EnterKeeps, StatKeeps, WriteKeeps, DockerStepKeeps, KubectlStepKeeps, FailKeeps, KillKeeps
<1> QED
  BY <1>1, <1>2, <1>3 DEF ProjectNext

(* A command that succeeds while nobody else touches the project leaves one  *)
(* that can be deployed: what init and multi-agent init write is accepted by *)
(* the checks and loaders of the other commands, and routes every agent its  *)
(* requests; what the generators write serves every agent of the project. A  *)
(* Dockerfile of the operator is only overwritten when it comes between two  *)
(* steps, and only a killed process leaves manifests in a temporary directory*)
THEOREM ProjectsStaySound == ProjectSpec => []ProjectsHold
<1>1. ProjectInit => ProjectInv
  BY InitKeeps
<1>2. ProjectInv /\ [ProjectNext]_projectVars => ProjectInv'
  BY ProjectStays
<1>3. ProjectInv => ProjectsHold
  BY ProjectsFollow
<1> QED
  BY <1>1, <1>2, <1>3, PTL DEF ProjectSpec

==============================================================================
