----------------------------- MODULE AgentRouting -----------------------------
(* MultiAgentConfig and the router a MultiAgentManager builds from it: what  *)
(* Validate accepts, in which order rules are installed, which agent answers *)
(* a request, and what GetAgentByPath says of it. Strings are sequences of   *)
(* letters, of which "variable" is a {name} of a template and "brace" a brace*)
(* that has no partner; rule IDs are numbers in the order of the strings, 0  *)
(* being "". The router itself (gorilla/mux) is external.                    *)
EXTENDS Integers, Sequences, FiniteSets, SequencesExt

CONSTANTS Configs,      \* configurations that may be loaded
          RequestSet,   \* [path, method, host, headers, query] of requests
          Management,   \* <<method, path>> of the management endpoints
          Regexes,      \* the regular expressions that compile, with what they match
          None          \* no agent

(* Rules and ports are lists; priorities and IDs are numbers.                *)
ASSUME RoutingAssumption ==
    \A c \in Configs :
        /\ Len(c.rules) \in Nat /\ DOMAIN c.rules = 1..Len(c.rules)
        /\ \A i \in DOMAIN c.rules : c.rules[i].priority \in Int /\ c.rules[i].id \in Nat
        /\ Len(c.deployment.ports) \in Nat
        /\ DOMAIN c.deployment.ports = 1..Len(c.deployment.ports)

VARIABLES config, phase, request

routingVars == <<config, phase, request>>

(* Operators named Bug_... are defects the properties must catch; nothing    *)
(* else uses them.                                                           *)

MatchMode(match) == IF match = "" THEN "exact" ELSE match

(* MatchesPath and Evaluate: a pattern against a value.                      *)
MatchesPath(match, pattern, value) ==
    CASE MatchMode(match) = "exact"    -> value = pattern
      [] MatchMode(match) = "prefix"   -> IsPrefix(pattern, value)
      [] MatchMode(match) = "suffix"   -> IsSuffix(pattern, value)
      [] MatchMode(match) = "contains" -> \E i, j \in 1..Len(value) : SubSeq(value, i, j) = pattern
      [] MatchMode(match) = "regex"    -> pattern \in DOMAIN Regexes /\ value \in Regexes[pattern]
      [] OTHER -> FALSE

ValidMatchMode(match, pattern) ==
    \/ MatchMode(match) \in {"exact", "prefix", "suffix", "contains"}
    \/ MatchMode(match) = "regex" /\ pattern \in DOMAIN Regexes

------------------------------------------------------------------------------
(* boolMetadata knows booleans and a few spellings; "disabled" comes before  *)
(* "enabled".                                                                *)
Known(metadata, key) == key \in DOMAIN metadata /\ metadata[key] \in {"true", "false"}

IsAgentEnabled(c, a) ==
    /\ a \in DOMAIN c.agents
    /\ LET m == c.agents[a].metadata
       IN  IF Known(m, "disabled") THEN m["disabled"] = "false"
           ELSE Known(m, "enabled") => m["enabled"] = "true"

GetEnabledAgents(c) == {a \in DOMAIN c.agents : IsAgentEnabled(c, a)}

ValidCondition(cond) ==
    /\ cond.type \in {"header", "query", "ip", "method"}
    /\ cond.type \in {"header", "query"} => cond.key # ""
    /\ ValidMatchMode(cond.operator, cond.value)

Bug_DisabledAllowed(c, a) == a \in DOMAIN c.agents

(* What a rule or the default may name.                                      *)
MayServe(c, a) == IsAgentEnabled(c, a)

ValidRouting(c) ==
    /\ c.type \in {"", "path", "host", "header", "query"}
    /\ c.default # None => MayServe(c, c.default)
    /\ \A i \in DOMAIN c.rules :
          LET r == c.rules[i]
          IN  /\ MayServe(c, r.agent)
              /\ r.pattern # <<>>
              /\ r.id # 0 => \A j \in 1..(i - 1) : c.rules[j].id # r.id
              /\ ValidMatchMode(r.match, r.pattern)
              /\ \A cond \in ToSet(r.conditions) : ValidCondition(cond)

(* Ports are unique, no setting of the health checks is negative, those of   *)
(* one agent name an agent that exists, and scaling has room.                *)
ValidDeployment(c) ==
    LET d == c.deployment IN
    /\ d.replicas >= 1
    /\ \A i, j \in DOMAIN d.ports : d.ports[i].port = d.ports[j].port => i = j
    /\ \A n \in ToSet(d.healthSettings) : n >= 0
    /\ d.agentSpecific \subseteq DOMAIN c.agents
    /\ d.scaling # <<>> => 1 <= d.scaling[1] /\ d.scaling[1] <= d.scaling[2]

Validate(c) ==
    /\ DOMAIN c.agents # {}
    /\ \A a \in DOMAIN c.agents : c.agents[a].complete
    /\ ValidRouting(c) /\ ValidDeployment(c)

(* GetAgentPort falls back to 8080.                                          *)
GetAgentPort(c, a) ==
    LET mine == {i \in DOMAIN c.deployment.ports : c.deployment.ports[i].agent = a}
    IN  IF mine = {} THEN 8080 ELSE c.deployment.ports[CHOOSE i \in mine : \A j \in mine : i <= j].port

------------------------------------------------------------------------------
(* SortedRules: the higher priority first, then the lower ID, then in the    *)
(* order of declaration.                                                     *)
Before(c, i, j) ==
    LET r == c.rules[i]
        s == c.rules[j]
    IN  \/ r.priority > s.priority
        \/ r.priority = s.priority /\ (r.id < s.id \/ (r.id = s.id /\ i < j))

First(c, rules) == CHOOSE i \in rules : \A j \in rules : i = j \/ Before(c, i, j)

(* A pattern "name: value" or "key=value"; an empty sequence when it is none.*)
Split(pattern, separator) ==
    LET cuts == {i \in DOMAIN pattern : pattern[i] = separator}
    IN  IF cuts = {} THEN <<>>
        ELSE LET i == CHOOSE i \in cuts : \A j \in cuts : i <= j
             IN  <<SubSeq(pattern, 1, i - 1), SubSeq(pattern, i + 1, Len(pattern))>>

(* A pattern of header or query routing may keep the manager from starting.  *)
Installs(c, r) ==
    LET parts == IF c.type = "header" THEN Split(r.pattern, ":") ELSE Split(r.pattern, "=")
    IN  c.type \in {"header", "query"} => parts # <<>> /\ parts[1] # <<>>

ValuesOf(q, source, key) ==
    LET given == IF source = "header" THEN q.headers ELSE q.query
    IN  IF key \in DOMAIN given THEN given[key] ELSE <<>>

(* What mux makes of a template: it refuses one whose braces do not match,   *)
(* and a path without a slash; a variable is any letters up to a separator.  *)
TakesTemplate(type, template) ==
    /\ "brace" \notin ToSet(template)
    /\ type # "host" => template[1] = "/"

Fits(template, value, separator) ==
    IF "variable" \notin ToSet(template) THEN value = template
    ELSE \E cut \in [0..Len(template) -> 0..Len(value)] :
            /\ cut[0] = 0 /\ cut[Len(template)] = Len(value)
            /\ \A k \in DOMAIN template :
                  IF template[k] = "variable"
                  THEN cut[k - 1] < cut[k] /\ \A i \in cut[k - 1] + 1 .. cut[k] : value[i] # separator
                  ELSE cut[k] = cut[k - 1] + 1 /\ value[cut[k]] = template[k]

(* Path and Host of mux; setupRoutingRule does not ask whether they failed,  *)
(* and the route then matches nothing.                                       *)
MatchesTemplate(type, template, value) ==
    TakesTemplate(type, template) /\ Fits(template, value, IF type = "host" THEN "." ELSE "/")

(* pathMatcher leaves exact patterns to mux.                                 *)
PathMatches(r, path) ==
    IF MatchMode(r.match) = "exact" THEN MatchesTemplate("path", r.pattern, path)
    ELSE MatchesPath(r.match, r.pattern, path)

ByPath(c) == c.type \in {"", "path"}

(* The matchers of setupRoutingRule.                                         *)
Selects(c, r, q) ==
    CASE ByPath(c) -> PathMatches(r, q.path)
      [] c.type = "host"   -> MatchesTemplate("host", r.pattern, q.host)
      [] c.type = "header" -> LET p == Split(r.pattern, ":") IN ValuesOf(q, "header", p[1]) = p[2]
      [] c.type = "query"  -> LET p == Split(r.pattern, "=") IN ValuesOf(q, "query", p[1]) = p[2]

MatchConditions(r, q) ==
    \A cond \in ToSet(r.conditions) :
        MatchesPath(cond.operator, cond.value,
                    CASE cond.type \in {"header", "query"} -> ValuesOf(q, cond.type, cond.key)
                      [] cond.type = "ip"     -> q.ip
                      [] cond.type = "method" -> <<q.method>>)

Matching(c, q) ==
    {i \in DOMAIN c.rules : LET r == c.rules[i]
                            IN  /\ Selects(c, r, q) /\ MatchConditions(r, q)
                                /\ r.method # "" => r.method = q.method}

(* setupRouting: the management endpoints, the rules, the default.           *)
Routed(c, q) ==
    IF <<q.method, q.path>> \in Management THEN "management"
    ELSE IF Matching(c, q) # {} THEN c.rules[First(c, Matching(c, q))].agent
    ELSE c.default

Hits(c, path) == {i \in DOMAIN c.rules : MatchesPath(c.rules[i].match, c.rules[i].pattern, path)}

Bug_DeclarationOrder(c, path) ==
    IF Hits(c, path) # {} THEN c.rules[CHOOSE i \in Hits(c, path) : \A j \in Hits(c, path) : i <= j].agent ELSE c.default

GetAgentByPath(c, path) == IF Hits(c, path) # {} THEN c.rules[First(c, Hits(c, path))].agent ELSE c.default

------------------------------------------------------------------------------
Nothing == [path |-> <<>>, method |-> "none"]

RoutingInit == config \in Configs /\ phase = "new" /\ request = Nothing

(* NewMultiAgentManager validates, and then installs every rule or fails.    *)
NewManager ==
    /\ phase = "new"
    /\ phase' = IF ~Validate(config) THEN "invalid"
                ELSE IF \A i \in DOMAIN config.rules : Installs(config, config.rules[i])
                THEN "serving" ELSE "failed"
    /\ UNCHANGED <<config, request>>

Serve(q) ==
    /\ phase \in {"serving", "served"}
    /\ phase' = "served" /\ request' = q
    /\ UNCHANGED config

RoutingNext == NewManager \/ \E q \in RequestSet : Serve(q)

RoutingSpec == RoutingInit /\ [][RoutingNext]_routingVars

------------------------------------------------------------------------------
(* A path that the router takes letter by letter, and a rule whose exact     *)
(* pattern is none.                                                          *)
Literal(pattern) == pattern[1] = "/" /\ {"variable", "brace"} \intersect ToSet(pattern) = {}
Templated(r) == MatchMode(r.match) = "exact" /\ ~Literal(r.pattern)

PlainRules(c) ==
    /\ ByPath(c)
    /\ \A i \in DOMAIN c.rules : c.rules[i].method = "" /\ c.rules[i].conditions = <<>>

(* What Validate accepts is served: a manager that does not start has a rule *)
(* of header or query routing; a request is only ever routed to an agent that*)
(* exists and is enabled; agents with ports of their own do not share one.   *)
(* When rules speak of paths alone, outside the management endpoints, router *)
(* and GetAgentByPath name different agents only over a rule whose exact     *)
(* pattern is no literal path: a template, which GetAgentByPath compares     *)
(* letter by letter, or what the router cannot express, which it drops while *)
(* the manager starts, contrary to multi_agent_manager.go:449-452.           *)
RoutingIsConsistent ==
    /\ phase = "failed" => config.type \in {"header", "query"}
    /\ phase = "served" =>
          LET to == Routed(config, request) IN
          /\ to \in GetEnabledAgents(config) \cup {None, "management"}
          /\ PlainRules(config) /\ to # "management" =>
                \/ to = GetAgentByPath(config, request.path)
                \/ \E i \in DOMAIN config.rules :
                      /\ Templated(config.rules[i])
                      /\ ~(i \in Matching(config, request) <=> i \in Hits(config, request.path))
          /\ \A a, b \in {p.agent : p \in ToSet(config.deployment.ports)} :
                a # b => GetAgentPort(config, a) # GetAgentPort(config, b)
==============================================================================
