--------------------------- MODULE ManagerRequests ----------------------------
(* Requests to a MultiAgentManager, to its agents and to its management      *)
(* endpoints: the rate limit middleware, createAgentHandler and              *)
(* metricsMiddleware, with every critical section a step of the request,     *)
(* while Restart replaces states and metrics under separate locks, or fails, *)
(* and time goes by.                                                         *)
EXTENDS Integers, FiniteSets, Functions, Sequences, SequencesExt

CONSTANTS Served,       \* the enabled agents; a route may name others
          IPs, Rules,   \* client addresses; the resolved rate limit rules
          Period,       \* ticks in the period of a rule; also the idle time of eviction
          MaxKeys,      \* maxRateLimitKeys
          Plans         \* bounds: how many requests, ticks and calls of Restart,
                        \* over which routes, with which outcomes; a route is
                        \* [kind, agent, skips], kind "rule", "default" or
                        \* "management", skips if its path is in skip_paths

(* A rule without requests is none, and is not entered for an agent.         *)
ASSUME RequestsAssumption ==
    /\ Period \in Nat \ {0} /\ MaxKeys \in Nat
    /\ \A p \in Plans : p.ticks \in Nat
    /\ \A rule \in {Rules.global, Rules.perIP} \cup {Rules.perAgent[a] : a \in DOMAIN Rules.perAgent} :
          rule.requests \in Nat /\ rule.burst \in Int
    /\ \A a \in DOMAIN Rules.perAgent : Rules.perAgent[a].requests > 0

VARIABLES plan, time, limiter,
          req,          \* where each request is
          counters,     \* MultiAgentMetrics
          deployment,   \* DeploymentState: ErrorCount and AgentStates
          restart,      \* where the one Restart under way is, how many there were, and
                  \* how many failed since the last one that did not
          admitted,     \* history: [key, time] of the requests that got a token
          overlapped    \* history: a request and a Restart overlapped

requestsVars == <<plan, time, limiter, req, counters, deployment, restart, admitted, overlapped>>

-------------------------------------------------------------------------------
(* The token buckets, as operators on the state of a limiter. Time is        *)
(* counted in ticks; a bucket counts fractions of a token, Period of which   *)
(* are one, so that a tick adds "requests" of them.                          *)
NoRule == [requests |-> 0, burst |-> 0]
Larger(x, y) == IF x > y THEN x ELSE y
Smaller(x, y) == IF x < y THEN x ELSE y

(* newTokenBucket: at least one request of burst is allowed.                 *)
Capacity(rule) == Period * Larger(1, Larger(rule.requests, rule.burst))

NewTokenBucket(rule, now) == [tokens |-> Capacity(rule), last |-> now, rule |-> rule]

Bug_RefilledUncapped(b, now) ==
    [b EXCEPT !.tokens = b.tokens + (now - b.last) * b.rule.requests, !.last = now]

Refilled(b, now) ==
    [b EXCEPT !.tokens = Smaller(b.tokens + (now - b.last) * b.rule.requests, Capacity(b.rule)),
              !.last = now]

(* tokenBucket.allow: whether, and the bucket afterwards.                    *)
Allow(b, now) ==
    LET r == Refilled(b, now)
    IN  IF r.tokens >= Period THEN [ok |-> TRUE, bucket |-> [r EXCEPT !.tokens = @ - Period]]
        ELSE [ok |-> FALSE, bucket |-> r]

(* evictLocked: over the limit, the keys untouched for longer than a minute  *)
(* go, and then those seen longest ago, in any order among equals. The       *)
(* answer is the set of sets of keys that may stay.                          *)
Kept(seen, now) ==
    IF Cardinality(DOMAIN seen) <= MaxKeys THEN {DOMAIN seen}
    ELSE LET fresh == {k \in DOMAIN seen : now - seen[k] <= Period}
         IN  {keys \in SUBSET fresh :
                /\ Cardinality(keys) = Smaller(Cardinality(fresh), MaxKeys)
                /\ \A k \in keys, o \in fresh \ keys : seen[k] >= seen[o]}

(* newRateLimiter over the resolved rules.                                   *)
NewRateLimiter(rules, now) ==
    [rules |-> rules, global |-> NewTokenBucket(rules.global, now),
     buckets |-> <<>>, seen |-> <<>>]

(* The limiters that allowKeyed may leave behind, with the answer.           *)
AllowKeyed(rl, key, rule, now) ==
    LET bucket == IF key \in DOMAIN rl.buckets THEN rl.buckets[key] ELSE NewTokenBucket(rule, now)
        a == Allow(bucket, now)
        keys == DOMAIN rl.buckets \cup {key}
        buckets == [k \in keys |-> IF k = key THEN a.bucket ELSE rl.buckets[k]]
        seen == [k \in keys |-> IF k = key THEN now ELSE rl.seen[k]]
    IN  {[ok |-> a.ok, rl |-> [rl EXCEPT !.buckets = Restrict(buckets, kept), !.seen = Restrict(seen, kept)]] :
            kept \in Kept(seen, now)}

(* allowRequest takes from the global bucket first and, when the address is  *)
(* refused after that, does not give the token back.                         *)
AllowGlobal(rl, now) ==
    IF rl.rules.global = NoRule THEN [ok |-> TRUE, rl |-> rl]
    ELSE LET a == Allow(rl.global, now) IN [ok |-> a.ok, rl |-> [rl EXCEPT !.global = a.bucket]]

AllowIP(rl, ip, now) ==
    IF rl.rules.perIP = NoRule THEN {[ok |-> TRUE, rl |-> rl]}
    ELSE AllowKeyed(rl, <<"ip", ip>>, rl.rules.perIP, now)

AllowAgent(rl, agent, now) ==
    IF agent \notin DOMAIN rl.rules.perAgent THEN {[ok |-> TRUE, rl |-> rl]}
    ELSE AllowKeyed(rl, <<"agent", agent>>, rl.rules.perAgent[agent], now)

-------------------------------------------------------------------------------
Zero == [requests |-> 0, errors |-> 0]
Outside == [at |-> "outside"]

Requests == 1..plan.requests    \* numbered in the order in which they arrive

RequestsInit ==
    /\ plan \in Plans
    /\ time = 0
    /\ limiter = NewRateLimiter(Rules, 0)
    /\ req = [r \in Requests |-> Outside]
    /\ counters = [requests |-> 0, errors |-> 0, agents |-> [a \in Served |-> Zero],
                  decisions |-> 0, defaults |-> 0, failed |-> 0]
    /\ deployment = [errors |-> 0, agents |-> [a \in Served |-> Zero]]
    /\ restart = [at |-> "none", count |-> 0, failed |-> 0]
    /\ admitted = {} /\ overlapped = FALSE

Pass ==
    /\ time < plan.ticks /\ time' = time + 1
    /\ UNCHANGED <<plan, limiter, req, counters, deployment, restart, admitted, overlapped>>

Move(r, at) == req' = [req EXCEPT ![r].at = at]

RuleOf(key) ==
    CASE key = <<"global">> -> Rules.global
      [] key[1] = "ip"      -> Rules.perIP
      [] OTHER -> IF key[2] \in DOMAIN Rules.perAgent THEN Rules.perAgent[key[2]] ELSE NoRule

Take(r, key, ok) == admitted' = admitted \cup (IF ok /\ RuleOf(key) # NoRule THEN {[key |-> key, time |-> time, req |-> r]} ELSE {})

Comes(r) == req[r] = Outside /\ \A q \in 1..(r - 1) : req[q] # Outside

(* The router found a route and runs the middleware: first the global budget *)
(* and, in a critical section of its own, the budget of the client, unless   *)
(* the path skips both.                                                      *)
Arrive(r, ip, route) ==
    LET a == AllowGlobal(limiter, time) IN
    /\ Comes(r) /\ ~route.skips
    /\ limiter' = a.rl
    /\ Take(r, <<"global">>, a.ok)
    /\ req' = [req EXCEPT ![r] = [at |-> IF a.ok THEN "ip" ELSE "refused", ip |-> ip, route |-> route]]
    /\ overlapped' = (overlapped \/ restart.at # "none")
    /\ UNCHANGED <<plan, time, counters, deployment, restart>>

ArriveSkipping(r, ip, route) ==
    /\ Comes(r) /\ route.skips
    /\ req' = [req EXCEPT ![r] = [at |-> "route", ip |-> ip, route |-> route]]
    /\ overlapped' = (overlapped \/ restart.at # "none")
    /\ UNCHANGED <<plan, time, limiter, counters, deployment, restart, admitted>>

TakeIP(r) ==
    /\ req[r].at = "ip"
    /\ \E a \in AllowIP(limiter, req[r].ip, time) :
          /\ limiter' = a.rl
          /\ Take(r, <<"ip", req[r].ip>>, a.ok)
          /\ Move(r, IF a.ok THEN "route" ELSE "refused")
    /\ UNCHANGED <<plan, time, counters, deployment, restart, overlapped>>

Bug_MissingNotCounted(a) == IF a \in Served THEN 1 ELSE 0

(* recordMetrics: an agent without an entry gets one.                        *)
Counted(a) == 1

RecordMetrics(a, error) ==
    LET e == IF error THEN 1 ELSE 0
        old == IF a \in DOMAIN counters.agents THEN counters.agents[a] ELSE Zero
    IN  [counters EXCEPT !.agents = [x \in DOMAIN @ \cup {a} |->
                                      IF x = a THEN [requests |-> old.requests + Counted(a), errors |-> old.errors + e]
                                      ELSE counters.agents[x]],
                        !.errors = @ + e]

RouteOf(r) == req[r].route

(* A management endpoint answers; what it does is not of these counters.     *)
Manage(r) ==
    /\ req[r].at = "route" /\ RouteOf(r).kind = "management"
    /\ Move(r, "total")
    /\ UNCHANGED <<plan, time, limiter, counters, deployment, restart, admitted, overlapped>>

(* createAgentHandler: the route is counted, as failed too when its agent is *)
(* missing, and then the budget of the agent is asked.                       *)
RecordMissing(r) ==
    /\ req[r].at = "route" /\ RouteOf(r).kind # "management" /\ RouteOf(r).agent \notin Served
    /\ counters' = RecordMetrics(RouteOf(r).agent, TRUE)
    /\ Move(r, "missing")
    /\ UNCHANGED <<plan, time, limiter, deployment, restart, admitted, overlapped>>

UpdateRoutingMetrics(r) ==
    /\ req[r].at \in {"missing", "route"}
    /\ req[r].at = "route" => RouteOf(r).kind # "management" /\ RouteOf(r).agent \in Served
    /\ counters' = IF RouteOf(r).kind = "default" THEN [counters EXCEPT !.defaults = @ + 1]
                  ELSE [counters EXCEPT !.decisions = @ + 1]
    /\ Move(r, IF req[r].at = "missing" THEN "failedRoute" ELSE "budget")
    /\ UNCHANGED <<plan, time, limiter, deployment, restart, admitted, overlapped>>

RecordFailedRoute(r) ==
    /\ req[r].at = "failedRoute"
    /\ counters' = [counters EXCEPT !.failed = @ + 1]
    /\ Move(r, "total")
    /\ UNCHANGED <<plan, time, limiter, deployment, restart, admitted, overlapped>>

TakeAgent(r) ==
    /\ req[r].at = "budget"
    /\ \E a \in AllowAgent(limiter, RouteOf(r).agent, time) :
          /\ limiter' = a.rl
          /\ Take(r, <<"agent", RouteOf(r).agent>>, a.ok)
          /\ Move(r, IF a.ok THEN "execute" ELSE "badRequest")
    /\ UNCHANGED <<plan, time, counters, deployment, restart, overlapped>>

(* A body, method or input that is refused, an execution that fails (by an   *)
(* error or by Success = false), or one that succeeds.                       *)
Execute(r, outcome) ==
    /\ req[r].at = "execute"
    /\ Move(r, outcome)
    /\ UNCHANGED <<plan, time, limiter, counters, deployment, restart, admitted, overlapped>>

Record(r) ==
    /\ req[r].at \in {"badRequest", "fails", "succeeds"}
    /\ counters' = RecordMetrics(RouteOf(r).agent, req[r].at # "succeeds")
    /\ Move(r, CASE req[r].at = "badRequest" -> "total"
                 [] req[r].at = "fails"      -> "updateError"
                 [] req[r].at = "succeeds"   -> "updateSuccess")
    /\ UNCHANGED <<plan, time, limiter, deployment, restart, admitted, overlapped>>

(* updateAgentError and updateAgentSuccess, which may meet the states of a   *)
(* later generation than the agent they ran.                                 *)
UpdateAgent(r) ==
    /\ req[r].at \in {"updateError", "updateSuccess"}
    /\ deployment' = IF req[r].at = "updateSuccess"
                     THEN [deployment EXCEPT !.agents[RouteOf(r).agent].requests = @ + 1]
                     ELSE [deployment EXCEPT !.agents[RouteOf(r).agent].errors = @ + 1, !.errors = @ + 1]
    /\ Move(r, "total")
    /\ UNCHANGED <<plan, time, limiter, counters, restart, admitted, overlapped>>

(* metricsMiddleware counts what came back from the handler; requests that   *)
(* the limiter refused never reach it.                                       *)
CountTotal(r) ==
    /\ req[r].at = "total"
    /\ counters' = [counters EXCEPT !.requests = @ + 1]
    /\ Move(r, "done")
    /\ UNCHANGED <<plan, time, limiter, deployment, restart, admitted, overlapped>>

UnderWay(r) == req[r].at \notin {"outside", "refused", "done"}

(* Restart replaces AgentStates, then AgentMetrics, then resets ErrorCount;  *)
(* if an agent cannot be built, it replaces nothing and counts one error of  *)
(* the deployment.                                                           *)
RestartBegins ==
    /\ restart.at = "none" /\ restart.count < plan.restarts
    /\ restart' = [restart EXCEPT !.at = "metrics", !.count = @ + 1]
    /\ deployment' = [deployment EXCEPT !.agents = [a \in Served |-> Zero]]
    /\ overlapped' = (overlapped \/ \E r \in Requests : UnderWay(r))
    /\ UNCHANGED <<plan, time, limiter, req, counters, admitted>>

RestartFails ==
    /\ restart.at = "none" /\ restart.count < plan.restarts
    /\ restart' = [restart EXCEPT !.count = @ + 1, !.failed = @ + 1]
    /\ deployment' = [deployment EXCEPT !.errors = @ + 1]
    /\ UNCHANGED <<plan, time, limiter, req, counters, admitted, overlapped>>

RestartStep ==
    \/ RestartBegins \/ RestartFails
    \/ /\ restart.at = "metrics"
       /\ restart' = [restart EXCEPT !.at = "errors"]
       /\ counters' = [counters EXCEPT !.agents = [a \in Served |-> Zero]]
       /\ UNCHANGED <<plan, time, limiter, req, deployment, admitted, overlapped>>
    \/ /\ restart.at = "errors"
       /\ restart' = [restart EXCEPT !.at = "none", !.failed = 0]
       /\ deployment' = [deployment EXCEPT !.errors = 0]
       /\ UNCHANGED <<plan, time, limiter, req, counters, admitted, overlapped>>

Step(r) ==
    \/ \E ip \in IPs, route \in plan.routes : Arrive(r, ip, route) \/ ArriveSkipping(r, ip, route)
    \/ TakeIP(r) \/ Manage(r) \/ RecordMissing(r) \/ UpdateRoutingMetrics(r) \/ RecordFailedRoute(r) \/ TakeAgent(r)
    \/ \E outcome \in plan.outcomes : Execute(r, outcome)
    \/ Record(r) \/ UpdateAgent(r) \/ CountTotal(r)

RequestsNext == Pass \/ RestartStep \/ \E r \in Requests : Step(r)

RequestsSpec == RequestsInit /\ [][RequestsNext]_requestsVars

------------------------------------------------------------------------------
(* No budget is exceeded: of any key, the requests let through in a window   *)
(* of time are at most what its bucket holds plus what the rate adds in that *)
(* window, as long as the table had room for all keys. With evictions, a     *)
(* client counts as new, and only the shared budget is sure to hold.         *)
BudgetsHold ==
    \A key \in {g.key : g \in admitted}, from, to \in 0..plan.ticks :
        (from <= to /\ (key = <<"global">> \/ Cardinality({g.key : g \in admitted} \ {<<"global">>}) <= MaxKeys))
        => Cardinality({g \in admitted : g.key = key /\ g.time \in from..to}) * Period
             <= Capacity(RuleOf(key)) + (to - from) * RuleOf(key).requests

Total(agents, field(_)) == FoldFunction(+, 0, [a \in DOMAIN agents |-> field(agents[a])])
RequestsOf(m) == m.requests
ErrorsOf(m) == m.errors

(* The counters tell one story. Errors never outnumber requests of an agent, *)
(* and no failure of an agent is unknown to the metrics. When no request is  *)
(* under way, the total is every route taken and every call of a management  *)
(* endpoint; and if no Restart succeeded, a route was also counted once for  *)
(* its agent, an error of whichever kind included. As long as no request     *)
(* overlapped a Restart, ErrorCount of the deployment is the sum over its    *)
(* agents and the restarts that failed since it was reset.                   *)
Managed == {r \in Requests : req[r].at = "done" /\ RouteOf(r).kind = "management"}

MetricsAddUp ==
    /\ \A a \in DOMAIN counters.agents : counters.agents[a].errors <= counters.agents[a].requests
    /\ Total(counters.agents, ErrorsOf) <= counters.errors
    /\ deployment.errors <= counters.errors + restart.failed
    /\ (\A r \in Requests : ~UnderWay(r)) =>
          /\ counters.requests = counters.decisions + counters.defaults + Cardinality(Managed)
          /\ counters.failed <= counters.errors
          /\ restart.count = restart.failed =>
               /\ counters.requests = Total(counters.agents, RequestsOf) + Cardinality(Managed)
               /\ counters.errors = Total(counters.agents, ErrorsOf)
    /\ ~overlapped /\ restart.at = "none" =>
          deployment.errors = Total(deployment.agents, ErrorsOf) + restart.failed
==============================================================================
