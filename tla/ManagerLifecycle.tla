--------------------------- MODULE ManagerLifecycle ---------------------------
(* MultiAgentManager.Start, Stop, Restart and CheckHealthNow, called by      *)
(* several goroutines, and the health checkers they launch and join. Every   *)
(* critical section of the code is a step: mu guards the status and health   *)
(* of the agents, lifecycleMu the generation of checker goroutines, healthMu *)
(* the set of checkers and each checker its own record.                      *)
EXTENDS Integers, FiniteSets

CONSTANTS Callers, Agents,
          Ticker,         \* stands for the goroutine of a checker, among those who check
          Failures,       \* checks in a row that make an agent unhealthy
          Budgets,        \* bounds: pairs of how many calls and how many health checks
          MaxRestarts     \* bound: calls of Restart

(* A caller is not a checker, and one of the budgets allows the most calls.  *)
ASSUME LifecycleAssumption ==
    /\ Ticker \notin Callers
    /\ Failures \in Nat /\ MaxRestarts \in Nat
    /\ Budgets \subseteq Nat \X Nat
    /\ \E most \in Budgets : \A b \in Budgets : b[1] <= most[1]

MaxCalls == CHOOSE n \in {b[1] : b \in Budgets} : \A b \in Budgets : b[1] <= n

VARIABLES status,         \* deploymentState.Status
          health,         \* AgentStates[agent].HealthStatus
          checkerSet,     \* which set of checkers healthCheckers is
          report,         \* the record of every checker of every set
          running,        \* the generation healthCancel belongs to, 0: not healthRunning
          gens,           \* generations launched
          cancelled,      \* generations whose context has ended
          checks,         \* goroutines of checkers, and checks asked by callers
          waiters,        \* goroutines blocked in healthWG.Wait, by the number of the call
          calling, calls, crashed,
          left,           \* the calls and the checks that are left of the budget
          mixed           \* history: calls overlapped, a Stop timed out, or two checks met

lifecycleVars == <<status, health, checkerSet, report, running, gens, cancelled, checks, waiters,
                   calling, calls, crashed, left, mixed>>

Idle == [at |-> "idle", op |-> "none", ctx |-> "none", gen |-> 0, call |-> 0]
Unknown == [status |-> "unknown", fails |-> 0]
Goroutines == {k \in checks : k.by = Ticker}

(* Operators named Bug_... are defects the properties must catch; nothing    *)
(* else uses them.                                                           *)

(* NewMultiAgentManager builds agents and checkers, and starts nothing.      *)
LifecycleInit ==
    /\ status = "initialized"
    /\ health = [a \in Agents |-> "unknown"]
    /\ checkerSet = 0 /\ report = [s \in 0..MaxRestarts |-> [a \in Agents |-> Unknown]]
    /\ running = 0 /\ gens = 0 /\ cancelled = {}
    /\ checks = {} /\ waiters = [n \in 1..MaxCalls |-> "none"]
    /\ calling = [c \in Callers |-> Idle]
    /\ calls = 0 /\ left \in Budgets /\ crashed = FALSE /\ mixed = FALSE

Goto(c, step) == calling' = [calling EXCEPT ![c].at = step]
Done(c) == calling' = [calling EXCEPT ![c] = Idle]

(* A call of Start or Restart whose context has ended does nothing at all,   *)
(* and Start does not look at it again.                                      *)
Begin(c, op, ctx) ==
    /\ calling[c] = Idle /\ left[1] > 0 /\ ~crashed
    /\ op = "start" => ctx = "none"
    /\ op = "restart" => checkerSet + Cardinality({d \in Callers : calling[d].op = "restart"}) < MaxRestarts
    /\ calls' = calls + 1 /\ left' = <<left[1] - 1, left[2]>>
    /\ calling' = [calling EXCEPT ![c] = [at |-> IF op = "start" THEN "starting" ELSE "stopping",
                                op |-> op, ctx |-> ctx, gen |-> 0, call |-> calls + 1]]
    /\ mixed' = (mixed \/ (\E d \in Callers : calling[d] # Idle) \/ checks # Goroutines)
    /\ UNCHANGED <<status, health, checkerSet, report, running, gens, cancelled, checks, waiters,
                   crashed>>

Expire(c) ==
    /\ calling[c].ctx = "live" /\ ~crashed
    /\ calling' = [calling EXCEPT ![c].ctx = "expired"]
    /\ UNCHANGED <<status, health, checkerSet, report, running, gens, cancelled, checks, waiters,
                   calls, left, crashed, mixed>>

(* setStatus, and where the call goes from there.                            *)
SetStatus(c) ==
    LET at == calling[c].at IN
    /\ at \in {"starting", "running", "stopping", "stopped", "failed"} /\ ~crashed
    /\ status' = IF at = "failed" THEN "error" ELSE at
    /\ \/ at = "starting" /\ Goto(c, "launch")
       \/ at = "stopping" /\ Goto(c, "cancel")
       \/ at = "stopped" /\ calling[c].op = "restart" /\ calling[c].gen = 0 /\ Goto(c, "build")
       \/ at = "stopped" /\ (calling[c].op = "stop" \/ calling[c].gen # 0) /\ Done(c)
       \/ at \in {"running", "failed"} /\ Done(c)
    /\ UNCHANGED <<health, checkerSet, report, running, gens, cancelled, checks, waiters,
                   calls, left, crashed, mixed>>

Bug_LaunchAlways == TRUE

(* startHealthCheckers returns at once when they already run.                *)
MayLaunch == running = 0

Launch(c) ==
    /\ calling[c].at = "launch" /\ ~crashed
    /\ IF MayLaunch
       THEN /\ gens' = gens + 1 /\ running' = gens + 1
            /\ checks' = checks \cup
                  {[by |-> Ticker, gen |-> gens + 1, set |-> checkerSet, agent |-> a,
                    at |-> "tick", verdict |-> "unknown"] : a \in Agents}
       ELSE UNCHANGED <<gens, running, checks>>
    /\ Goto(c, "running")
    /\ UNCHANGED <<status, health, checkerSet, report, cancelled, waiters, calls, left,
                   crashed, mixed>>

(* stopHealthCheckers: who finds them running takes their cancel function,   *)
(* everyone else goes on without waiting.                                    *)
TakeCancel(c) ==
    /\ calling[c].at = "cancel" /\ ~crashed
    /\ calling' = [calling EXCEPT ![c].gen = running, ![c].at = IF running = 0 THEN "stopped" ELSE "cancelling"]
    /\ running' = 0
    /\ UNCHANGED <<status, health, checkerSet, report, gens, cancelled, checks, waiters, calls,
                   left, crashed, mixed>>

Bug_CancelsNothing(c) == {}

CancelledBy(c) == {calling[c].gen}

(* Cancels outside the lock, then a goroutine of its own waits for healthWG, *)
(* which counts the checkers of every generation.                            *)
Cancel(c) ==
    /\ calling[c].at = "cancelling" /\ ~crashed
    /\ cancelled' = cancelled \cup CancelledBy(c)
    /\ waiters' = [waiters EXCEPT ![calling[c].call] = IF Goroutines = {} THEN "done" ELSE "waiting"]
    /\ Goto(c, "waiting")
    /\ UNCHANGED <<status, health, checkerSet, report, running, gens, checks, calls, left,
                   crashed, mixed>>

(* The counter reached zero and woke the waiter, which then panics when the  *)
(* group has been used again meanwhile (sync.WaitGroup).                     *)
Woken(n) ==
    /\ waiters[n] = "woken" /\ ~crashed
    /\ crashed' = (Goroutines # {})
    /\ waiters' = [waiters EXCEPT ![n] = "done"]
    /\ UNCHANGED <<status, health, checkerSet, report, running, gens, cancelled, checks, calling,
                   calls, left, mixed>>

Joined(c) ==
    /\ calling[c].at = "waiting" /\ waiters[calling[c].call] = "done" /\ ~crashed
    /\ calling' = [calling EXCEPT ![c].at = "stopped", ![c].gen = 0]
    /\ UNCHANGED <<status, health, checkerSet, report, running, gens, cancelled, checks, waiters,
                   calls, left, crashed, mixed>>

(* gen stays set: the error that ends a Restart here.                        *)
TimesOut(c) ==
    /\ calling[c].at = "waiting" /\ calling[c].ctx = "expired" /\ ~crashed
    /\ Goto(c, "stopped")
    /\ mixed' = TRUE
    /\ UNCHANGED <<status, health, checkerSet, report, running, gens, cancelled, checks, waiters,
                   calls, left, crashed>>

(* Restart: initializeAgents builds new agents and states or fails (the old  *)
(* ones stay), the error counters are reset, setupHealthChecking builds new  *)
(* checkers, and Start looks at the context again.                           *)
Build(c, ok) ==
    /\ calling[c].at = "build" /\ ~crashed
    /\ health' = IF ok THEN [a \in Agents |-> "unknown"] ELSE health
    /\ Goto(c, IF ok THEN "setup" ELSE "failed")
    /\ UNCHANGED <<status, checkerSet, report, running, gens, cancelled, checks, waiters, calls,
                   left, crashed, mixed>>

SetupHealthChecking(c) ==
    /\ calling[c].at = "setup" /\ ~crashed
    /\ checkerSet' = checkerSet + 1
    /\ IF calling[c].ctx = "expired" THEN Done(c) ELSE Goto(c, "starting")
    /\ UNCHANGED <<status, health, report, running, gens, cancelled, checks, waiters, calls,
                   left, crashed, mixed>>

------------------------------------------------------------------------------
(* One check of one agent: its provider answers, the checker records the     *)
(* outcome under its own lock, and then the state of the agent is updated.   *)
Meets(k) == \E o \in checks : o # k /\ o.agent = k.agent /\ o.at # "tick"

CheckNow(c, a) ==
    LET k == [by |-> c, gen |-> 0, set |-> checkerSet, agent |-> a, at |-> "probe", verdict |-> "unknown"]
    IN  /\ calling[c] = Idle /\ left[1] > 0 /\ left[2] > 0 /\ ~crashed
        /\ \A o \in checks : o.by # c
        /\ calls' = calls + 1 /\ left' = <<left[1] - 1, left[2] - 1>>
        /\ checks' = checks \cup {k}
        /\ mixed' = (mixed \/ Meets(k) \/ \E d \in Callers : calling[d] # Idle)
        /\ UNCHANGED <<status, health, checkerSet, report, running, gens, cancelled, waiters, calling,
                       crashed>>

Tick(k) ==
    /\ k.at = "tick" /\ left[2] > 0 /\ ~crashed
    /\ left' = <<left[1], left[2] - 1>>
    /\ checks' = (checks \ {k}) \cup {[k EXCEPT !.at = "probe"]}
    /\ mixed' = (mixed \/ Meets(k))
    /\ UNCHANGED <<status, health, checkerSet, report, running, gens, cancelled, waiters, calling,
                   calls, crashed>>

Recorded(r, ok) ==
    IF ok THEN [status |-> "healthy", fails |-> 0]
    ELSE [status |-> "unhealthy", fails |-> r.fails + 1]

HealthOf(r) ==
    IF r.status = "unhealthy" /\ r.fails < Failures THEN "degraded" ELSE r.status

Probe(k, ok) ==
    LET r == Recorded(report[k.set][k.agent], ok) IN
    /\ k.at = "probe" /\ ~crashed
    /\ report' = [report EXCEPT ![k.set][k.agent] = r]
    /\ checks' = (checks \ {k}) \cup {[k EXCEPT !.at = "tell", !.verdict = HealthOf(r)]}
    /\ UNCHANGED <<status, health, checkerSet, running, gens, cancelled, waiters, calling, calls,
                   left, crashed, mixed>>

Tell(k) ==
    /\ k.at = "tell" /\ ~crashed
    /\ health' = [health EXCEPT ![k.agent] = k.verdict]
    /\ checks' = (checks \ {k}) \cup (IF k.by = Ticker THEN {[k EXCEPT !.at = "tick", !.verdict = "unknown"]} ELSE {})
    /\ UNCHANGED <<status, checkerSet, report, running, gens, cancelled, waiters, calling, calls,
                   left, crashed, mixed>>

(* A checker sees that its context has ended: healthWG.Done, which wakes     *)
(* every waiter when it was the last one.                                    *)
Exit(k) ==
    /\ k.by = Ticker /\ k.at = "tick" /\ k.gen \in cancelled /\ ~crashed
    /\ checks' = checks \ {k}
    /\ waiters' = [n \in DOMAIN waiters |->
                     IF waiters[n] = "waiting" /\ Goroutines = {k} THEN "woken" ELSE waiters[n]]
    /\ UNCHANGED <<status, health, checkerSet, report, running, gens, cancelled, calling, calls,
                   left, crashed, mixed>>

CallerStep(c) ==
    \/ SetStatus(c) \/ Launch(c) \/ TakeCancel(c) \/ Cancel(c) \/ Joined(c) \/ TimesOut(c)
    \/ \E ok \in BOOLEAN : Build(c, ok)
    \/ SetupHealthChecking(c)

CheckStep(k) == Exit(k) \/ Tell(k) \/ \E ok \in BOOLEAN : Probe(k, ok)

LifecycleNext ==
    \/ \E c \in Callers :
          \/ \E op \in {"start", "stop", "restart"}, ctx \in {"none", "live"} : Begin(c, op, ctx)
          \/ CallerStep(c) \/ Expire(c)
          \/ \E a \in Agents : CheckNow(c, a)
    \/ \E k \in checks : Tick(k) \/ CheckStep(k)
    \/ \E n \in DOMAIN waiters : Woken(n)

(* Goroutines that can run do, a provider answers in the time of the check,  *)
(* and a context with a deadline ends.                                       *)
LifecycleFairness ==
    /\ \A c \in Callers : WF_lifecycleVars(CallerStep(c)) /\ WF_lifecycleVars(Expire(c))
    /\ WF_lifecycleVars(\E k \in checks : CheckStep(k)) /\ WF_lifecycleVars(\E n \in DOMAIN waiters : Woken(n))

LifecycleSpec == LifecycleInit /\ [][LifecycleNext]_lifecycleVars

------------------------------------------------------------------------------
(* "Health checkers run for exactly as long as the manager does"             *)
(* (multi_agent_manager.go:1893), as far as it is so. Always: a checker that *)
(* is not of the running generation has been cancelled, or a Stop is about   *)
(* to cancel it. While calls come one at a time and none gives up: the       *)
(* status "running" means checkers of the current set are running, "stopped" *)
(* means none is left, and what /health says of an agent is what its checker *)
(* found last.                                                               *)
CheckersFollowStatus ==
    /\ \A k \in Goroutines : \/ k.gen = running
                             \/ k.gen \in cancelled
                             \/ \E c \in Callers : calling[c].at = "cancelling" /\ calling[c].gen = k.gen
    /\ ~mixed /\ (\A c \in Callers : calling[c] = Idle) =>
          /\ ~crashed
          /\ status = "running" <=> running # 0
          /\ running # 0 => {k.agent : k \in Goroutines} = Agents
          /\ \A k \in Goroutines : k.gen = running /\ k.set = checkerSet
          /\ \A a \in Agents : (\A k \in checks : k.agent = a => k.at # "tell")
                               => health[a] = HealthOf(report[checkerSet][a])

(* Whoever called Start, Stop or Restart got an answer: with a deadline      *)
(* always, without one as long as no other call starts new checkers that     *)
(* the same WaitGroup counts.                                                *)
LifecycleCallsReturn ==
    <>[](crashed \/ \A c \in Callers : calling[c] = Idle \/ (mixed /\ calling[c].ctx = "none"))
==============================================================================
