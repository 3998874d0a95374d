------------------------------- MODULE SubAgents -------------------------------
(* Agents that work for others: SubAgentExecutor, which makes a new agent    *)
(* for each request of a batch, SharedState, and SubAgentMiddleware, whose   *)
(* tool delegate_task runs agents that are shared by all who know them       *)
(* (pkg/agent).                                                              *)
EXTENDS Naturals, Sequences, FiniteSets

CONSTANTS
    Callers,        \* who calls an executor
    Definitions,    \* agents of the registry
    Batches,        \* requests of a call: sequences of [agent, share, task]
    Agents,         \* agents with the middleware, who know one another
    Nobody,
    MaxBatches, MaxTasks    \* bounds

VARIABLES
    parallel,       \* SubAgentExecutor.parallel
    batch,          \* caller -> the call it is in
    local,          \* SharedState.local of the callers' common state: agent -> state
    states,         \* BaseStates made so far
    batches,        \* calls so far
    task,           \* running agents of the middleware -> who asked for it
    asked,          \* delegations that have not been answered: <<agent, name>>
    tasks           \* runs and delegations so far

executorVars == <<parallel, batch, local, states, batches>>
delegationVars == <<task, asked, tasks>>
vars == <<executorVars, delegationVars>>

NoBatch == [phase |-> "none"]
Blank == [agent |-> Nobody, task |-> Nobody, ok |-> TRUE, state |-> 0]

Init ==
    /\ parallel = TRUE /\ batch = [c \in Callers |-> NoBatch]
    /\ local = <<>> /\ states = 0 /\ batches = 0
    /\ task = <<>> /\ asked = {} /\ tasks = 0

-----------------------------------------------------------------------------
SetParallel ==
    /\ batches = 0 /\ parallel' = ~parallel
    /\ UNCHANGED <<batch, local, states, batches, delegationVars>>

(* ExecuteSubAgents. A batch of one is executed by the caller itself.        *)
ExecuteSubAgents(c, requests) ==
    /\ batch[c].phase = "none" /\ batches < MaxBatches /\ batches' = batches + 1
    /\ batch' = [batch EXCEPT ![c] =
         [phase |-> "running", requests |-> requests, parallel |-> parallel /\ Len(requests) > 1,
          at |-> [i \in DOMAIN requests |-> "ready"], results |-> [i \in DOMAIN requests |-> Blank],
          errors |-> <<>>]]
    /\ UNCHANGED <<parallel, local, states, delegationVars>>

Bug_LaterOnesRun(c, i) == batch[c].parallel \/ \A j \in 1 .. i - 1 : batch[c].at[j] = "done"

(* Goroutines run in any order, a loop stops at the first error.             *)
MayRun(c, i) ==
    \/ batch[c].parallel
    \/ \A j \in 1 .. i - 1 : batch[c].at[j] = "done" /\ batch[c].results[j].ok

Reported(call, i, result) ==
    [call EXCEPT !.at[i] = "done", !.results[i] = result,
                 !.errors = IF result.ok THEN @ ELSE Append(@, i)]

(* executeSingle without an agent: the registry does not know it, and the    *)
(* result does not name the task either, or it cannot be made.               *)
NoAgent(c, i) ==
    /\ batch[c].at[i] = "ready" /\ MayRun(c, i)
    /\ LET request == batch[c].requests[i]
           failed  == [Blank EXCEPT !.agent = request.agent, !.ok = FALSE]
       IN  batch' = [batch EXCEPT ![c] =
              Reported(@, i, IF request.agent \notin Definitions THEN failed
                             ELSE [failed EXCEPT !.task = request.task])]
    /\ UNCHANGED <<parallel, local, states, batches, delegationVars>>

Bug_MakesLocalState(agent) == states + 1

(* GetLocalState finds or makes the state in one critical section.           *)
LocalState(agent) == IF agent \in DOMAIN local THEN local[agent] ELSE states + 1

StartAgent(c, i) ==
    /\ batch[c].at[i] = "ready" /\ MayRun(c, i)
    /\ batch[c].requests[i].agent \in Definitions
    /\ LET request == batch[c].requests[i]
           state   == IF request.share THEN LocalState(request.agent) ELSE states + 1
       IN  /\ batch' = [batch EXCEPT ![c].at[i] = "running", ![c].results[i].state = state]
           /\ states' = IF state > states THEN state ELSE states
           /\ local' = IF ~request.share THEN local
                       ELSE [a \in DOMAIN local \union {request.agent} |->
                               IF a = request.agent THEN state ELSE local[a]]
    /\ UNCHANGED <<parallel, batches, delegationVars>>

(* Execute returns an answer, or an error, its time limit included. The      *)
(* error of a goroutine goes into a channel with room for all.               *)
EndAgent(c, i) ==
    /\ batch[c].at[i] = "running"
    /\ \E ok \in BOOLEAN :
          batch' = [batch EXCEPT ![c] =
             Reported(@, i, [agent |-> @.requests[i].agent, task |-> @.requests[i].task, ok |-> ok,
                             state |-> @.results[i].state])]
    /\ UNCHANGED <<parallel, local, states, batches, delegationVars>>

(* All goroutines have reported, or the loop has ended.                      *)
Complete(c) ==
    IF batch[c].parallel THEN \A i \in DOMAIN batch[c].at : batch[c].at[i] = "done"
    ELSE \A i \in DOMAIN batch[c].at : batch[c].at[i] = "done" \/ (batch[c].at[i] = "ready" /\ ~MayRun(c, i))

Return(c) ==
    /\ batch[c].phase = "running" /\ Complete(c)
    /\ batch' = [batch EXCEPT ![c].phase = "returned"]
    /\ UNCHANGED <<parallel, local, states, batches, delegationVars>>

(* AggregateResults, for whoever called.                                     *)
Collect(c) ==
    /\ batch[c].phase = "returned" /\ batch' = [batch EXCEPT ![c] = NoBatch]
    /\ UNCHANGED <<parallel, local, states, batches, delegationVars>>

-----------------------------------------------------------------------------
Without(f, x) == [y \in DOMAIN f \ {x} |-> f[y]]

(* A run that nobody delegated.                                              *)
Execute(a) ==
    /\ tasks < MaxTasks /\ tasks' = tasks + 1
    /\ a \notin DOMAIN task
    /\ task' = [b \in DOMAIN task \union {a} |-> IF b = a THEN Nobody ELSE task[b]]
    /\ UNCHANGED <<asked, executorVars>>

(* delegate_task. The calls of one reply are executed at the same time.      *)
Delegate(a, name) ==
    /\ tasks < MaxTasks /\ tasks' = tasks + 1
    /\ a \in DOMAIN task /\ <<a, name>> \notin asked
    /\ asked' = asked \union {<<a, name>>}
    /\ UNCHANGED <<task, executorVars>>

Accept(a, name) ==
    /\ <<a, name>> \in asked /\ name \notin DOMAIN task
    /\ task' = [b \in DOMAIN task \union {name} |-> IF b = name THEN a ELSE task[b]]
    /\ UNCHANGED <<asked, tasks, executorVars>>

Bug_WaitsForBusy(name) == FALSE

(* Execute of an agent that is running fails at once.                        *)
Busy(name) == name \in DOMAIN task

Refuse(a, name) ==
    /\ <<a, name>> \in asked
    /\ Busy(name) /\ task[name] # a
    /\ asked' = asked \ {<<a, name>>}
    /\ UNCHANGED <<task, tasks, executorVars>>

(* A run ends when its tools have answered.                                  *)
Finish(a) ==
    /\ a \in DOMAIN task /\ \A name \in Agents : <<a, name>> \notin asked
    /\ task' = Without(task, a)
    /\ asked' = asked \ {<<task[a], a>>}
    /\ UNCHANGED <<tasks, executorVars>>

BatchStep(c) ==
    \/ \E i \in DOMAIN batch[c].at : NoAgent(c, i) \/ StartAgent(c, i) \/ EndAgent(c, i)
    \/ Return(c)
DelegationStep == \E a \in Agents : Finish(a) \/ \E name \in Agents : Accept(a, name) \/ Refuse(a, name)

ExecutorNext ==
    \/ SetParallel
    \/ \E c \in Callers : (\E requests \in Batches : ExecuteSubAgents(c, requests)) \/ Collect(c)
    \/ \E c \in Callers : batch[c].phase = "running" /\ BatchStep(c)
DelegationNext ==
    \/ \E a \in Agents : Execute(a) \/ \E name \in Agents : Delegate(a, name)
    \/ DelegationStep
Next == ExecutorNext \/ DelegationNext

Fairness ==
    /\ \A c \in Callers : WF_vars(batch[c].phase = "running" /\ BatchStep(c))
    /\ WF_vars(DelegationStep)

-----------------------------------------------------------------------------
(* A call that returns has for each request the result of its agent, except  *)
(* that a batch executed in order ends with the first failure, and it        *)
(* reports an error just if a request failed. Requests of one agent that     *)
(* share state get the same, and all others get one of their own.            *)
ResultsMatchRequests ==
    \A c \in Callers : batch[c].phase # "none" =>
       LET results == batch[c].results
           request(i) == batch[c].requests[i]
           ran     == {i \in DOMAIN results : results[i].agent # Nobody}
       IN  /\ batch[c].phase = "returned" =>
                /\ \A i \in ran : results[i].agent = request(i).agent
                /\ ran = {i \in DOMAIN results : batch[c].parallel \/ \A j \in 1 .. i - 1 : results[j].ok}
                /\ batch[c].errors = <<>> <=> \A i \in DOMAIN results : results[i].ok
           /\ \A d \in Callers : batch[d].phase # "none" =>
                \A i \in DOMAIN results, j \in DOMAIN batch[d].results :
                   <<c, i>> # <<d, j>> /\ results[i].state # 0 /\ batch[d].results[j].state # 0 =>
                      (results[i].state = batch[d].results[j].state <=>
                         /\ request(i).share /\ batch[d].requests[j].share
                         /\ request(i).agent = batch[d].requests[j].agent)

(* Agents who delegate to one another, in a circle too, come back.           *)
DelegatesReturn == <>[](task = <<>> /\ \A c \in Callers : batch[c].phase # "running")
===============================================================================
