------------------------------- MODULE AgentTeam -------------------------------
(* Agents of the types chat and tool, and the coordinator that runs several  *)
(* of them one after the other or at once (pkg/agent/agent.go): callers may  *)
(* overlap, name an agent twice, or name one that is removed meanwhile. A    *)
(* text is a sequence, "" the empty one; a message is [role, ref, of, calls],*)
(* ref the tool call it says it answers and of the one it does answer.       *)
EXTENDS Naturals, Sequences, FiniteSets, SequencesExt

CONSTANTS
    Callers,        \* goroutines that call the coordinator
    Members,        \* agents: name -> "chat" or "tool"
    Known,          \* tools of the registry
    InterruptOn,    \* tools that wait for a person; only tool agents look
    Sayings,        \* what the LLM says: [text, calls], calls a list of tools
    Budgets         \* bounds: [callers, calls, teams, changes], teams the lists of agents
                    \* that are named, changes how often agents are added and removed

VARIABLES
    registered,     \* MultiAgentCoordinator.agents
    busy,           \* agent -> isRunning
    talk,           \* agent -> its conversation
    team,           \* caller -> its call: [at, mode, ids, work, results, errors]
    asks,           \* tool calls the LLM made so far, which number the new ones
    toolRuns,       \* ghost: <<agent, tool>>, the tools executed, and by whom
    reported,       \* the last answer of the coordinator
    budget          \* what is left of the budget

vars == <<registered, busy, talk, team, asks, toolRuns, reported, budget>>

Message(role, ref, of, calls) == [role |-> role, ref |-> ref, of |-> of, calls |-> calls]
Free == [at |-> "idle"]
Job(at, input) == [at |-> at, input |-> input, plan |-> <<>>, output |-> <<>>, ok |-> FALSE]

Init ==
    /\ registered = DOMAIN Members
    /\ busy = [a \in DOMAIN Members |-> FALSE] /\ talk = [a \in DOMAIN Members |-> <<>>]
    /\ team = [c \in Callers |-> Free] /\ asks = 0 /\ toolRuns = {} /\ budget \in Budgets
    /\ reported = Free

Change ==
    /\ budget.changes > 0 /\ budget' = [budget EXCEPT !.changes = @ - 1]
    /\ UNCHANGED <<busy, talk, team, asks, toolRuns, reported>>

RegisterAgent == Change /\ \E a \in DOMAIN Members : registered' = registered \union {a}
RemoveAgent == Change /\ \E a \in registered : registered' = registered \ {a}

(* ExecuteSequential looks up one agent after the other, ExecuteParallel     *)
(* starts a goroutine for each name in the list.                             *)
Coordinate(c) ==
    /\ team[c] = Free /\ c \in budget.callers /\ budget.calls > 0
    /\ budget' = [budget EXCEPT !.calls = @ - 1]
    /\ \E mode \in {"sequential", "parallel"}, ids \in budget.teams :
          team' = [team EXCEPT ![c] =
              [at |-> "running", mode |-> mode, ids |-> ids, results |-> <<>>, errors |-> 0,
               work |-> [i \in DOMAIN ids |-> Job(IF i = 1 \/ mode = "parallel" THEN "lookup" ELSE "later", <<c>>)]]]
    /\ UNCHANGED <<registered, busy, talk, asks, toolRuns, reported>>

At(c, i, label) == team[c] # Free /\ i \in DOMAIN team[c].work /\ team[c].work[i].at = label
Name(c, i) == team[c].ids[i]
Work(c, i, job) == team' = [team EXCEPT ![c].work[i] = job]
Job_(c, i) == team[c].work[i]
Failed(c, i) == [Job_(c, i) EXCEPT !.at = "report", !.ok = FALSE]

Lookup(c, i) ==
    /\ At(c, i, "lookup")
    /\ Work(c, i, IF Name(c, i) \in registered THEN [Job_(c, i) EXCEPT !.at = "begin"] ELSE Failed(c, i))
    /\ UNCHANGED <<registered, busy, talk, asks, toolRuns, reported, budget>>

(* ExecuteThread: one run at a time, and a user message unless the input is  *)
(* blank.                                                                    *)
Begin(c, i) ==
    LET a == Name(c, i)
        job == Job_(c, i) IN
    /\ At(c, i, "begin")
    /\ IF busy[a] THEN Work(c, i, Failed(c, i)) /\ UNCHANGED <<busy, talk>>
       ELSE /\ busy' = [busy EXCEPT ![a] = TRUE]
            /\ talk' = IF job.input = <<>> THEN talk
                       ELSE [talk EXCEPT ![a] = Append(@, Message("user", job.input, 0, <<>>))]
            /\ Work(c, i, [job EXCEPT !.at = IF Members[a] = "chat" THEN "chat" ELSE "plan"])
    /\ UNCHANGED <<registered, asks, toolRuns, reported, budget>>

Called(tools) == [k \in DOMAIN tools |-> [tool |-> tools[k], id |-> asks + k]]
Existing(calls) == SelectSeq(calls, LAMBDA call : call.tool \in Known)
Executed(a, calls) == {<<a, call.tool>> : call \in ToSet(Existing(calls))}

Bug_GivesUpAtUnknown(calls) ==
    IF Existing(calls) = calls THEN [k \in DOMAIN calls |-> Message("tool", calls[k].id, calls[k].id, <<>>)] ELSE <<>>

(* chatNode runs every tool that exists, guarded or not. The results take    *)
(* the IDs of the calls in order, and stand before the message that made the *)
(* calls.                                                                    *)
ToolMessages(calls) ==
    [k \in DOMAIN Existing(calls) |-> Message("tool", calls[k].id, Existing(calls)[k].id, <<>>)]

ChatNode(c, i) ==
    LET a == Name(c, i) IN
    /\ At(c, i, "chat")
    /\ \E answer \in Sayings :
          LET calls == Called(answer.calls) IN
          /\ asks' = asks + Len(calls)
          /\ toolRuns' = toolRuns \union Executed(a, calls)
          /\ talk' = [talk EXCEPT ![a] = @ \o ToolMessages(calls) \o <<Message("assistant", <<>>, 0, calls)>>]
          /\ Work(c, i, [Job_(c, i) EXCEPT !.at = "finish", !.ok = TRUE, !.output = answer.text])
    /\ UNCHANGED <<registered, busy, reported, budget>>

(* planNode; parseToolCalls reads the calls off the text.                    *)
PlanNode(c, i) ==
    /\ At(c, i, "plan")
    /\ \E answer \in Sayings :
          /\ asks' = asks + Len(answer.calls)
          /\ Work(c, i, [Job_(c, i) EXCEPT !.at = "execute", !.plan = Called(answer.calls)])
    /\ UNCHANGED <<registered, busy, talk, toolRuns, reported, budget>>

Bug_WaitsForFirst(plan) == plan # <<>> /\ plan[1].tool \in InterruptOn

(* executeToolsNode looks through the whole plan before it runs anything.    *)
MustWait(plan) == \E k \in DOMAIN plan : plan[k].tool \in InterruptOn

ExecuteToolsNode(c, i) ==
    LET plan == Job_(c, i).plan IN
    /\ At(c, i, "execute")
    /\ toolRuns' = IF MustWait(plan) THEN toolRuns ELSE toolRuns \union Executed(Name(c, i), plan)
    /\ Work(c, i, [Job_(c, i) EXCEPT !.at = "review"])
    /\ UNCHANGED <<registered, busy, talk, asks, reported, budget>>

(* reviewNode ends the run: it is an end node, and shouldReplan is not asked.*)
ReviewNode(c, i) ==
    /\ At(c, i, "review")
    /\ \E answer \in Sayings :
          Work(c, i, [Job_(c, i) EXCEPT !.at = "finish", !.ok = TRUE, !.output = answer.text])
    /\ UNCHANGED <<registered, busy, talk, asks, toolRuns, reported, budget>>

LLMFails(c, i) ==
    /\ \E label \in {"chat", "plan", "review"} : At(c, i, label)
    /\ Work(c, i, [Job_(c, i) EXCEPT !.at = "finish"])
    /\ UNCHANGED <<registered, busy, talk, asks, toolRuns, reported, budget>>

Finish(c, i) ==
    /\ At(c, i, "finish")
    /\ busy' = [busy EXCEPT ![Name(c, i)] = FALSE]
    /\ Work(c, i, [Job_(c, i) EXCEPT !.at = "report"])
    /\ UNCHANGED <<registered, talk, asks, toolRuns, reported, budget>>

-------------------------------------------------------------------------------
Result(c, i) == [agent |-> Name(c, i), input |-> Job_(c, i).input, output |-> Job_(c, i).output]

Bug_PassesInput(input, output) == input

(* The input of the next agent.                                              *)
PassedOn(input, output) == output

Bug_RoomForOne(ids) == 1

(* errChan has room for an error of every goroutine.                         *)
Room(ids) == Len(ids)

(* A result enters the map under its agent's name; an error waits for room   *)
(* in the channel, which is read when all goroutines are done.               *)
ReportParallel(c, i) ==
    LET call == team[c] IN
    /\ At(c, i, "report") /\ call.mode = "parallel"
    /\ \/ /\ Job_(c, i).ok
          /\ team' = [team EXCEPT ![c].work[i].at = "done",
                         ![c].results = Append(SelectSeq(@, LAMBDA r : r.agent # Name(c, i)), Result(c, i))]
       \/ /\ ~Job_(c, i).ok /\ call.errors < Room(call.ids)
          /\ team' = [team EXCEPT ![c].work[i].at = "done", ![c].errors = @ + 1]
    /\ UNCHANGED <<registered, busy, talk, asks, toolRuns, reported, budget>>

ReportSequential(c, i) ==
    LET call == team[c]
        done == [call.work EXCEPT ![i].at = "done"] IN
    /\ At(c, i, "report") /\ call.mode = "sequential"
    /\ team' = [team EXCEPT ![c] =
          IF ~Job_(c, i).ok
          THEN [call EXCEPT !.errors = 1, !.work = [k \in DOMAIN done |-> [done[k] EXCEPT !.at = "done"]]]
          ELSE [call EXCEPT !.results = Append(@, Result(c, i)),
                            !.work = IF i = Len(done) THEN done
                                     ELSE [done EXCEPT ![i + 1] = Job("lookup", PassedOn(Job_(c, i).input, Job_(c, i).output))]]]
    /\ UNCHANGED <<registered, busy, talk, asks, toolRuns, reported, budget>>

(* With an error ExecuteParallel gives no results, ExecuteSequential those   *)
(* before the error.                                                         *)
Return(c) ==
    LET call == team[c] IN
    /\ call # Free /\ \A i \in DOMAIN call.work : call.work[i].at = "done"
    /\ reported' = [at |-> "returned", caller |-> c, mode |-> call.mode, ids |-> call.ids, failed |-> call.errors > 0,
                    results |-> IF call.mode = "parallel" /\ call.errors > 0 THEN <<>> ELSE call.results]
    /\ team' = [team EXCEPT ![c] = Free]
    /\ UNCHANGED <<registered, busy, talk, asks, toolRuns, budget>>

Goroutine(c, i) ==
    \/ Lookup(c, i) \/ Begin(c, i) \/ ChatNode(c, i) \/ PlanNode(c, i) \/ ExecuteToolsNode(c, i)
    \/ ReviewNode(c, i) \/ LLMFails(c, i) \/ Finish(c, i) \/ ReportParallel(c, i) \/ ReportSequential(c, i)

Places == UNION {UNION {DOMAIN ids : ids \in b.teams} : b \in Budgets}
CallStep(c) == team[c] # Free /\ (Return(c) \/ \E i \in DOMAIN team[c].work : Goroutine(c, i))

Next ==
    \/ RegisterAgent \/ RemoveAgent
    \/ \E c \in Callers : Coordinate(c) \/ CallStep(c)

(* Of the goroutines of a call one goes on, and an LLM answers or the        *)
(* context of the call ends.                                                 *)
Fairness == \A c \in Callers : WF_vars(CallStep(c))

-------------------------------------------------------------------------------
(* What a caller gets is what its agents did: in sequence each is given what *)
(* the one before it said, as far as there was no error; at once all are     *)
(* given the input, and every agent named has a result. No agent serves two  *)
(* at a time, none is left busy, and each is asked what it was given. Only a *)
(* chat agent runs a tool that should wait for a person (it never looks at   *)
(* the list), a tool agent none of such a plan. In the conversation of a     *)
(* chat agent each call of a tool that exists has one answer, all answers of *)
(* a reply stand before it (the loop of a react agent puts them after it,    *)
(* agent.go:816), and an answer names its own call if no tool called before  *)
(* it is unknown: otherwise always that of an earlier call.                  *)
AnswersAreTheAgents ==
    LET r == reported
        workers(a) == {w \in {<<c, i>> : c \in Callers, i \in Places} :
                          /\ team[w[1]] # Free /\ w[2] \in DOMAIN team[w[1]].work /\ Name(w[1], w[2]) = a
                          /\ Job_(w[1], w[2]).at \in {"chat", "plan", "execute", "review", "finish"}} IN
    /\ r # Free /\ r.mode = "sequential" =>
          /\ r.failed <=> Len(r.results) < Len(r.ids)
          /\ \A i \in DOMAIN r.results :
                /\ r.results[i].agent = r.ids[i]
                /\ r.results[i].input = IF i = 1 THEN <<r.caller>> ELSE r.results[i - 1].output
    /\ r # Free /\ r.mode = "parallel" /\ ~r.failed =>
          /\ {r.results[i].agent : i \in DOMAIN r.results} = ToSet(r.ids)
          /\ \A i \in DOMAIN r.results : r.results[i].input = <<r.caller>>
    /\ \A a \in DOMAIN Members :
          /\ Cardinality(workers(a)) = IF busy[a] THEN 1 ELSE 0
          /\ \A w \in workers(a) :
                LET job == Job_(w[1], w[2]) IN
                job.at = "chat" /\ job.input # <<>> => talk[a][Len(talk[a])] = Message("user", job.input, 0, <<>>)
    /\ \A run \in toolRuns : run[2] \in InterruptOn => Members[run[1]] = "chat"
    /\ \A a \in DOMAIN Members : \A k \in DOMAIN talk[a] :
          LET calls == talk[a][k].calls
              answers == {j \in DOMAIN talk[a] : talk[a][j].of \in {calls[n].id : n \in DOMAIN calls}} IN
          /\ \A n \in DOMAIN calls :
                Cardinality({j \in answers : talk[a][j].of = calls[n].id}) = IF calls[n].tool \in Known THEN 1 ELSE 0
          /\ \A j \in answers :
                /\ j < k /\ \A l \in j .. k - 1 : l \in answers
                /\ \E m, n \in DOMAIN calls :
                      /\ talk[a][j].ref = calls[m].id /\ talk[a][j].of = calls[n].id
                      /\ m <= n /\ (m = n <=> \A l \in 1 .. n : calls[l].tool \in Known)
    /\ \A a \in DOMAIN Members : \A j \in DOMAIN talk[a] : talk[a][j].role = "tool" =>
          \E k \in DOMAIN talk[a] : \E n \in DOMAIN talk[a][k].calls : talk[a][k].calls[n].id = talk[a][j].of

(* Once its callers ask no more, every call of the coordinator has returned, *)
(* also when all its agents failed.                                          *)
TeamCallsReturn == <>[](\A c \in Callers : team[c] = Free)
===============================================================================
