------------------------------- MODULE MCAgents --------------------------------
(* One instance for the modules about agents: "part" says whether a          *)
(* behaviour is one of a react agent, of pending decisions, of a team, of    *)
(* sub-agents, of files, of tools or of the visualizer that watches runs.    *)
EXTENDS ReActAgent, HumanDecisions

CONSTANTS Callers, None
VARIABLES part,
          registered, busy, talk, team, asks, toolRuns, reported, budget,
          parallel, batch, local, states, batches, task, delegated, tasks,
          routes, added, held, client, changes, serial, torn,
          tools, roots, onDisk, job, toolCalls, pieces, acked, unsure, mixed,
          observed, subscribers, told, since, lock, recording, saved, refused, recorded, drawn

teamVars == <<registered, busy, talk, team, asks, toolRuns, reported, budget>>
subAgentVars == <<parallel, batch, local, states, batches, task, delegated, tasks>>
fileVars == <<routes, added, held, client, changes, serial, torn>>
toolVars == <<tools, roots, onDisk, job, toolCalls, pieces, acked, unsure, mixed>>
visualizerVars == <<observed, subscribers, told, since, lock, recording, saved, refused, recorded, drawn>>

(* No call, one, or two of which the second may wait for a person.           *)
MCReplies == {<<>>, <<"read", "read">>, <<"read", "pay">>}

(* One tool, which may wait for a person.                                    *)
OneTool == {<<>>, <<"pay">>}

(* What may be put before people, and decisions of every kind.               *)
MCCalls == {[calls |-> <<"pay">>, allowed |-> <<>>], [calls |-> <<>>, allowed |-> <<>>],
            [calls |-> <<"read", "pay">>, allowed |-> [tool \in {"read"} |-> {"approve", "edit", "response"}]]}
Choice(type, args) == [type |-> type, args |-> args]
MCDecisions == {Choice("approve", {}), Choice("edit", {"action"}), Choice("edit", {"action", "args"}), Choice("later", {})}

Says(text, calls_) == [text |-> text, calls |-> calls_]
Team == INSTANCE AgentTeam WITH Known <- {"read", "pay"}, Members <- [a \in {"chat", "tool"} |-> a],
    Budgets <- {[callers |-> {CHOOSE c \in Callers : TRUE}, calls |-> 2, changes |-> 0, teams |-> {<<"chat">>}],
                [callers |-> {CHOOSE c \in Callers : TRUE}, calls |-> 1, changes |-> 1, teams |-> {<<"tool", "chat">>, <<"chat", "chat">>}],
                [callers |-> Callers, calls |-> 2, changes |-> 0, teams |-> {<<"chat">>, <<"tool">>}]},
    Sayings <- {Says(<<"t">>, <<"read">>), Says(<<>>, <<"lost", "read", "pay">>)}

(* A request alone, two of one agent, and one of an agent nobody knows.      *)
Request(agent, share) == [agent |-> agent, share |-> share, task |-> "task"]
Subs == INSTANCE SubAgents WITH asked <- delegated, Nobody <- "nobody", Agents <- {"p", "q", "s"},
    Definitions <- {"x"}, MaxBatches <- 2, MaxTasks <- 4,
    Batches <- {<<Request("x", FALSE)>>, <<Request("x", TRUE), Request("x", TRUE)>>, <<Request("no", TRUE), Request("x", TRUE)>>}

(* Routes that cover one another, of one length, and to one namespace twice. *)
Prefix(prefix, backend) == [prefix |-> prefix, backend |-> backend]
Files == INSTANCE AgentFiles WITH Clients <- Callers, Namespaces <- {"u", "w"}, MaxRoutes <- 2, MaxChanges <- 3,
    Routes <- {Prefix(<<"">>, "u"), Prefix(<<"", "m">>, "w"), Prefix(<<"", "m">>, "state"), Prefix(<<"", "m", "x">>, "u")},
    Paths <- {<<"", "m", "f">>, <<"", "m", "x", "f">>}, Directories <- {<<"">>, <<"", "m">>},
    Contents <- {<<"a">>, <<"a", "a">>}, Edits <- [old : {"a"}, new : {"b"}, all : BOOLEAN]

(* Expressions of up to three characters, and longer ones where the order of *)
(* the operators or a sign decides.                                          *)
Expressions ==
    UNION {[1..n -> {"1", "2", "0", "+", "-", "*", "/"}] : n \in 1..3}
    \union {<<"1", "+", "2", "+", "1">>, <<"1", "2", "/", " ", "2">>, <<"1", "-", "2", "-", "1">>, <<"-", "1", "-", "2">>}

(* A directory, a link to it, and a file whose extension is refused; two     *)
(* policies that differ in whether the link leads out of the roots.          *)
Box == INSTANCE ToolBox WITH Clients <- Callers, registered <- tools, files <- onDisk, calls <- toolCalls,
    MaxCalls <- 3, MaxFile <- 3, MaxOutput <- 2, MaxItems <- 1, MaxLength <- 7, Sums <- Expressions,
    Policies <- {{<<"r">>}, {<<"r", "d">>}}, Links <- <<"l">> :> <<"r", "d">>, Extensions <- {"f"}, Lengths <- {2},
    Paths <- {<<"r", "d", "f">>, <<"l", "f">>, <<"r", "x">>}, Streams <- UNION {[1..n -> 0..2] : n \in 0..3}

(* Steps without a duration, a subscriber that asks back, and graphs of two  *)
(* nodes of which one may be an end.                                         *)
Recorded(name, took, snapshot) == [node |-> name, took |-> took, snapshot |-> snapshot]
GraphFile(edges, first, ends) == [nodes |-> <<"a", "b">>, edges |-> edges, start |-> first, ends |-> ends]
Watching == INSTANCE Visualizer WITH pc <- recording, executionHistory <- observed, Recorders <- Callers, Readers <- {"r"}, Writers <- {"w"},
    MaxHistorySize <- 2, MaxSteps <- 3, Steps <- {Recorded("a", 0, TRUE), Recorded("a", 4, FALSE), Recorded("b", 1, TRUE)},
    GraphFiles <- {GraphFile(edges, first, ends) : edges \in {<<<<"a", "b">>>>, <<<<"a", "b">>, <<"b", "a">>>>, <<<<"a", "c">>>>},
                                                   first \in {"", "b"}, ends \in {{}, {"b"}}}

-------------------------------------------------------------------------------
MCInit ==
    /\ part \in {"run", "decisions", "team", "executor", "delegation", "files", "tools", "visualizer"}
    /\ Init /\ DecisionsInit /\ Subs!Init /\ Files!Init /\ Box!Init /\ Watching!Init
    /\ IF part = "team" THEN Team!Init ELSE Team!Init /\ budget.changes = 1
    /\ part = "tools" \/ roots = {<<"r">>}

AgentNext ==
    \/ part = "run" /\ Next /\ UNCHANGED <<decisionVars, teamVars, subAgentVars>>
    \/ part = "decisions" /\ DecisionsNext /\ UNCHANGED <<vars, teamVars, subAgentVars>>
    \/ part = "team" /\ Team!Next /\ UNCHANGED <<vars, decisionVars, subAgentVars>>
    \/ part = "executor" /\ Subs!ExecutorNext /\ UNCHANGED <<vars, decisionVars, teamVars>>
    \/ part = "delegation" /\ Subs!DelegationNext /\ UNCHANGED <<vars, decisionVars, teamVars>>

AroundNext ==
    \/ part = "files" /\ Files!Next /\ UNCHANGED <<toolVars, visualizerVars>>
    \/ part = "tools" /\ Box!Next /\ UNCHANGED <<fileVars, visualizerVars>>
    \/ part = "visualizer" /\ Watching!Next /\ UNCHANGED <<fileVars, toolVars>>

innerVars == <<vars, decisionVars, teamVars, subAgentVars>>
aroundVars == <<fileVars, toolVars, visualizerVars>>

MCNext ==
    /\ UNCHANGED part
    /\ \/ AgentNext /\ UNCHANGED aroundVars
       \/ AroundNext /\ UNCHANGED innerVars

(* The fairness of ReActAgent!FairSpec, AgentTeam!Fairness,                  *)
(* SubAgents!Fairness and the recorders of the visualizer, each in its part. *)
MCSpec ==
    /\ MCInit /\ [][MCNext]_<<part, innerVars, aroundVars>>
    /\ \A r \in Runs : WF_vars(part = "run" /\ Run(r))
    /\ \A c \in Callers : WF_teamVars(part = "team" /\ Team!CallStep(c))
    /\ \A c \in Callers : WF_subAgentVars(part = "executor" /\ batch[c].phase = "running" /\ Subs!BatchStep(c))
    /\ WF_subAgentVars(part = "delegation" /\ Subs!DelegationStep)
    /\ \A c \in Callers : WF_visualizerVars(part = "visualizer" /\ Watching!RecordStep(c))

(* The coordinator and the executor of sub-agents report what agents did;    *)
(* paths lead to files, listings show them, edits are kept; tools do what    *)
(* they report; and the visualizer shows what happened.                      *)
SurroundingsAreSound ==
    /\ Team!AnswersAreTheAgents /\ Subs!ResultsMatchRequests
    /\ part = "files" => Files!FilesAreFound
    /\ part = "tools" => Box!ToolsAreSound
    /\ part = "visualizer" => Watching!ShowsWhatHappened
(* Agents come back from their runs, coordinator and executor return,        *)
(* delegated tasks end, and whoever records a step goes on.                  *)
CallsReturn == AgentComesBack /\ Team!TeamCallsReturn /\ Subs!DelegatesReturn /\ Watching!RecordersReturn
===============================================================================
