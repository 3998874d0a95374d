---------------------------- MODULE MCFoundations -----------------------------
(* What runs are made of, on small instances: building and routing of a      *)
(* graph over two node IDs and a reserved one, with the empty route table    *)
(* and one whose target may not be there; super-steps; states and who shares *)
(* them; nested graphs; a counted loop; the LLM providers, the shortcuts that *)
(* choose one and the agents that are given one; a database with two         *)
(* clients. They share no variable: "part" says which of them a behaviour is *)
(* about.                                                                    *)
EXTENDS GraphBuilder, SuperStep, StateSharing, GraphNesting, Routers, DatabaseService, ProviderCall, Integers, TLC

CONSTANTS Callers, None
VARIABLES part,
          providers, defaultProvider, closed, streaming, created, op, torn,
          definitions, factories, objects, installed, creating, agents, together,
          config, added, quickAgents, busy, workflow, registered, execution, executions

managerVars == <<providers, defaultProvider, closed, streaming, created, op, torn>>
definitionVars == <<definitions, factories, objects, installed, creating, agents, together>>
builderVars == <<config, added, quickAgents, busy, workflow, registered, execution, executions>>
stateVars == <<stepVars, sharingVars, nestingVars, loopVars>>
serviceVars == <<callVars, managerVars, databaseVars>>
makingVars == <<definitionVars, builderVars>>

MCNames  == {"a", "b", END}
MCTables == {[k \in {"a"} |-> "b"], [k \in {"a"} |-> START]}

(* Callers of the registry of providers and of the database are alike, and   *)
(* so are threads.                                                           *)
Symmetry == Permutations(Callers) \union Permutations(Threads)

-------------------------------------------------------------------------------
(* Super-steps over channels of every reducer and a key of none, with inputs  *)
(* that hold messages without an ID and with one that an update uses again.   *)
MCNodes == ("a" :> "update") @@ ("b" :> "update") @@ ("plain" :> "plain")
Msg(id, n) == [id |-> id, from |-> n]
MCUpdates ==
    ("a" :> [log |-> <<"a">>, last |-> "a", sum |-> 1, msgs |-> <<Msg("m", "a")>>, opts |-> [x |-> "a", y |-> "a"]]) @@
    ("b" :> [log |-> <<"b", "c">>, sum |-> 1, msgs |-> <<Msg(Nil, "b"), Msg("m", "b")>>, opts |-> [x |-> "b"],
             more |-> "b"]) @@
    ("plain" :> [msgs |-> <<>>])
MCSchema == [log |-> Channel("append", <<>>), last |-> Channel(NoReducer, Nil), sum |-> Channel("sum", 0),
             msgs |-> Channel("messages", Nil), opts |-> Channel("map", Nil)]
MCInputs == {Empty, [log |-> <<"x">>, last |-> "x", msgs |-> <<Msg(Nil, "x"), Msg("m", "x")>>, opts |-> [z |-> "x"]]}
MCIdLists == {<<>>, <<"a", "b">>, <<"b", "a", "a">>, <<"a", "plain">>, <<"b", "lost">>}

MCParentSchema == [log |-> Channel("append", <<>>), note |-> Channel(NoReducer, "parent")]
MCNestedNodes == <<"n1", "n2">>

-------------------------------------------------------------------------------
(* Completions and streams of every provider, with and without tools, under  *)
(* budgets of attempts and delays; conversations with system messages in     *)
(* other places than the front; replies cut short.                           *)
Asking(op_, mode, flag, early, retries, wait) ==
    {[provider |-> p, op |-> op_, mode |-> mode, flag |-> flag, early |-> early, retries |-> retries,
      delay |-> wait, request |-> [system |-> <<"s">>, messages |-> <<Message("user", <<"u">>)>>]] :
        p \in {"openai", "ollama", "gemini"}}
Talks == {<<>>, <<Message("system", <<"i">>)>>,
          <<Message("system", <<"i">>), Message("user", <<"u">>), Message("assistant", <<>>), Message("user", <<"v">>)>>,
          <<Message("system", <<>>), Message("assistant", <<"a">>), Message("system", <<"i">>), Message("user", <<"u">>)>>}
Prompting == {[provider |-> p, op |-> "complete", mode |-> "auto", flag |-> FALSE, early |-> FALSE, retries |-> -1,
               delay |-> 0, request |-> [system |-> s, messages |-> t]] :
                  p \in {"openai", "ollama", "gemini"}, s \in {<<>>, <<"s">>}, t \in Talks}
MCCalls == Prompting \union Asking("complete", "none", TRUE, FALSE, 2, 20)
           \union Asking("complete", "auto", TRUE, TRUE, 1, 40) \union Asking("complete", "forced", FALSE, FALSE, 0, 1)
           \union Asking("stream", "auto", TRUE, FALSE, 2, 1) \union Asking("stream", "none", TRUE, FALSE, 0, 1)

Fragment(index, id, name, args) == [index |-> index, id |-> id, name |-> name, args |-> args]
Text(words) == [choice |-> TRUE, text |-> words, calls |-> <<>>]
Tools(fragments) == [choice |-> TRUE, text |-> <<>>, calls |-> fragments]
UsageChunk == [choice |-> FALSE, text |-> <<>>, calls |-> <<>>]
TwoCalls == <<Tools(<<Fragment(0, <<"i">>, <<"f">>, <<"{">>), Fragment(1, <<"j">>, <<"g">>, <<"{">>)>>),
              Tools(<<Fragment(0, <<>>, <<>>, <<"x">>), Fragment(1, <<>>, <<>>, <<"}">>)>>),
              Tools(<<Fragment(0, <<>>, <<>>, <<"}">>)>>), UsageChunk>>
MCReplies == {[chunks |-> c, end |-> e] :
                 c \in {<<>>, <<Text(<<"{">>), Text(<<"w", "}">>), Text(<<"w">>)>>, TwoCalls},
                 e \in {"finished", "quiet", "cut", "error"}}
MCFailures == {[kind |-> "transport", status |-> 0, after |-> 0], [kind |-> "local", status |-> 0, after |-> 0]}
              \union {[kind |-> "status", status |-> s, after |-> a] : s \in {300, 400, 401, 429, 503}, a \in {0, 60}}

Manager == INSTANCE ProviderManager WITH Names <- {"x", "y"}, MaxProviders <- 2, Modes <- {"none", "auto"}

-------------------------------------------------------------------------------
(* Checkpointers that keep documents with and without embeddings.            *)
MCCheckpointers == {[vector |-> v, rag |-> TRUE] : v \in BOOLEAN}

-------------------------------------------------------------------------------
(* Definitions that share a graph, make one, fail to, or add custom tools;   *)
(* workflows that name an agent twice or two in another order.               *)
Says(shared, builder, tools) == [valid |-> TRUE, given |-> shared, builder |-> builder, tools |-> tools]
Making == INSTANCE AgentDefinitions WITH pc <- creating, overlapped <- together, Creators <- Callers,
    Deployments <- {"x", "y"}, Ids <- {"a"}, MaxObjects <- 2, MaxAgents <- 2,
    Definitions <- {Says(FALSE, "none", "provided"), Says(TRUE, "none", "none"), Says(TRUE, "fine", "none"),
                    Says(FALSE, "fails", "given"), [Says(FALSE, "none", "none") EXCEPT !.valid = FALSE]}
Shortcut == INSTANCE QuickBuilder WITH agents <- quickAgents, running <- busy, call <- execution, calls <- executions,
    Keys <- {{}, {"gemini"}, {"openai", "gemini"}}, Others <- {"other"}, Places <- {<<1, 1>>, <<2, 1>>},
    MaxAgents <- 2, MaxAdded <- 2, MaxCalls <- 2

-------------------------------------------------------------------------------
(* What is not the part of a behaviour stays as it began.                    *)
MCInit ==
    /\ part \in {"build", "steps", "sharing", "building", "nested", "loop", "call", "manager", "database",
                "definitions", "shortcuts"}
    /\ Init /\ SharingInit /\ NestingInit /\ LoopInit /\ Manager!Init /\ DatabaseInit /\ Making!Init
    /\ IF part = "shortcuts" THEN Shortcut!Init ELSE Shortcut!Init /\ DOMAIN config = {"ollama"}
    /\ IF part = "steps" THEN StepInit ELSE StepInit /\ passed = Empty
    /\ IF part = "call" THEN CallInit ELSE CallInit /\ asked = CHOOSE c \in MCCalls : TRUE

StateNext ==
    \/ part = "steps" /\ StepNext /\ UNCHANGED <<sharingVars, nestingVars, loopVars>>
    \/ part = "sharing" /\ SharingNext /\ UNCHANGED <<stepVars, nestingVars, loopVars>>
    \/ part = "building" /\ BuildNext /\ UNCHANGED <<stepVars, sharingVars, loopVars>>
    \/ part = "nested" /\ RunNext /\ UNCHANGED <<stepVars, sharingVars, loopVars>>
    \/ part = "loop" /\ LoopNext /\ UNCHANGED <<stepVars, sharingVars, nestingVars>>

ServiceNext ==
    \/ part = "call" /\ CallNext /\ UNCHANGED <<managerVars, databaseVars>>
    \/ part = "manager" /\ Manager!Next /\ UNCHANGED <<callVars, databaseVars>>
    \/ part = "database" /\ DatabaseNext /\ UNCHANGED <<callVars, managerVars>>

MakingNext ==
    \/ part = "definitions" /\ Making!Next /\ UNCHANGED builderVars
    \/ part = "shortcuts" /\ Shortcut!Next /\ UNCHANGED definitionVars

MCNext ==
    /\ UNCHANGED part
    /\ \/ part = "build" /\ Next /\ UNCHANGED <<stateVars, serviceVars, makingVars>>
       \/ StateNext /\ UNCHANGED <<vars, serviceVars, makingVars>>
       \/ ServiceNext /\ UNCHANGED <<vars, stateVars, makingVars>>
       \/ MakingNext /\ UNCHANGED <<vars, stateVars, serviceVars>>

MCSpec == MCInit /\ [][MCNext]_<<part, vars, stateVars, serviceVars, makingVars>>

(* The model reads the caller's words, a reply reported as complete is, the  *)
(* registry has a default that is there and usable, and agents are given the *)
(* provider their deployment or the order of preference says.                *)
ProvidersAreSound ==
    /\ part = "call" => PromptsArrive /\ RepliesAreWhole
    /\ part = "manager" => Manager!RegistryIsConsistent
    /\ part = "definitions" => Making!AgentsAreAsDefined
    /\ part = "shortcuts" => Shortcut!ShortcutsAreSound
===============================================================================
