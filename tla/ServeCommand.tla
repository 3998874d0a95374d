----------------------------- MODULE ServeCommand -----------------------------
(* The commands that follow a configuration file (cmd/golanggraph): "serve"  *)
(* and "dev" replace the agents of a live server (runServer in main.go),     *)
(* "auto" replaces the whole server (runAutoServeWithContext), "status"      *)
(* prints (runMultiAgentStatus). Editors change the file, fsnotify reports   *)
(* it, a timer of 150 ms gathers reports, servers fail and people interrupt. *)
(*                                                                           *)
(* A file is the agents it defines, or what the loader refuses.              *)
EXTENDS Naturals

CONSTANTS
    Modes,      \* of "serve", "auto", "status"
    Contents,   \* what the file may hold
    Loadable,   \* what of it loads
    MaxEdits    \* bound on the edits

VARIABLES
    mode, watch,    \* the command, and --hot-reload or --watch
    file, edits,    \* the file, and how often it was changed
    events,         \* reports of fsnotify not yet received
    watcher,        \* the goroutine of the watch: "off", "on", "swap", "done"
    timer,          \* its timer: "none", "running", or "expired"
    read,           \* what it read
    change,         \* auto: whether the channel of changes holds one
    at, inHand,     \* where the command stands, and what it read
    agents,         \* the agents in force, or printed
    cancelled,      \* SIGINT or SIGTERM
    missed          \* ghost: the last change came between the first load and the watch

vars == <<mode, watch, file, edits, events, watcher, timer, read, change, at, inHand, agents,
          cancelled, missed>>
watchVars == <<events, watcher, timer, read, change>>
given == <<mode, watch>>
outside == <<file, edits, cancelled, missed>>

Nothing == "nothing"

Init ==
    /\ mode \in Modes /\ watch \in BOOLEAN
    /\ file \in Contents /\ edits = 0 /\ events = 0
    /\ watcher = "off" /\ timer = "none" /\ read = Nothing /\ change = FALSE
    /\ at = (IF mode # "auto" THEN "load" ELSE IF watch THEN "watch" ELSE "prepare")
    /\ inHand = Nothing /\ agents = Nothing
    /\ cancelled = FALSE /\ missed = FALSE

-----------------------------------------------------------------------------
(* Outside the command. A file is written in place or renamed into place.    *)
Edit ==
    /\ edits < MaxEdits /\ edits' = edits + 1
    /\ file' \in Contents \ {file}
    /\ events' = IF watcher \in {"on", "swap"} THEN events + 1 ELSE events
    /\ missed' = (watcher = "off" /\ at # "load" /\ mode # "auto")
    /\ UNCHANGED <<given, watcher, timer, read, change, at, inHand, agents, cancelled>>

Cancel ==
    /\ ~cancelled /\ cancelled' = TRUE
    /\ UNCHANGED <<given, file, edits, watchVars, at, inHand, agents, missed>>

-----------------------------------------------------------------------------
(* The command.                                                              *)
Goto(label) == at' = label

(* loadAgentConfigs, or the configuration a status is printed of.            *)
Load ==
    /\ at = "load"
    /\ IF file \notin Loadable THEN Goto("leaving") /\ UNCHANGED <<inHand, agents>>
       ELSE IF mode = "serve" THEN Goto("replace") /\ inHand' = file /\ UNCHANGED agents
       ELSE Goto(IF watch THEN "watch" ELSE "leaving") /\ agents' = file /\ UNCHANGED inHand
    /\ UNCHANGED <<given, outside, watchVars>>

(* ReplaceAgents swaps the whole map.                                        *)
Replace ==
    /\ at = "replace"
    /\ agents' = inHand /\ inHand' = Nothing /\ Goto("check")
    /\ UNCHANGED <<given, outside, watchVars>>

(* prepareAutoServer makes a server with a registry of its own. Only the     *)
(* first is preceded by a look whether the address is free.                  *)
Prepare ==
    /\ at = "prepare"
    /\ IF file \notin Loadable THEN Goto("leaving") /\ UNCHANGED agents
       ELSE Goto(IF agents = Nothing THEN "check" ELSE "serving") /\ agents' = file
    /\ UNCHANGED <<given, outside, watchVars, inHand>>

CheckAddressAvailable ==
    /\ at = "check"
    /\ \/ Goto("leaving")
       \/ Goto(IF watch /\ mode = "serve" THEN "watch" ELSE "serving")
    /\ UNCHANGED <<given, outside, watchVars, inHand, agents>>

(* NewWatcher, Add on the directory and the goroutine, which of a status is  *)
(* the command itself.                                                       *)
Watch ==
    /\ at = "watch"
    /\ \/ Goto("leaving") /\ UNCHANGED watcher
       \/ watcher' = "on" /\ Goto(IF mode = "auto" THEN "prepare" ELSE "serving")
    /\ UNCHANGED <<given, outside, events, timer, read, change, inHand, agents>>

(* The server ends by itself, or its restart takes too long.                 *)
ServerEnds ==
    /\ at = "serving" /\ mode # "status"
    /\ Goto("leaving")
    /\ UNCHANGED <<given, outside, watchVars, inHand, agents>>

SeeCancel ==
    /\ at = "serving" /\ (cancelled \/ (mode = "status" /\ watcher = "done"))
    /\ Goto("leaving")
    /\ UNCHANGED <<given, outside, watchVars, inHand, agents>>

(* The server is stopped, waited for and replaced.                           *)
SeeChange ==
    /\ at = "serving" /\ change
    /\ change' = FALSE /\ Goto("prepare")
    /\ UNCHANGED <<given, outside, events, watcher, timer, read, inHand, agents>>

Bug_NobodyStopsTheWatch == cancelled

(* The context of the goroutine: runServer cancels it before it joins, the   *)
(* others leave that to whoever called them.                                 *)
WatchStopped == cancelled \/ (mode = "serve" /\ at = "leaving")

(* The deferred calls, which join the goroutine.                             *)
Return ==
    /\ at = "leaving" /\ watcher \in {"off", "done"}
    /\ Goto("returned")
    /\ UNCHANGED <<given, outside, watchVars, inHand, agents>>

-----------------------------------------------------------------------------
(* The goroutine.                                                            *)
Event ==
    /\ watcher = "on" /\ events > 0
    /\ events' = events - 1 /\ timer' = "running"
    /\ UNCHANGED <<given, outside, watcher, read, change, at, inHand, agents>>

Expire ==
    /\ timer = "running" /\ timer' = "expired"
    /\ UNCHANGED <<given, outside, events, watcher, read, change, at, inHand, agents>>

Bug_OnlyToAReader ==
    /\ watcher = "on" /\ timer = "expired"
    /\ timer' = "none"
    /\ IF mode = "auto" THEN change' = (change \/ at = "serving") /\ UNCHANGED <<watcher, read>>
       ELSE watcher' = "swap" /\ read' = file /\ UNCHANGED change
    /\ UNCHANGED <<given, outside, events, at, inHand, agents>>

(* The channel of changes has room for one, and another is not needed.       *)
Debounce ==
    /\ watcher = "on" /\ timer = "expired"
    /\ timer' = "none"
    /\ IF mode = "auto" THEN change' = TRUE /\ UNCHANGED <<watcher, read>>
       ELSE watcher' = "swap" /\ read' = file /\ UNCHANGED change
    /\ UNCHANGED <<given, outside, events, at, inHand, agents>>

(* replaceAgentsFromConfig or writeMultiAgentStatus: what does not load      *)
(* leaves the agents there are.                                              *)
Swap ==
    /\ watcher = "swap" /\ watcher' = "on"
    /\ agents' = IF read \in Loadable THEN read ELSE agents
    /\ read' = Nothing
    /\ UNCHANGED <<given, outside, events, timer, change, at, inHand>>

StopWatching ==
    /\ watcher = "on" /\ WatchStopped
    /\ watcher' = "done" /\ timer' = "none"
    /\ UNCHANGED <<given, outside, events, read, change, at, inHand, agents>>

-----------------------------------------------------------------------------
CommandStep == Load \/ Replace \/ Prepare \/ CheckAddressAvailable \/ Watch \/ SeeChange \/ Return
WatcherStep == Event \/ Debounce \/ Swap

Next == Edit \/ Cancel \/ ServerEnds \/ SeeCancel \/ CommandStep \/ WatcherStep \/ Expire \/ StopWatching

-----------------------------------------------------------------------------
(* runAutoServeWithContext after an error, or a server that ended, while it  *)
(* watches: it waits for a goroutine that waits for the context.             *)
WaitsForWatcher == mode = "auto" /\ watch /\ at = "leaving" /\ watcher = "on"

(* Where a command ends up. An interrupted one returns. Of the others, what  *)
(* serves follows the file if it watches and the file loads: edits, timers   *)
(* and restarts in any order lose no change but one. And what fails, or whose*)
(* server ends, returns, with one exception. Both defects are in the formula *)
(* and nothing beside them: serve and status miss a change that falls between*)
(* their first load and the start of the watch, unless another follows       *)
(* (main.go:326-328 promises to follow the file whenever it changes), and    *)
(* auto with --watch hangs in the deferred stopWatching after an error, or   *)
(* when its server ends, until it is interrupted (auto_serve_command.go:146).*)
FileFollowed ==
    /\ \/ at = "returned"
       \/ ~cancelled /\ at = "serving"
       \/ ~cancelled /\ WaitsForWatcher
    /\ at = "serving" /\ watch /\ file \in Loadable => agents = file \/ (missed /\ mode # "auto")
FollowsFile == <>[]FileFollowed
===============================================================================
