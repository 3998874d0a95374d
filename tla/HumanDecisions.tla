---------------------------- MODULE HumanDecisions ----------------------------
(* The pending decisions of an agent (pkg/agent/interrupt_manager.go,        *)
(* decision_validator.go): tool calls are put before people, several of whom *)
(* may look at the same interrupt and decide on it, while the list is        *)
(* cleared. A call is the name of its tool, a decision [type, args], args    *)
(* being the fields it brings.                                               *)
EXTENDS Naturals, Sequences

CONSTANTS
    People,         \* goroutines that interrupt and decide
    Calls,          \* what Interrupt is called with: [calls, allowed]
    Decisions,      \* decisions people send
    MaxInterrupts   \* bound on the calls of Interrupt

ASSUME DecisionsAssumption == \A interrupt \in Calls : interrupt.calls \in Seq(STRING)

VARIABLES
    interrupts,     \* InterruptManager.interrupts: id -> [calls, allowed]
    onInterrupt,    \* whether a callback is set
    person,         \* what each is in the middle of
    asked,          \* every interrupt stored so far, in order: its ID is its place
    resumed,        \* ghost: id -> the lists of decisions Resume handed back
    cleared,        \* ghost: interrupts that Clear threw away
    notified        \* ghost: interrupts the callback was called with

decisionVars == <<interrupts, onInterrupt, person, asked, resumed, cleared, notified>>

NoForm == [at |-> "idle"]
Fatal == [at |-> "fatal"]       \* where whoever ended the process stopped

DecisionsInit ==
    /\ interrupts = <<>> /\ onInterrupt = FALSE /\ person = [p \in People |-> NoForm]
    /\ asked = <<>> /\ resumed = <<>> /\ cleared = {} /\ notified = {}

(* ValidateDecision. A missing entry of allowed stands for its default.      *)
AllowedActions(interrupt, tool) ==
    IF tool \in DOMAIN interrupt.allowed THEN interrupt.allowed[tool] ELSE {"approve", "reject"}

ValidTypes == {"approve", "edit", "reject", "response"}
Needs(type) == CASE type = "edit" -> {"action", "args"} [] type = "response" -> {"response"} [] OTHER -> {}
ValidateDecision(decision, allowed) ==
    /\ decision.type \in ValidTypes \intersect allowed
    /\ Needs(decision.type) \subseteq decision.args

(* ValidateResumeCommand, and the checks of Resume.                          *)
ValidateResumeCommand(decisions, interrupt) ==
    /\ Len(decisions) = Len(interrupt.calls)
    /\ \A i \in DOMAIN decisions :
          ValidateDecision(decisions[i], AllowedActions(interrupt, interrupt.calls[i]))

-------------------------------------------------------------------------------
SetInterruptCallback ==
    /\ onInterrupt' \in BOOLEAN \ {onInterrupt}
    /\ UNCHANGED <<interrupts, person, asked, resumed, cleared, notified>>

Interrupt(p) ==
    /\ person[p] = NoForm /\ Len(asked) < MaxInterrupts
    /\ \E interrupt \in Calls :
          IF interrupt.calls = <<>> THEN UNCHANGED <<interrupts, asked, person>>
          ELSE LET id == Len(asked) + 1 IN
               /\ asked' = Append(asked, interrupt)
               /\ interrupts' = [i \in DOMAIN interrupts \union {id} |->
                                     IF i = id THEN interrupt ELSE interrupts[i]]
               /\ person' = [person EXCEPT ![p] = [at |-> "notify", id |-> id]]
    /\ UNCHANGED <<onInterrupt, resumed, cleared, notified>>

(* The callback is looked for after the lock was given back, and read again  *)
(* to be started: one that was taken away in between is nil by then, and     *)
(* starting a goroutine with nil ends the process.                           *)
Notify(p) ==
    /\ person[p].at = "notify"
    /\ person' = [person EXCEPT ![p] = IF onInterrupt THEN [@ EXCEPT !.at = "starting"] ELSE NoForm]
    /\ UNCHANGED <<interrupts, onInterrupt, asked, resumed, cleared, notified>>

StartCallback(p) ==
    /\ person[p].at = "starting"
    /\ notified' = IF onInterrupt THEN notified \union {person[p].id} ELSE notified
    /\ person' = [person EXCEPT ![p] = IF onInterrupt THEN NoForm ELSE Fatal]
    /\ UNCHANGED <<interrupts, onInterrupt, asked, resumed, cleared>>

(* GetPending, for a form shown to a person, or one of ListPending's.        *)
GetPending(p, id) ==
    /\ person[p] = NoForm /\ id \in DOMAIN interrupts
    /\ person' = [person EXCEPT ![p] = [at |-> "deciding", id |-> id]]
    /\ UNCHANGED <<interrupts, onInterrupt, asked, resumed, cleared, notified>>

Bug_TakenFirst(id, decisions) == [i \in DOMAIN interrupts \ {id} |-> interrupts[i]]

(* What stays pending: a refused decision leaves the interrupt.              *)
Remaining(id, decisions) ==
    IF ValidateResumeCommand(decisions, interrupts[id])
    THEN [i \in DOMAIN interrupts \ {id} |-> interrupts[i]] ELSE interrupts

(* Resume holds the lock from its look to its deletion.                      *)
Resume(p) ==
    /\ person[p].at = "deciding"
    /\ \E n \in 1 .. 2 : \E decisions \in [1 .. n -> Decisions] :
          LET id == person[p].id IN
          IF id \notin DOMAIN interrupts THEN UNCHANGED <<interrupts, resumed>>
          ELSE /\ interrupts' = Remaining(id, decisions)
               /\ resumed' = IF ValidateResumeCommand(decisions, interrupts[id])
                             THEN Append(resumed, [id |-> id, decisions |-> decisions]) ELSE resumed
    /\ person' = [person EXCEPT ![p] = NoForm]
    /\ UNCHANGED <<onInterrupt, asked, cleared, notified>>

Clear ==
    /\ interrupts # <<>>
    /\ cleared' = cleared \union DOMAIN interrupts /\ interrupts' = <<>>
    /\ UNCHANGED <<onInterrupt, person, asked, resumed, notified>>

(* Nobody takes a step once the process has ended.                           *)
DecisionsNext ==
    /\ \A p \in People : person[p] # Fatal
    /\ \/ SetInterruptCallback \/ Clear
       \/ \E p \in People :
             \/ Interrupt(p) \/ Notify(p) \/ StartCallback(p) \/ Resume(p)
             \/ \E id \in 1 .. MaxInterrupts : GetPending(p, id)

DecisionsSpec == DecisionsInit /\ [][DecisionsNext]_decisionVars

-------------------------------------------------------------------------------
(* Every interrupt is decided once, with one allowed decision for each of    *)
(* its calls, or cleared, or still pending, as it was asked: two people who  *)
(* look at the same form decide once between them, and a decision that is    *)
(* refused loses nothing.                                                    *)
DecidedOnce ==
    /\ \A i, j \in DOMAIN resumed : resumed[i].id = resumed[j].id => i = j
    /\ \A i \in DOMAIN resumed :
          LET interrupt == asked[resumed[i].id] IN
          /\ Len(resumed[i].decisions) = Len(interrupt.calls)
          /\ \A k \in DOMAIN interrupt.calls :
                LET tool == interrupt.calls[k] IN
                resumed[i].decisions[k].type \in
                    (IF tool \in DOMAIN interrupt.allowed THEN interrupt.allowed[tool] ELSE {"approve", "reject"})
    /\ \A id \in DOMAIN asked :
          \/ id \in DOMAIN interrupts /\ interrupts[id] = asked[id]
          \/ id \in cleared \/ \E i \in DOMAIN resumed : resumed[i].id = id
    /\ DOMAIN interrupts \intersect (cleared \union {resumed[i].id : i \in DOMAIN resumed}) = {}
===============================================================================
