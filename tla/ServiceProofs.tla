---------------------------- MODULE ServiceProofs ----------------------------
(***************************************************************************)
(* Theorems about a deployment. For every graph, and any number of         *)
(* crashes, failed saves and restarts, the state of a thread is the work   *)
(* of one walk, and no restart falls below the highest step saved. For     *)
(* any number of callers, agents and calls, the health checkers of the     *)
(* multi-agent manager follow its status, and no client gets more requests *)
(* than its budget. For any clients, sockets, agents and pipeline          *)
(* definitions, the server's registries, requests, sockets and runs agree  *)
(* with one another (ControlHolds). The metrics a generated server keeps   *)
(* are those of what it served (MetricsAreTrue).                           *)
(*                                                                         *)
(* The first part needs to know that Latest finds a checkpoint at all. Its *)
(* order is total on steps and stamps, so a best checkpoint exists as soon *)
(* as one is saved: HasBest is kept by adding a checkpoint, without        *)
(* induction on the size of the set.                                       *)
(***************************************************************************)
EXTENDS DurableThread, ManagerLifecycle, ManagerRequests, ControlPlane, RoutingProofs, SequenceTheorems,
        FiniteSetTheorems, TLAPS


Walk(w) ==
    /\ w \in Seq(Graph.nodes)
    /\ w # <<>> => w[1] = Graph.start
    /\ \A i \in 1 .. Len(w) - 1 : Leads(w[i], w[i + 1])

EndsAt(w, n) == w # <<>> /\ w[Len(w)] = n

IsCheckpoint(cp) ==
    /\ cp = [node |-> cp.node, step |-> cp.step, work |-> cp.work, stamp |-> cp.stamp]
    /\ cp.step \in Nat /\ cp.stamp \in Nat
    /\ Walk(cp.work) /\ EndsAt(cp.work, cp.node) /\ cp.step < Len(cp.work)

HasBest(S) == S # {} => \E best \in S : \A m \in S : ~Beats(m, best)

SavedInv ==
    /\ clock \in Nat
    /\ \A cp \in saved : IsCheckpoint(cp)
    /\ HasBest(saved)

RunInv ==
    /\ step \in Nat /\ Walk(work)
    /\ pc \in {"down", "loop", "save", "decide", "finished", "refused"}
    /\ pc = "loop" /\ work # <<>> => Leads(work[Len(work)], node)
    /\ pc = "loop" /\ work = <<>> => node = Graph.start
    /\ pc \in {"save", "decide"} => EndsAt(work, node)
    /\ pc \in {"loop", "decide"} => step <= Len(work)
    /\ pc = "save" => step < Len(work)

MarkInv == pc # "down" => \A cp \in saved : cp.step < Len(work)

Inv == SavedInv /\ RunInv /\ MarkInv

-----------------------------------------------------------------------------
(* Latest returns one of the checkpoints, and one of the highest step. *)
LEMMA LatestIsBest ==
    ASSUME NEW S, S # {}, HasBest(S), \A cp \in S : cp.step \in Nat /\ cp.stamp \in Nat
    PROVE  Latest(S) \in S /\ \A m \in S : m.step <= Latest(S).step
<1>1. Latest(S) \in S /\ \A m \in S : ~Beats(m, Latest(S))
    BY DEF Latest, HasBest
<1> QED BY <1>1 DEF Beats

LEMMA BestAfterAdding ==
    ASSUME NEW S, HasBest(S), \A cp \in S : cp.step \in Nat /\ cp.stamp \in Nat,
           NEW new, new.step \in Nat, new.stamp \in Nat
    PROVE  HasBest(S \cup {new})
<1>1. CASE S = {}
    BY <1>1 DEF HasBest, Beats
<1>2. CASE S # {}
    <2>1. PICK best \in S : \A m \in S : ~Beats(m, best)
        BY <1>2 DEF HasBest
    <2>2. CASE Beats(new, best)
        <3>1. \A m \in S \cup {new} : ~Beats(m, new)
            BY <2>1, <2>2 DEF Beats
        <3> QED BY <3>1 DEF HasBest
    <2>3. CASE ~Beats(new, best)
        BY <2>1, <2>3 DEF HasBest
    <2> QED BY <2>2, <2>3
<1> QED BY <1>1, <1>2

(* A walk grows by a node its last one leads to, or by the start. *)
LEMMA WalkGrows ==
    ASSUME NEW w, Walk(w), NEW n \in Graph.nodes,
           w # <<>> => Leads(w[Len(w)], n), w = <<>> => n = Graph.start
    PROVE  Walk(Append(w, n)) /\ EndsAt(Append(w, n), n) /\ Len(Append(w, n)) = Len(w) + 1
<1> DEFINE v == Append(w, n)
<1>1. /\ w \in Seq(Graph.nodes) /\ Len(w) \in Nat
      /\ v \in Seq(Graph.nodes) /\ Len(v) = Len(w) + 1 /\ v[Len(w) + 1] = n
      /\ \A i \in 1 .. Len(w) : v[i] = w[i]
    BY AppendProperties, LenProperties DEF Walk
<1>2. v # <<>> /\ EndsAt(v, n)
    BY <1>1, EmptySeq DEF EndsAt
<1>3. v[1] = Graph.start
    <2>1. CASE w = <<>>
        BY <1>1, <2>1, EmptySeq
    <2>2. CASE w # <<>>
        <3>1. Len(w) >= 1
            BY <1>1, <2>2, EmptySeq
        <3> QED BY <1>1, <2>2, <3>1 DEF Walk
    <2> QED BY <2>1, <2>2
<1>4. ASSUME NEW i \in 1 .. Len(v) - 1 PROVE Leads(v[i], v[i + 1])
    <2>1. CASE i < Len(w)
        <3>1. i \in 1 .. Len(w) - 1 /\ v[i] = w[i] /\ v[i + 1] = w[i + 1]
            BY <1>1, <2>1
        <3> QED BY <3>1 DEF Walk
    <2>2. CASE i = Len(w)
        <3>1. Len(w) >= 1 /\ w # <<>>
            BY <1>1, <2>2, EmptySeq
        <3>2. v[i] = w[Len(w)] /\ v[i + 1] = n
            BY <1>1, <2>2, <3>1
        <3> QED BY <3>1, <3>2
    <2> QED BY <1>1, <2>1, <2>2
<1> QED BY <1>1, <1>2, <1>3, <1>4 DEF Walk

LEMMA InitInv == Init => Inv
<1> SUFFICES ASSUME Init PROVE Inv
    OBVIOUS
<1>1. Walk(<<>>)
    BY EmptySeq DEF Walk
<1> QED BY <1>1 DEF Init, Inv, SavedInv, RunInv, MarkInv, HasBest

(* A decision that leads on is a step of the walk. *)
LEMMA RouteLeads ==
    ASSUME NEW m, NEW ask \in Asks(m), RouteFrom(Graph, m, ask).err = "none"
    PROVE  Leads(m, RouteFrom(Graph, m, ask).to)
<1>1. RouteFrom(Graph, m, ask) = Route(RouteFrom(Graph, m, ask).to)
    BY Zenon DEF RouteFrom, RouteByTable, RouteByEdges, Route, RouteErr
<1> QED BY <1>1 DEF Leads

LEMMA RestartKeeps == Inv /\ Restart => Inv'
<1> SUFFICES ASSUME Inv, Restart PROVE Inv'
    OBVIOUS
<1>1. SavedInv'
    BY DEF Inv, Restart, SavedInv
<1>2. CASE saved = {}
    <2>1. /\ pc' = "loop" /\ node' = Graph.start /\ step' = 0 /\ work' = <<>> /\ saved' = {}
        BY <1>2 DEF Restart, RunFrom
    <2>2. Walk(<<>>) /\ Len(<<>>) = 0
        BY EmptySeq DEF Walk
    <2> QED BY <1>1, <2>1, <2>2 DEF Inv, RunInv, MarkInv
<1>3. CASE saved # {}
    <2> DEFINE cp == Latest(saved)
    <2>1. cp \in saved /\ \A m \in saved : m.step <= cp.step
        BY <1>3, LatestIsBest DEF Inv, SavedInv, IsCheckpoint
    <2>2. PICK ask \in Asks(cp.node) :
            LET next == RouteFrom(Graph, cp.node, ask)
            IN  CASE next.err # "none" -> UNCHANGED <<pc, node, step, work>>
                  [] next.err = "none" /\ next.to = NoName ->
                       pc' = "finished" /\ work' = cp.work /\ UNCHANGED <<node, step>>
                  [] OTHER -> RunFrom(next.to, cp.work)
        BY <1>3 DEF Restart
    <2> DEFINE next == RouteFrom(Graph, cp.node, ask)
    <2>3. saved' = saved /\ pc = "down"
        BY DEF Restart
    <2>4. IsCheckpoint(cp) /\ Len(cp.work) \in Nat
        BY <2>1, LenProperties DEF Inv, SavedInv, IsCheckpoint, Walk
    <2>5. \A m \in saved : m.step < Len(cp.work)
        BY <2>1, <2>4 DEF IsCheckpoint, Inv, SavedInv
    <2>6. CASE next.err # "none"
        <3>1. UNCHANGED <<pc, node, step, work>>
            BY <2>2, <2>6
        <3> QED BY <1>1, <2>3, <3>1 DEF Inv, RunInv, MarkInv
    <2>7. CASE next.err = "none" /\ next.to = NoName
        <3>1. pc' = "finished" /\ work' = cp.work /\ step' = step
            BY <2>2, <2>7
        <3> QED BY <1>1, <2>3, <2>4, <2>5, <3>1 DEF Inv, RunInv, MarkInv, IsCheckpoint
    <2>8. CASE next.err = "none" /\ next.to # NoName
        <3>1. pc' = "loop" /\ node' = next.to /\ step' = 0 /\ work' = cp.work
            BY <2>2, <2>8 DEF RunFrom
        <3>2. Leads(cp.node, next.to)
            BY <2>8, RouteLeads
        <3>3. Leads(work'[Len(work')], node')
            BY <2>4, <3>1, <3>2 DEF IsCheckpoint, EndsAt
        <3> QED BY <1>1, <2>3, <2>4, <2>5, <3>1, <3>3 DEF Inv, RunInv, MarkInv, IsCheckpoint, EndsAt
    <2> QED BY <2>6, <2>7, <2>8
<1> QED BY <1>2, <1>3

LEMMA RunNodeKeeps == Inv /\ RunNode => Inv'
<1> SUFFICES ASSUME Inv, RunNode PROVE Inv'
    OBVIOUS
<1>1. SavedInv' /\ saved' = saved /\ step' = step /\ node' = node
    BY DEF Inv, RunNode, SavedInv
<1>2. Len(work) \in Nat
    BY LenProperties DEF Inv, RunInv, Walk
<1>3. CASE node \in Graph.nodes
    <2>1. pc' = "save" /\ work' = Append(work, node)
        BY <1>3 DEF RunNode
    <2>2. Walk(work') /\ EndsAt(work', node) /\ Len(work') = Len(work) + 1
        BY <1>3, <2>1, WalkGrows DEF Inv, RunInv, RunNode
    <2>3. \A cp \in saved : cp.step < Len(work')
        BY <1>2, <2>2 DEF Inv, MarkInv, SavedInv, IsCheckpoint, RunNode
    <2> QED BY <1>1, <1>2, <2>1, <2>2, <2>3 DEF Inv, RunInv, MarkInv, RunNode
<1>4. CASE node \notin Graph.nodes
    BY <1>1, <1>4 DEF Inv, RunInv, MarkInv, RunNode
<1> QED BY <1>3, <1>4

LEMMA SaveKeeps == Inv /\ Save => Inv'
<1> SUFFICES ASSUME Inv, Save PROVE Inv'
    OBVIOUS
<1>1. Len(work) \in Nat
    BY LenProperties DEF Inv, RunInv, Walk
<1>2. pc' = "decide" /\ step' = step + 1 /\ node' = node /\ work' = work /\ pc = "save"
    BY DEF Save
<1>3. RunInv'
    BY <1>1, <1>2 DEF Inv, RunInv
<1>4. CASE saved' = saved /\ clock' = clock
    BY <1>2, <1>3, <1>4 DEF Inv, SavedInv, MarkInv
<1>5. CASE /\ saved' = saved \cup {[node |-> node, step |-> step, work |-> work,
                                   stamp |-> clock + 1]}
           /\ clock' = clock + 1
    <2> DEFINE new == [node |-> node, step |-> step, work |-> work, stamp |-> clock + 1]
    <2>1. IsCheckpoint(new)
        BY <1>2 DEF Inv, RunInv, SavedInv, IsCheckpoint
    <2>2. HasBest(saved \cup {new})
        <3> HIDE DEF new
        <3> QED BY <2>1, BestAfterAdding DEF Inv, SavedInv, IsCheckpoint
    <2>3. SavedInv'
        BY <1>5, <2>1, <2>2 DEF Inv, SavedInv
    <2>4. new.step < Len(work)
        BY <1>2 DEF Inv, RunInv
    <2>5. MarkInv'
        BY <1>2, <1>5, <2>4 DEF Inv, MarkInv
    <2> QED BY <1>3, <2>3, <2>5 DEF Inv
<1> QED BY <1>4, <1>5 DEF Save

LEMMA DecideKeeps == Inv /\ Decide => Inv'
<1> SUFFICES ASSUME Inv, Decide PROVE Inv'
    OBVIOUS
<1>1. SavedInv' /\ saved' = saved /\ step' = step /\ work' = work /\ pc = "decide"
    BY DEF Inv, Decide, SavedInv
<1>2. CASE pc' \in {"finished", "down"}
    BY <1>1, <1>2 DEF Inv, RunInv, MarkInv
<1>3. CASE ~ (pc' \in {"finished", "down"})
    <2>1. PICK ask \in Asks(node) : Follow(RouteFrom(Graph, node, ask))
        BY <1>3 DEF Decide
    <2>2. /\ RouteFrom(Graph, node, ask).err = "none"
          /\ pc' = "loop" /\ node' = RouteFrom(Graph, node, ask).to
        BY <1>3, <2>1 DEF Follow
    <2>3. Leads(node, node')
        BY <2>2, RouteLeads
    <2>4. EndsAt(work, node) /\ step <= Len(work)
        BY <1>1 DEF Inv, RunInv
    <2> QED BY <1>1, <2>2, <2>3, <2>4 DEF Inv, RunInv, MarkInv, EndsAt
<1> QED BY <1>2, <1>3

LEMMA NextInv == Inv /\ [Next]_vars => Inv'
<1> SUFFICES ASSUME Inv, [Next]_vars PROVE Inv'
    OBVIOUS
<1>1. CASE Restart
    BY <1>1, RestartKeeps
<1>2. CASE RunNode
    BY <1>2, RunNodeKeeps
<1>3. CASE Save
    BY <1>3, SaveKeeps
<1>4. CASE Decide
    BY <1>4, DecideKeeps
<1>5. CASE Fault
    BY <1>5 DEF Fault, Inv, SavedInv, RunInv, MarkInv
<1>6. CASE UNCHANGED vars
    BY <1>6 DEF vars, Inv, SavedInv, RunInv, MarkInv
<1> QED BY <1>1, <1>2, <1>3, <1>4, <1>5, <1>6 DEF Next, Run

(* However often the process dies, whatever was not saved and whatever the *)
(* conditions answer, the state of the thread is the work of one walk of   *)
(* the graph from its start (ExecuteWithOptions after persistence.Latest   *)
(* and GetNextNodes).                                                      *)
THEOREM WorkIsOneWalk == Spec => []WorkIsAWalk
<1>1. Inv => WorkIsAWalk
    BY DEF Inv, RunInv, Walk, WorkIsAWalk
<1> QED BY <1>1, InitInv, NextInv, PTL DEF Spec

(* The state of a run always holds more nodes than the highest step number *)
(* saved on its thread: Latest puts the longest run first.                 *)
THEOREM StepsSurvive == Spec => []SavedStepsSurvive
<1>1. Inv => SavedStepsSurvive
    <2> SUFFICES ASSUME Inv PROVE SavedStepsSurvive
        OBVIOUS
    <2>1. Len(work) \in Nat
        BY LenProperties DEF Inv, RunInv, Walk
    <2> QED BY <2>1 DEF Inv, MarkInv, SavedInv, IsCheckpoint, SavedStepsSurvive
<1> QED BY <1>1, InitInv, NextInv, PTL DEF Spec

(* Both together, for every graph and any number of crashes, node errors   *)
(* and failed saves between a restart and the next.                        *)
THEOREM ThreadSurvives == Spec => []WorkSurvives
    BY WorkIsOneWalk, StepsSurvive, PTL DEF WorkSurvives

-----------------------------------------------------------------------------
(* The manager and its health checkers.                                      *)
Statuses == {"initialized", "starting", "running", "stopping", "stopped", "error"}
Verdicts == {"unknown", "healthy", "degraded", "unhealthy"}
Reports == [status : Verdicts, fails : Nat]
Places == {"idle", "starting", "launch", "running", "stopping", "cancel", "cancelling", "waiting",
           "stopped", "build", "setup", "failed"}

ManagerCall == [at : Places, op : {"none", "start", "stop", "restart"},
         ctx : {"none", "live", "expired"}, gen : Nat, call : Nat]
Check == [by : Callers \cup {Ticker}, gen : Nat, set : Nat, agent : Agents,
          at : {"tick", "probe", "tell"}, verdict : Verdicts]

LifecycleTyped ==
    /\ status \in Statuses
    /\ health \in [Agents -> Verdicts]
    /\ checkerSet \in Nat
    /\ report \in [0..MaxRestarts -> [Agents -> Reports]]
    /\ gens \in Nat /\ running \in 0..gens /\ cancelled \subseteq 1..gens
    /\ checks \subseteq Check
    /\ waiters \in [1..MaxCalls -> {"none", "waiting", "woken", "done"}]
    /\ calling \in [Callers -> ManagerCall]
    /\ calls \in Nat /\ left \in Nat \X Nat /\ calls + left[1] <= MaxCalls
    /\ crashed \in BOOLEAN /\ mixed \in BOOLEAN

(* Goroutines of checkers carry a generation that was launched; the running  *)
(* one has not been cancelled and nobody is about to; and every other that   *)
(* still has goroutines has been cancelled, or somebody is about to.         *)
GenerationInv ==
    /\ \A k \in Goroutines :
          /\ k.gen \in 1..gens
          /\ \/ k.gen = running
             \/ k.gen \in cancelled
             \/ \E c \in Callers : calling[c].at = "cancelling" /\ calling[c].gen = k.gen
    /\ running \notin cancelled
    /\ \A c \in Callers : calling[c].at = "cancelling" => calling[c].gen \in (1..gens) \ {running}

InCall(c) == calling[c] # Idle
Quiet == /\ \A k \in Goroutines : k.gen = running
         /\ running # 0 => {k.agent : k \in Goroutines} = Agents
HasEnded == running = 0 /\ Goroutines = {}

(* What a call that nothing overlaps finds at each of its steps.             *)
At(c) ==
    LET p == calling[c] IN
    /\ p.call \in 1..MaxCalls
    /\ p.at \in {"starting", "launch"} =>
          /\ p.op = "start" => Quiet
          /\ p.op # "start" => HasEnded
    /\ p.at = "running" => Quiet /\ running # 0
    /\ p.at \in {"stopping", "cancel"} => Quiet /\ p.gen = 0
    /\ p.at \in {"stopping", "cancel", "cancelling", "waiting", "stopped"} => p.op # "start"
    /\ p.at = "cancelling" => running = 0
    /\ p.at = "waiting" =>
          /\ running = 0
          /\ waiters[p.call] \in {"woken", "done"} => Goroutines = {}
    /\ p.at = "stopped" => HasEnded /\ p.gen = 0
    /\ p.at \in {"build", "setup", "failed"} => HasEnded /\ status # "running"
    /\ p.at \in {"build", "setup"} => p.op = "restart"
    /\ p.op = "restart" /\ p.at \notin {"starting", "launch", "running", "failed"} => checkerSet < MaxRestarts

(* As long as nothing overlapped: one call at a time, with the checks that   *)
(* callers ask for in between, of an agent one at a time.                    *)
AloneInv ==
    /\ ~crashed
    /\ \A c, d \in Callers : InCall(c) /\ InCall(d) => c = d
    /\ \A c \in Callers : InCall(c) => checks = Goroutines /\ At(c)
    /\ (\A c \in Callers : ~InCall(c)) => Quiet /\ (status = "running" <=> running # 0)
    /\ \A n \in 1..MaxCalls :
          /\ waiters[n] = "woken" => Goroutines = {}
          /\ waiters[n] \in {"waiting", "woken"} =>
                \E c \in Callers : calling[c].at = "waiting" /\ calling[c].call = n
    /\ checkerSet <= MaxRestarts
    /\ \A s \in 0..MaxRestarts : s > checkerSet => report[s] = [a \in Agents |-> Unknown]
    /\ \A k \in checks : k.set = checkerSet
    /\ \A k, o \in checks : k.agent = o.agent /\ k.at # "tick" /\ o.at # "tick" => k = o

(* What is known of an agent is what its checker found last, except between  *)
(* its check and the update, or a Restart's new agents and new checkers.     *)
HealthInv ==
    /\ \A k \in checks : k.at = "tell" => k.verdict = HealthOf(report[checkerSet][k.agent])
    /\ \A c \in Callers : calling[c].at = "setup" => \A a \in Agents : health[a] = "unknown"
    /\ (\A c \in Callers : calling[c].at # "setup") =>
          \A a \in Agents : (\A k \in checks : k.agent = a => k.at # "tell")
                               => health[a] = HealthOf(report[checkerSet][a])

LifecycleInv ==
    /\ LifecycleTyped /\ GenerationInv
    /\ ~mixed => AloneInv /\ HealthInv

LEMMA MostCalls == MaxCalls \in Nat /\ \A b \in Budgets : b[1] <= MaxCalls
<1>1. PICK most \in Budgets : \A b \in Budgets : b[1] <= most[1]
  BY LifecycleAssumption
<1>2. \E n \in {b[1] : b \in Budgets} : \A b \in Budgets : b[1] <= n
  BY <1>1
<1>3. MaxCalls \in {b[1] : b \in Budgets} /\ \A b \in Budgets : b[1] <= MaxCalls
  BY <1>2 DEF MaxCalls
<1> QED
  BY <1>3, LifecycleAssumption

LEMMA LifecycleBegins == LifecycleInit => LifecycleInv
<1> SUFFICES ASSUME LifecycleInit PROVE LifecycleInv
  OBVIOUS
<1>1. Goroutines = {}
  BY DEF LifecycleInit, Goroutines
<1>2. \A c \in Callers : calling[c] = Idle
  BY DEF LifecycleInit
<1>3. left \in Nat \X Nat /\ 0 + left[1] <= MaxCalls /\ MaxCalls \in Nat
  BY MostCalls, LifecycleAssumption DEF LifecycleInit
<1>4. report \in [0..MaxRestarts -> [Agents -> Reports]]
  BY LifecycleAssumption DEF LifecycleInit, Unknown, Reports, Verdicts
<1>5. LifecycleTyped
  <2>1. Idle \in ManagerCall
    BY DEF Idle, ManagerCall, Places
  <2>2. calling \in [Callers -> ManagerCall]
    BY <2>1 DEF LifecycleInit
  <2>3. health \in [Agents -> Verdicts]
    BY DEF LifecycleInit, Verdicts
  <2>4. waiters \in [1..MaxCalls -> {"none", "waiting", "woken", "done"}]
    BY DEF LifecycleInit
  <2>5. checks = {} /\ calls = 0 /\ status \in Statuses /\ checkerSet \in Nat
    BY DEF LifecycleInit, Statuses
  <2>6. gens \in Nat /\ running \in 0..gens /\ cancelled \subseteq 1..gens
    BY DEF LifecycleInit
  <2>7. crashed \in BOOLEAN /\ mixed \in BOOLEAN
    BY DEF LifecycleInit
  <2> QED
    BY <1>3, <1>4, <2>2, <2>3, <2>4, <2>5, <2>6, <2>7 DEF LifecycleTyped
<1>6. GenerationInv
  BY <1>1, <1>2 DEF LifecycleInit, GenerationInv, Idle
<1>7. AloneInv
  <2>1. \A s \in 0..MaxRestarts : report[s] = [a \in Agents |-> Unknown]
    BY DEF LifecycleInit
  <2>2. 0 <= MaxRestarts
    BY LifecycleAssumption
  <2> QED
    BY <1>1, <1>2, <2>1, <2>2 DEF LifecycleInit, AloneInv, InCall, Quiet
<1>8. HealthInv
  <2>1. \A a \in Agents : HealthOf(report[checkerSet][a]) = "unknown"
    BY LifecycleAssumption DEF LifecycleInit, HealthOf, Unknown
  <2> QED
    BY <1>2, <2>1 DEF LifecycleInit, HealthInv, Idle
<1> QED
  BY <1>5, <1>6, <1>7, <1>8 DEF LifecycleInv

LEMMA CallMoves ==
    ASSUME NEW F \in [Callers -> ManagerCall], NEW c \in Callers, NEW at \in Places
    PROVE  [F EXCEPT ![c].at = at] \in [Callers -> ManagerCall]
<1> DEFINE p == [F[c] EXCEPT !.at = at]
<1>1. p \in ManagerCall
  BY DEF ManagerCall
<1> QED
  BY <1>1

LEMMA LifecycleTypes ==
    LifecycleTyped /\ GenerationInv /\ [LifecycleNext]_lifecycleVars => LifecycleTyped'
<1> SUFFICES ASSUME LifecycleTyped, GenerationInv, [LifecycleNext]_lifecycleVars PROVE LifecycleTyped'
  OBVIOUS
<1> USE DEF LifecycleTyped
<1> Idle \in ManagerCall
  BY DEF Idle, ManagerCall, Places
<1>1. ASSUME NEW c \in Callers, NEW op \in {"start", "stop", "restart"}, NEW ctx \in {"none", "live"},
             Begin(c, op, ctx)
      PROVE  LifecycleTyped'
  <2>1. left' \in Nat \X Nat /\ calls' \in Nat /\ calls' + left'[1] <= MaxCalls
    <3>1. left[1] \in Nat /\ left[2] \in Nat /\ left[1] > 0
      BY <1>1 DEF Begin
    <3>2. left' = <<left[1] - 1, left[2]>> /\ calls' = calls + 1
      BY <1>1 DEF Begin
    <3> QED
      BY <3>1, <3>2, MostCalls
  <2> DEFINE p == [at |-> IF op = "start" THEN "starting" ELSE "stopping",
                   op |-> op, ctx |-> ctx, gen |-> 0, call |-> calls + 1]
  <2>3. p \in ManagerCall
    BY DEF ManagerCall, Places
  <2>4. calling' = [calling EXCEPT ![c] = p] /\ mixed' \in BOOLEAN
    BY <1>1 DEF Begin
  <2>5. UNCHANGED <<status, health, checkerSet, report, running, gens, cancelled, checks, waiters, crashed>>
    BY <1>1 DEF Begin
  <2> HIDE DEF p
  <2>6. calling' \in [Callers -> ManagerCall]
    BY <2>3, <2>4
  <2> QED
    BY <2>1, <2>4, <2>5, <2>6
<1>2. ASSUME NEW c \in Callers, SetStatus(c) PROVE LifecycleTyped'
  <2>1. \/ \E at \in Places : calling' = [calling EXCEPT ![c].at = at]
        \/ calling' = [calling EXCEPT ![c] = Idle]
    BY <1>2 DEF SetStatus, Goto, Done, Places
  <2>2. calling' \in [Callers -> ManagerCall]
    BY <2>1, CallMoves
  <2>3. status' \in Statuses
    BY <1>2 DEF SetStatus, Statuses
  <2> QED
    BY <1>2, <2>2, <2>3 DEF SetStatus
<1>3. ASSUME NEW c \in Callers, Launch(c) PROVE LifecycleTyped'
  <2>1. gens' \in Nat /\ running' \in 0..gens' /\ cancelled' \subseteq 1..gens'
    BY <1>3 DEF Launch
  <2>2. checks' \subseteq checks \cup {[by |-> Ticker, gen |-> gens + 1, set |-> checkerSet, agent |-> a,
                                        at |-> "tick", verdict |-> "unknown"] : a \in Agents}
    BY <1>3 DEF Launch
  <2>3. checks' \subseteq Check
    BY <2>2 DEF Verdicts, Check
  <2>4. calling' \in [Callers -> ManagerCall]
    <3>1. calling' = [calling EXCEPT ![c].at = "running"] /\ "running" \in Places
      BY <1>3 DEF Launch, Goto, Places
    <3> QED
      BY <3>1, CallMoves
  <2> QED
    BY <1>3, <2>1, <2>3, <2>4 DEF Launch
<1>4. ASSUME NEW c \in Callers, TakeCancel(c) PROVE LifecycleTyped'
  <2> DEFINE next == IF running = 0 THEN "stopped" ELSE "cancelling"
             p == [calling[c] EXCEPT !.gen = running, !.at = next]
  <2>1. p \in ManagerCall
    <3>1. next \in Places /\ running \in Nat
      BY DEF Places
    <3> HIDE DEF next
    <3> QED
      BY <3>1 DEF ManagerCall
  <2>2. calling' = [calling EXCEPT ![c] = p]
    BY <1>4 DEF TakeCancel
  <2> HIDE DEF p
  <2>3. calling' \in [Callers -> ManagerCall]
    BY <2>1, <2>2
  <2> QED
    BY <1>4, <2>3 DEF TakeCancel
<1>5. ASSUME NEW c \in Callers, Cancel(c) PROVE LifecycleTyped'
  <2>1. calling' \in [Callers -> ManagerCall]
    <3>1. calling' = [calling EXCEPT ![c].at = "waiting"] /\ "waiting" \in Places
      BY <1>5 DEF Cancel, Goto, Places
    <3> QED
      BY <3>1, CallMoves
  <2>2. cancelled' \subseteq 1..gens
    BY <1>5 DEF Cancel, CancelledBy, GenerationInv
  <2>3. waiters' \in [1..MaxCalls -> {"none", "waiting", "woken", "done"}]
    BY <1>5 DEF Cancel
  <2> QED
    BY <1>5, <2>1, <2>2, <2>3 DEF Cancel
<1>6. ASSUME NEW c \in Callers, Joined(c) PROVE LifecycleTyped'
  <2> DEFINE p == [calling[c] EXCEPT !.at = "stopped", !.gen = 0]
  <2>1. p \in ManagerCall
    BY DEF ManagerCall, Places
  <2>2. calling' = [calling EXCEPT ![c] = p]
    BY <1>6 DEF Joined
  <2> HIDE DEF p
  <2>3. calling' \in [Callers -> ManagerCall]
    BY <2>1, <2>2
  <2> QED
    BY <1>6, <2>3 DEF Joined
<1>7. ASSUME NEW c \in Callers, TimesOut(c) PROVE LifecycleTyped'
  <2>1. calling' = [calling EXCEPT ![c].at = "stopped"] /\ "stopped" \in Places
    BY <1>7 DEF TimesOut, Goto, Places
  <2>2. calling' \in [Callers -> ManagerCall]
    BY <2>1, CallMoves
  <2> QED
    BY <1>7, <2>2 DEF TimesOut
<1>8. ASSUME NEW c \in Callers, NEW ok \in BOOLEAN, Build(c, ok) PROVE LifecycleTyped'
  <2>1. \E at \in Places : calling' = [calling EXCEPT ![c].at = at]
    BY <1>8 DEF Build, Goto, Places
  <2>2. calling' \in [Callers -> ManagerCall]
    BY <2>1, CallMoves
  <2>3. health' \in [Agents -> Verdicts]
    BY <1>8 DEF Build, Verdicts
  <2> QED
    BY <1>8, <2>2, <2>3 DEF Build
<1>9. ASSUME NEW c \in Callers, SetupHealthChecking(c) PROVE LifecycleTyped'
  <2>1. \/ \E at \in Places : calling' = [calling EXCEPT ![c].at = at]
        \/ calling' = [calling EXCEPT ![c] = Idle]
    BY <1>9 DEF SetupHealthChecking, Goto, Done, Places
  <2>2. calling' \in [Callers -> ManagerCall]
    BY <2>1, CallMoves
  <2> QED
    BY <1>9, <2>2 DEF SetupHealthChecking
<1>10. ASSUME NEW c \in Callers, Expire(c) PROVE LifecycleTyped'
  <2> DEFINE p == [calling[c] EXCEPT !.ctx = "expired"]
  <2>1. p \in ManagerCall
    BY DEF ManagerCall
  <2>2. calling' = [calling EXCEPT ![c] = p]
    BY <1>10 DEF Expire
  <2> HIDE DEF p
  <2>3. calling' \in [Callers -> ManagerCall]
    BY <2>1, <2>2
  <2> QED
    BY <1>10, <2>3 DEF Expire
<1>11. ASSUME NEW c \in Callers, NEW a \in Agents, CheckNow(c, a) PROVE LifecycleTyped'
  <2> DEFINE k == [by |-> c, gen |-> 0, set |-> checkerSet, agent |-> a, at |-> "probe", verdict |-> "unknown"]
  <2>1. k \in Check
    BY DEF Check, Verdicts
  <2>2. left' \in Nat \X Nat /\ calls' \in Nat /\ calls' + left'[1] <= MaxCalls
    <3>1. left[1] \in Nat /\ left[2] \in Nat /\ left[1] > 0 /\ left[2] > 0
      BY <1>11 DEF CheckNow
    <3>2. left' = <<left[1] - 1, left[2] - 1>> /\ calls' = calls + 1
      BY <1>11 DEF CheckNow
    <3> QED
      BY <3>1, <3>2, MostCalls
  <2>3. checks' \subseteq Check
    BY <1>11, <2>1 DEF CheckNow
  <2> QED
    BY <1>11, <2>2, <2>3 DEF CheckNow
<1>12. ASSUME NEW k \in checks, Tick(k) PROVE LifecycleTyped'
  <2>1. [k EXCEPT !.at = "probe"] \in Check
    BY DEF Check
  <2>2. checks' \subseteq Check
    BY <1>12, <2>1 DEF Tick
  <2>3. left' \in Nat \X Nat /\ left'[1] = left[1]
    <3>1. left[1] \in Nat /\ left[2] \in Nat /\ left[2] > 0 /\ left' = <<left[1], left[2] - 1>>
      BY <1>12 DEF Tick
    <3> QED
      BY <3>1
  <2> QED
    BY <1>12, <2>2, <2>3 DEF Tick
<1>13. ASSUME NEW k \in checks, Exit(k) PROVE LifecycleTyped'
  BY <1>13 DEF Exit
<1>14. ASSUME NEW k \in checks, Tell(k) PROVE LifecycleTyped'
  <2>1. k \in Check
    OBVIOUS
  <2>2. [k EXCEPT !.at = "tick", !.verdict = "unknown"] \in Check
    BY <2>1 DEF Check, Verdicts
  <2>3. checks' \subseteq Check
    BY <1>14, <2>2 DEF Tell
  <2>4. health' \in [Agents -> Verdicts]
    BY <1>14, <2>1 DEF Tell, Check
  <2> QED
    BY <1>14, <2>3, <2>4 DEF Tell
<1>15. ASSUME NEW k \in checks, NEW ok \in BOOLEAN, Probe(k, ok) PROVE LifecycleTyped'
  <2> DEFINE r == Recorded(report[k.set][k.agent], ok)
  <2>1. k \in Check
    OBVIOUS
  <2>2. HealthOf(r) \in Verdicts
    BY DEF Recorded, HealthOf, Verdicts
  <2>3. [k EXCEPT !.at = "tell", !.verdict = HealthOf(r)] \in Check
    BY <2>1, <2>2 DEF Check
  <2>4. checks' \subseteq Check
    BY <1>15, <2>3 DEF Probe
  <2>5. report' = [report EXCEPT ![k.set][k.agent] = r]
    BY <1>15 DEF Probe
  <2>6. k.set \in 0..MaxRestarts => r \in Reports
    BY <2>1 DEF Recorded, Reports, Verdicts, Check
  <2> HIDE DEF r
  <2>7. report' \in [0..MaxRestarts -> [Agents -> Reports]]
    BY <2>1, <2>5, <2>6 DEF Check
  <2> QED
    BY <1>15, <2>4, <2>7 DEF Probe
<1>16. ASSUME NEW n \in DOMAIN waiters, Woken(n) PROVE LifecycleTyped'
  BY <1>16 DEF Woken
<1>17. CASE UNCHANGED lifecycleVars
  BY <1>17 DEF lifecycleVars
<1> QED
  BY <1>1, <1>2, <1>3, <1>4, <1>5, <1>6, <1>7, <1>8, <1>9, <1>10, <1>11, <1>12, <1>13, <1>14, <1>15,
     <1>16, <1>17 DEF LifecycleNext, CallerStep, CheckStep

(* A check that goes on is a check of the same agent by the same goroutine.  *)
LEMMA CheckMoves ==
    ASSUME NEW k \in checks, NEW k2, k2.by = k.by, k2.gen = k.gen, k2.agent = k.agent,
           checks' = (checks \ {k}) \cup {k2}
    PROVE  /\ \A g \in Goroutines' : \E o \in Goroutines : o.gen = g.gen /\ o.agent = g.agent
           /\ \A g \in Goroutines : \E o \in Goroutines' : o.gen = g.gen /\ o.agent = g.agent
BY DEF Goroutines

(* Tick, Probe and Tell move one check on; that of a caller is over when it  *)
(* has been told.                                                            *)
LEMMA CheckGoesOn ==
    ASSUME LifecycleTyped, NEW k \in checks, Tick(k) \/ Tell(k) \/ \E ok \in BOOLEAN : Probe(k, ok)
    PROVE  /\ \A g \in Goroutines' : \E o \in Goroutines : o.gen = g.gen /\ o.agent = g.agent
           /\ \A g \in Goroutines : \E o \in Goroutines' : o.gen = g.gen /\ o.agent = g.agent
           /\ UNCHANGED <<running, gens, cancelled, calling, waiters, status, checkerSet, crashed>>
<1>0. k \in Check
  BY DEF LifecycleTyped
<1>1. CASE Tick(k)
  <2>1. checks' = (checks \ {k}) \cup {[k EXCEPT !.at = "probe"]}
    BY <1>1 DEF Tick
  <2>2. LET k2 == [k EXCEPT !.at = "probe"] IN k2.by = k.by /\ k2.gen = k.gen /\ k2.agent = k.agent
    BY <1>0 DEF Check
  <2> QED
    BY <1>1, <2>1, <2>2, CheckMoves DEF Tick
<1>2. CASE Tell(k) /\ k.by = Ticker
  <2>1. checks' = (checks \ {k}) \cup {[k EXCEPT !.at = "tick", !.verdict = "unknown"]}
    BY <1>2 DEF Tell
  <2>2. LET k2 == [k EXCEPT !.at = "tick", !.verdict = "unknown"]
        IN  k2.by = k.by /\ k2.gen = k.gen /\ k2.agent = k.agent
    BY <1>0 DEF Check
  <2> QED
    BY <1>2, <2>1, <2>2, CheckMoves DEF Tell
<1>3. CASE Tell(k) /\ k.by # Ticker
  <2>1. checks' = checks \ {k}
    BY <1>3 DEF Tell
  <2>2. Goroutines' = Goroutines
    BY <1>3, <2>1 DEF Goroutines
  <2> QED
    BY <1>3, <2>2 DEF Tell
<1>4. ASSUME NEW ok \in BOOLEAN, Probe(k, ok)
      PROVE  /\ \A g \in Goroutines' : \E o \in Goroutines : o.gen = g.gen /\ o.agent = g.agent
             /\ \A g \in Goroutines : \E o \in Goroutines' : o.gen = g.gen /\ o.agent = g.agent
             /\ UNCHANGED <<running, gens, cancelled, calling, waiters, status, checkerSet, crashed>>
  <2> DEFINE v == HealthOf(Recorded(report[k.set][k.agent], ok))
             k2 == [k EXCEPT !.at = "tell", !.verdict = v]
  <2>1. checks' = (checks \ {k}) \cup {k2}
    BY <1>4 DEF Probe
  <2>2. k2.by = k.by /\ k2.gen = k.gen /\ k2.agent = k.agent
    BY <1>0 DEF Check
  <2> HIDE DEF k2
  <2> QED
    BY <1>4, <2>1, <2>2, CheckMoves DEF Probe
<1> QED
  BY <1>1, <1>2, <1>3, <1>4

LEMMA GenerationsStep ==
    LifecycleTyped /\ GenerationInv /\ [LifecycleNext]_lifecycleVars => GenerationInv'
<1> SUFFICES ASSUME LifecycleTyped, GenerationInv, [LifecycleNext]_lifecycleVars PROVE GenerationInv'
  OBVIOUS
<1>0. /\ running \in 0..gens /\ gens \in Nat /\ cancelled \subseteq 1..gens
      /\ calling \in [Callers -> ManagerCall] /\ checks \subseteq Check
  BY DEF LifecycleTyped
<1>1. ASSUME UNCHANGED <<running, gens, cancelled, checks>>,
             \A c \in Callers : calling'[c].at = "cancelling" <=> calling[c].at = "cancelling",
             \A c \in Callers : calling[c].at = "cancelling" => calling'[c].gen = calling[c].gen
      PROVE  GenerationInv'
  BY <1>1 DEF GenerationInv, Goroutines
<1>2. ASSUME NEW c \in Callers, NEW op \in {"start", "stop", "restart"}, NEW ctx \in {"none", "live"},
             Begin(c, op, ctx)
      PROVE  GenerationInv'
  <2>1. calling[c].at # "cancelling" /\ calling'[c].at # "cancelling"
    BY <1>0, <1>2 DEF Begin, Idle
  <2>2. \A d \in Callers \ {c} : calling'[d] = calling[d]
    BY <1>0, <1>2 DEF Begin
  <2> QED
    BY <1>1, <1>2, <2>1, <2>2 DEF Begin
<1>3. ASSUME NEW c \in Callers, SetStatus(c) PROVE GenerationInv'
  <2>1. calling[c].at # "cancelling" /\ calling'[c].at # "cancelling"
    <3>1. calling[c].at # "cancelling"
      BY <1>3 DEF SetStatus
    <3>2. \/ \E at \in Places \ {"cancelling"} : calling' = [calling EXCEPT ![c].at = at]
          \/ calling' = [calling EXCEPT ![c] = Idle]
      BY <1>3 DEF SetStatus, Goto, Done, Places
    <3>3. CASE calling' = [calling EXCEPT ![c] = Idle]
      <4>1. calling'[c] = Idle
        BY <1>0, <3>3
      <4> QED
        BY <3>1, <4>1 DEF Idle
    <3>4. ASSUME NEW at \in Places \ {"cancelling"}, calling' = [calling EXCEPT ![c].at = at]
          PROVE  calling'[c].at # "cancelling"
      <4>1. calling[c] \in ManagerCall
        BY <1>0
      <4>2. calling'[c] = [calling[c] EXCEPT !.at = at]
        BY <1>0, <3>4
      <4>3. calling'[c].at = at
        BY <4>1, <4>2 DEF ManagerCall
      <4> QED
        BY <4>3
    <3> QED
      BY <3>1, <3>2, <3>3, <3>4
  <2>2. \A d \in Callers \ {c} : calling'[d] = calling[d]
    BY <1>0, <1>3 DEF SetStatus, Goto, Done
  <2> QED
    BY <1>1, <1>3, <2>1, <2>2 DEF SetStatus
<1>4. ASSUME NEW c \in Callers, Launch(c), MayLaunch PROVE GenerationInv'
  <2>1. running = 0 /\ gens' = gens + 1 /\ running' = gens + 1 /\ cancelled' = cancelled
    BY <1>4 DEF Launch, MayLaunch
  <2>2. \A d \in Callers : calling'[d].at = "cancelling" <=> calling[d].at = "cancelling"
    BY <1>0, <1>4 DEF Launch, Goto
  <2>3. \A d \in Callers : calling'[d].gen = calling[d].gen
    BY <1>0, <1>4 DEF Launch, Goto, ManagerCall
  <2>4. \A k \in Goroutines' : k \in Goroutines \/ k.gen = gens + 1
    BY <1>4 DEF Launch, Goroutines
  <2>5. \A k \in Goroutines : k.gen # running
    BY <2>1 DEF GenerationInv
  <2>6. running' \notin cancelled'
    BY <1>0, <2>1
  <2>7. \A d \in Callers : calling'[d].at = "cancelling" => calling'[d].gen \in (1..gens') \ {running'}
    BY <1>0, <2>1, <2>2, <2>3 DEF GenerationInv
  <2>8. ASSUME NEW k \in Goroutines'
        PROVE  /\ k.gen \in 1..gens'
               /\ \/ k.gen = running'
                  \/ k.gen \in cancelled'
                  \/ \E d \in Callers : calling'[d].at = "cancelling" /\ calling'[d].gen = k.gen
    <3>1. CASE k.gen = gens + 1
      BY <1>0, <2>1, <3>1
    <3>2. CASE k \in Goroutines
      BY <1>0, <2>1, <2>2, <2>3, <2>5, <3>2 DEF GenerationInv
    <3> QED
      BY <2>4, <3>1, <3>2
  <2> QED
    BY <2>6, <2>7, <2>8 DEF GenerationInv
<1>5. ASSUME NEW c \in Callers, Launch(c), ~MayLaunch PROVE GenerationInv'
  <2>1. calling[c].at # "cancelling" /\ calling'[c].at # "cancelling"
    BY <1>0, <1>5 DEF Launch, Goto
  <2>2. \A d \in Callers \ {c} : calling'[d] = calling[d]
    BY <1>0, <1>5 DEF Launch, Goto
  <2> QED
    BY <1>1, <1>5, <2>1, <2>2 DEF Launch
<1>6. ASSUME NEW c \in Callers, TakeCancel(c) PROVE GenerationInv'
  <2>1. /\ calling'[c].gen = running /\ running' = 0 /\ UNCHANGED <<gens, cancelled, checks>>
        /\ calling'[c].at = (IF running = 0 THEN "stopped" ELSE "cancelling")
        /\ calling[c].at = "cancel"
    BY <1>0, <1>6 DEF TakeCancel, ManagerCall
  <2>2. \A d \in Callers \ {c} : calling'[d] = calling[d]
    BY <1>0, <1>6 DEF TakeCancel
  <2>3. running' \notin cancelled'
    BY <1>0, <2>1
  <2>4. \A d \in Callers : calling'[d].at = "cancelling" => calling'[d].gen \in (1..gens') \ {running'}
    BY <1>0, <2>1, <2>2 DEF GenerationInv
  <2>5. Goroutines' = Goroutines
    BY <2>1 DEF Goroutines
  <2>6. ASSUME NEW k \in Goroutines
        PROVE  \/ k.gen \in cancelled'
               \/ \E d \in Callers : calling'[d].at = "cancelling" /\ calling'[d].gen = k.gen
    <3>1. CASE k.gen = running
      BY <1>0, <2>1, <3>1 DEF GenerationInv
    <3>2. CASE k.gen \in cancelled
      BY <2>1, <3>2
    <3>3. CASE \E d \in Callers : calling[d].at = "cancelling" /\ calling[d].gen = k.gen
      <4>1. PICK d \in Callers : calling[d].at = "cancelling" /\ calling[d].gen = k.gen
        BY <3>3
      <4> QED
        BY <2>1, <2>2, <4>1
    <3> QED
      BY <3>1, <3>2, <3>3 DEF GenerationInv
  <2> QED
    BY <2>1, <2>3, <2>4, <2>5, <2>6 DEF GenerationInv
<1>7. ASSUME NEW c \in Callers, Cancel(c) PROVE GenerationInv'
  <2>1. /\ calling[c].at = "cancelling" /\ calling'[c].at = "waiting"
        /\ UNCHANGED <<running, gens, checks>> /\ cancelled' = cancelled \cup {calling[c].gen}
    BY <1>0, <1>7 DEF Cancel, Goto, CancelledBy
  <2>2. \A d \in Callers \ {c} : calling'[d] = calling[d]
    BY <1>0, <1>7 DEF Cancel, Goto
  <2>3. running' \notin cancelled'
    BY <2>1 DEF GenerationInv
  <2>4. \A d \in Callers : calling'[d].at = "cancelling" => calling'[d].gen \in (1..gens') \ {running'}
    BY <2>1, <2>2 DEF GenerationInv
  <2>5. Goroutines' = Goroutines
    BY <2>1 DEF Goroutines
  <2>6. ASSUME NEW k \in Goroutines
        PROVE  \/ k.gen = running'
               \/ k.gen \in cancelled'
               \/ \E d \in Callers : calling'[d].at = "cancelling" /\ calling'[d].gen = k.gen
    <3>1. CASE \E d \in Callers : calling[d].at = "cancelling" /\ calling[d].gen = k.gen
      <4>1. PICK d \in Callers : calling[d].at = "cancelling" /\ calling[d].gen = k.gen
        BY <3>1
      <4> QED
        BY <2>1, <2>2, <4>1
    <3> QED
      BY <2>1, <3>1 DEF GenerationInv
  <2> QED
    BY <2>1, <2>3, <2>4, <2>5, <2>6 DEF GenerationInv
<1>8. ASSUME NEW c \in Callers, Joined(c) \/ TimesOut(c) PROVE GenerationInv'
  <2>1. calling[c].at = "waiting"
    BY <1>8 DEF Joined, TimesOut
  <2>3. calling'[c].at = "stopped"
    <3>1. CASE TimesOut(c)
      BY <1>0, <3>1 DEF TimesOut, Goto
    <3>2. CASE Joined(c)
      BY <1>0, <3>2 DEF Joined, ManagerCall
    <3> QED
      BY <1>8, <3>1, <3>2
  <2>2. \A d \in Callers \ {c} : calling'[d] = calling[d]
    BY <1>0, <1>8 DEF Joined, TimesOut, Goto
  <2> QED
    BY <1>1, <1>8, <2>1, <2>2, <2>3 DEF Joined, TimesOut
<1>9. ASSUME NEW c \in Callers, SetupHealthChecking(c) \/ \E ok \in BOOLEAN : Build(c, ok)
      PROVE  GenerationInv'
  <2>1. calling[c].at # "cancelling" /\ calling'[c].at # "cancelling"
    <3>1. calling[c].at # "cancelling"
      BY <1>9 DEF Build, SetupHealthChecking
    <3>2. \/ \E at \in Places \ {"cancelling"} : calling' = [calling EXCEPT ![c].at = at]
          \/ calling' = [calling EXCEPT ![c] = Idle]
      BY <1>9 DEF Build, SetupHealthChecking, Goto, Done, Places
    <3>3. CASE calling' = [calling EXCEPT ![c] = Idle]
      <4>1. calling'[c] = Idle
        BY <1>0, <3>3
      <4> QED
        BY <3>1, <4>1 DEF Idle
    <3>4. ASSUME NEW at \in Places \ {"cancelling"}, calling' = [calling EXCEPT ![c].at = at]
          PROVE  calling'[c].at # "cancelling"
      <4>1. calling[c] \in ManagerCall
        BY <1>0
      <4>2. calling'[c] = [calling[c] EXCEPT !.at = at]
        BY <1>0, <3>4
      <4>3. calling'[c].at = at
        BY <4>1, <4>2 DEF ManagerCall
      <4> QED
        BY <4>3
    <3> QED
      BY <3>1, <3>2, <3>3, <3>4
  <2>2. \A d \in Callers \ {c} : calling'[d] = calling[d]
    BY <1>0, <1>9 DEF Build, SetupHealthChecking, Goto, Done
  <2> QED
    BY <1>1, <1>9, <2>1, <2>2 DEF Build, SetupHealthChecking
<1>10. ASSUME NEW c \in Callers, Expire(c) PROVE GenerationInv'
  <2>1. \A d \in Callers : calling'[d].at = calling[d].at /\ calling'[d].gen = calling[d].gen
    BY <1>0, <1>10 DEF Expire, ManagerCall
  <2> QED
    BY <1>1, <1>10, <2>1 DEF Expire
<1>11. ASSUME NEW c \in Callers, NEW a \in Agents, CheckNow(c, a) PROVE GenerationInv'
  <2>1. Goroutines' = Goroutines
    BY <1>11, LifecycleAssumption DEF CheckNow, Goroutines
  <2> QED
    BY <1>11, <2>1 DEF CheckNow, GenerationInv
<1>12. ASSUME NEW k \in checks, Tick(k) \/ Tell(k) \/ \E ok \in BOOLEAN : Probe(k, ok)
       PROVE  GenerationInv'
  BY <1>12, CheckGoesOn DEF GenerationInv
<1>13. ASSUME NEW k \in checks, Exit(k) PROVE GenerationInv'
  <2>1. Goroutines' \subseteq Goroutines
    BY <1>13 DEF Exit, Goroutines
  <2> QED
    BY <1>13, <2>1 DEF Exit, GenerationInv
<1>14. ASSUME NEW n \in DOMAIN waiters, Woken(n) PROVE GenerationInv'
  BY <1>1, <1>14 DEF Woken
<1>15. CASE UNCHANGED lifecycleVars
  BY <1>1, <1>15 DEF lifecycleVars
<1> QED
  BY <1>2, <1>3, <1>4, <1>5, <1>6, <1>7, <1>8, <1>9, <1>10, <1>11, <1>12, <1>13, <1>14, <1>15
     DEF LifecycleNext, CallerStep, CheckStep

LEMMA CallGoes ==
    ASSUME LifecycleTyped, NEW c \in Callers, NEW at, calling' = [calling EXCEPT ![c].at = at]
    PROVE  /\ calling'[c].at = at /\ calling'[c].op = calling[c].op
           /\ calling'[c].gen = calling[c].gen /\ calling'[c].call = calling[c].call
           /\ \A d \in Callers \ {c} : calling'[d] = calling[d]
<1>1. calling[c] \in ManagerCall /\ calling \in [Callers -> ManagerCall]
  BY DEF LifecycleTyped
<1>2. calling'[c] = [calling[c] EXCEPT !.at = at]
  BY <1>1
<1> QED
  BY <1>1, <1>2 DEF ManagerCall

LEMMA BusyCalls ==
    ASSUME LifecycleTyped, NEW c \in Callers
    PROVE  /\ calling[c].at # "idle" => InCall(c)
           /\ calling'[c].at # "idle" => InCall(c)'
BY DEF InCall, Idle

(* A step of the one call under way that starts and ends no checks.          *)
LEMMA SoloStep ==
    ASSUME LifecycleTyped, AloneInv, NEW c \in Callers, InCall(c),
           \A d \in Callers \ {c} : calling'[d] = calling[d],
           UNCHANGED <<checks, report, checkerSet, waiters, crashed>>,
           calling[c].at = "waiting" =>
              \/ calling'[c].at = "waiting" /\ calling'[c].call = calling[c].call
              \/ waiters[calling[c].call] = "done",
           InCall(c)' => At(c)',
           ~InCall(c)' => Quiet' /\ (status' = "running" <=> running' # 0)
    PROVE  AloneInv'
<1>1. \A d \in Callers \ {c} : ~InCall(d) /\ ~InCall(d)'
  BY DEF AloneInv, InCall
<1>2. Goroutines' = Goroutines /\ checks = Goroutines
  BY DEF AloneInv, Goroutines
<1>3. ASSUME NEW n \in 1..MaxCalls, waiters[n] \in {"waiting", "woken"}
      PROVE  \E d \in Callers : calling'[d].at = "waiting" /\ calling'[d].call = n
  <2>1. PICK d \in Callers : calling[d].at = "waiting" /\ calling[d].call = n
    BY <1>3 DEF AloneInv
  <2>2. d = c
    BY <1>1, <2>1 DEF InCall, Idle
  <2> QED
    BY <1>3, <2>1, <2>2
<1>4. ~crashed' /\ checkerSet' <= MaxRestarts
  BY DEF AloneInv
<1>5. \A d, e \in Callers : InCall(d)' /\ InCall(e)' => d = e
  BY <1>1
<1>6. \A d \in Callers : InCall(d)' => checks' = Goroutines' /\ At(d)'
  BY <1>1, <1>2
<1>7. (\A d \in Callers : ~InCall(d)') => Quiet' /\ (status' = "running" <=> running' # 0)
  OBVIOUS
<1>8. \A n \in 1..MaxCalls :
         /\ waiters'[n] = "woken" => Goroutines' = {}
         /\ waiters'[n] \in {"waiting", "woken"} =>
               \E d \in Callers : calling'[d].at = "waiting" /\ calling'[d].call = n
  BY <1>2, <1>3 DEF AloneInv
<1>9. /\ \A s \in 0..MaxRestarts : s > checkerSet' => report'[s] = [a \in Agents |-> Unknown]
      /\ \A k \in checks' : k.set = checkerSet'
      /\ \A k, o \in checks' : k.agent = o.agent /\ k.at # "tick" /\ o.at # "tick" => k = o
  BY DEF AloneInv
<1> QED
  BY <1>4, <1>5, <1>6, <1>7, <1>8, <1>9 DEF AloneInv

LEMMA EndedIsQuiet == HasEnded => Quiet
BY DEF HasEnded, Quiet

LEMMA QuietIsEnded == LifecycleTyped /\ GenerationInv /\ Quiet /\ running = 0 => HasEnded
BY DEF Quiet, HasEnded, GenerationInv, LifecycleTyped

(* The steps of a call that only change the status or where the call is.     *)
LEMMA AloneCallSteps ==
    ASSUME LifecycleTyped, GenerationInv, AloneInv, NEW c \in Callers,
           \/ SetStatus(c) \/ Joined(c) \/ Expire(c) \/ TakeCancel(c)
           \/ \E ok \in BOOLEAN : Build(c, ok)
    PROVE  AloneInv'
<1>0. calling[c] \in ManagerCall /\ calling \in [Callers -> ManagerCall]
  BY DEF LifecycleTyped
<1>1. CASE SetStatus(c)
  <2>1. InCall(c) /\ UNCHANGED <<checks, report, checkerSet, waiters, crashed, running>>
    BY <1>1 DEF SetStatus, InCall, Idle
  <2>2. At(c) /\ calling[c].at # "waiting"
    BY <1>1, <2>1 DEF AloneInv, SetStatus
  <2>3. Quiet' = Quiet /\ HasEnded' = HasEnded
    BY <2>1 DEF Quiet, HasEnded, Goroutines
  <2>4. CASE calling[c].at = "starting" /\ Goto(c, "launch")
    <3>1. calling'[c].at = "launch" /\ calling'[c].op = calling[c].op /\ calling'[c].call = calling[c].call
      BY <2>4, CallGoes DEF Goto
    <3>2. \A d \in Callers \ {c} : calling'[d] = calling[d]
      BY <2>4, CallGoes DEF Goto
    <3>3. At(c)'
      BY <2>1, <2>2, <2>3, <2>4, <3>1 DEF At
    <3>4. InCall(c)'
      BY <3>1 DEF InCall, Idle
    <3> QED
      BY <2>1, <2>2, <3>2, <3>3, <3>4, SoloStep
  <2>5. CASE calling[c].at = "stopping" /\ Goto(c, "cancel")
    <3>1. calling'[c].at = "cancel" /\ calling'[c].op = calling[c].op /\ calling'[c].call = calling[c].call
          /\ calling'[c].gen = calling[c].gen
      BY <2>5, CallGoes DEF Goto
    <3>2. \A d \in Callers \ {c} : calling'[d] = calling[d]
      BY <2>5, CallGoes DEF Goto
    <3>3. At(c)'
      BY <2>1, <2>2, <2>3, <2>5, <3>1 DEF At
    <3>4. InCall(c)'
      BY <3>1 DEF InCall, Idle
    <3> QED
      BY <2>1, <2>2, <3>2, <3>3, <3>4, SoloStep
  <2>6. CASE calling[c].at = "stopped" /\ calling[c].op = "restart" /\ Goto(c, "build")
    <3>1. calling'[c].at = "build" /\ calling'[c].op = calling[c].op /\ calling'[c].call = calling[c].call
      BY <2>6, CallGoes DEF Goto
    <3>2. \A d \in Callers \ {c} : calling'[d] = calling[d]
      BY <2>6, CallGoes DEF Goto
    <3>3. status' = "stopped"
      BY <1>1, <2>6 DEF SetStatus
    <3>4. At(c)'
      BY <2>1, <2>2, <2>3, <2>6, <3>1, <3>3 DEF At
    <3>5. InCall(c)'
      BY <3>1 DEF InCall, Idle
    <3> QED
      BY <2>1, <2>2, <3>2, <3>4, <3>5, SoloStep
  <2>7. CASE Done(c)
    <3>1. ~InCall(c)' /\ \A d \in Callers \ {c} : calling'[d] = calling[d]
      BY <1>0, <2>7 DEF Done, InCall
    <3>2. calling[c].at \in {"stopped", "running", "failed"}
      <4>1. \A at \in {"launch", "cancel", "build"} : ~Goto(c, at)
        <5> SUFFICES ASSUME NEW at \in {"launch", "cancel", "build"}, Goto(c, at) PROVE FALSE
          OBVIOUS
        <5>1. calling'[c].at = at
          BY CallGoes DEF Goto
        <5> QED
          BY <3>1, <5>1 DEF InCall, Idle
      <4> QED
        BY <1>1, <4>1 DEF SetStatus
    <3>3. status' = IF calling[c].at = "failed" THEN "error" ELSE calling[c].at
      BY <1>1 DEF SetStatus
    <3>4. Quiet /\ (calling[c].at = "running" <=> running # 0)
      BY <2>2, <3>2, EndedIsQuiet DEF At, HasEnded
    <3>5. Quiet' /\ (status' = "running" <=> running' # 0)
      BY <2>1, <2>3, <3>2, <3>3, <3>4
    <3> QED
      BY <2>1, <2>2, <3>1, <3>5, SoloStep
  <2> QED
    BY <1>1, <2>4, <2>5, <2>6, <2>7 DEF SetStatus
<1>2. CASE Joined(c)
  <2>1. InCall(c) /\ UNCHANGED <<checks, report, checkerSet, waiters, crashed, running, status>>
    BY <1>2 DEF Joined, InCall, Idle
  <2>2. At(c) /\ calling[c].at = "waiting" /\ waiters[calling[c].call] = "done"
    BY <1>2, <2>1 DEF AloneInv, Joined
  <2>3. /\ calling'[c].at = "stopped" /\ calling'[c].gen = 0
        /\ calling'[c].op = calling[c].op /\ calling'[c].call = calling[c].call
    BY <1>0, <1>2 DEF Joined, ManagerCall
  <2>4. \A d \in Callers \ {c} : calling'[d] = calling[d]
    BY <1>0, <1>2 DEF Joined
  <2>5. HasEnded'
    BY <2>1, <2>2 DEF At, HasEnded, Goroutines
  <2>6. At(c)'
    BY <2>1, <2>2, <2>3, <2>5 DEF At
  <2>7. InCall(c)'
    BY <2>3 DEF InCall, Idle
  <2> QED
    BY <2>1, <2>2, <2>4, <2>6, <2>7, SoloStep
<1>3. CASE Expire(c)
  <2>1. InCall(c) /\ UNCHANGED <<checks, report, checkerSet, waiters, crashed, running, status>>
    BY <1>3 DEF Expire, InCall, Idle
  <2>2. /\ calling'[c].at = calling[c].at /\ calling'[c].gen = calling[c].gen
        /\ calling'[c].op = calling[c].op /\ calling'[c].call = calling[c].call
        /\ calling'[c].ctx = "expired"
    BY <1>0, <1>3 DEF Expire, ManagerCall
  <2>3. \A d \in Callers \ {c} : calling'[d] = calling[d]
    BY <1>0, <1>3 DEF Expire
  <2>4. Quiet' = Quiet /\ HasEnded' = HasEnded /\ Goroutines' = Goroutines
    BY <2>1 DEF Quiet, HasEnded, Goroutines
  <2>5. At(c)
    BY <2>1 DEF AloneInv
  <2>6. At(c)'
    BY <2>1, <2>2, <2>4, <2>5 DEF At
  <2>7. InCall(c)'
    BY <2>2 DEF InCall, Idle
  <2> QED
    BY <2>1, <2>2, <2>3, <2>6, <2>7, SoloStep
<1>4. CASE TakeCancel(c)
  <2>1. InCall(c) /\ UNCHANGED <<checks, report, checkerSet, waiters, crashed, status>> /\ running' = 0
    BY <1>4 DEF TakeCancel, InCall, Idle
  <2>2. At(c) /\ calling[c].at = "cancel"
    BY <1>4, <2>1 DEF AloneInv, TakeCancel
  <2>3. /\ calling'[c].at = IF running = 0 THEN "stopped" ELSE "cancelling"
        /\ calling'[c].gen = running
        /\ calling'[c].op = calling[c].op /\ calling'[c].call = calling[c].call
    BY <1>0, <1>4 DEF TakeCancel, ManagerCall
  <2>4. \A d \in Callers \ {c} : calling'[d] = calling[d]
    BY <1>0, <1>4 DEF TakeCancel
  <2>5. running = 0 => HasEnded'
    BY <2>1, <2>2, QuietIsEnded DEF At, HasEnded, Goroutines
  <2>6. At(c)'
    BY <2>1, <2>2, <2>3, <2>5 DEF At
  <2>7. InCall(c)'
    BY <2>3 DEF InCall, Idle
  <2> QED
    BY <2>1, <2>2, <2>4, <2>6, <2>7, SoloStep
<1>5. ASSUME NEW ok \in BOOLEAN, Build(c, ok) PROVE AloneInv'
  <2>1. InCall(c) /\ UNCHANGED <<checks, report, checkerSet, waiters, crashed, running, status>>
    BY <1>5 DEF Build, InCall, Idle
  <2>2. At(c) /\ calling[c].at = "build"
    BY <1>5, <2>1 DEF AloneInv, Build
  <2>3. /\ calling'[c].at = IF ok THEN "setup" ELSE "failed"
        /\ calling'[c].op = calling[c].op /\ calling'[c].call = calling[c].call
        /\ \A d \in Callers \ {c} : calling'[d] = calling[d]
    <3> DEFINE next == IF ok THEN "setup" ELSE "failed"
    <3>1. calling' = [calling EXCEPT ![c].at = next]
      BY <1>5 DEF Build, Goto
    <3> HIDE DEF next
    <3>2. /\ calling'[c].at = next
          /\ calling'[c].op = calling[c].op /\ calling'[c].call = calling[c].call
          /\ \A d \in Callers \ {c} : calling'[d] = calling[d]
      BY <3>1, CallGoes
    <3> QED
      BY <3>2 DEF next
  <2>4. HasEnded' = HasEnded
    BY <2>1 DEF HasEnded, Goroutines
  <2>5. At(c)'
    BY <2>1, <2>2, <2>3, <2>4 DEF At
  <2>6. InCall(c)'
    BY <2>3 DEF InCall, Idle
  <2> QED
    BY <2>1, <2>2, <2>3, <2>5, <2>6, SoloStep
<1> QED
  BY <1>1, <1>2, <1>3, <1>4, <1>5

(* While only one call is under way, a waiter that has not answered is that  *)
(* call's.                                                                   *)
LEMMA NobodyWaits ==
    ASSUME AloneInv, NEW c \in Callers, InCall(c), calling[c].at # "waiting"
    PROVE  \A n \in 1..MaxCalls : waiters[n] \notin {"waiting", "woken"}
<1> SUFFICES ASSUME NEW n \in 1..MaxCalls, waiters[n] \in {"waiting", "woken"} PROVE FALSE
  OBVIOUS
<1>1. PICK d \in Callers : calling[d].at = "waiting" /\ calling[d].call = n
  BY DEF AloneInv
<1>2. InCall(d)
  BY <1>1 DEF InCall, Idle
<1> QED
  BY <1>1, <1>2 DEF AloneInv

LEMMA AloneLaunch ==
    ASSUME LifecycleTyped, GenerationInv, AloneInv, NEW c \in Callers, Launch(c)
    PROVE  AloneInv'
<1>1. /\ InCall(c) /\ calling[c].at = "launch"
      /\ UNCHANGED <<report, checkerSet, waiters, crashed, status>>
  BY DEF Launch, InCall, Idle
<1>2. At(c) /\ checks = Goroutines
  BY <1>1 DEF AloneInv
<1>3. /\ calling'[c].at = "running" /\ calling'[c].op = calling[c].op /\ calling'[c].call = calling[c].call
      /\ \A d \in Callers \ {c} : calling'[d] = calling[d]
  BY CallGoes DEF Launch, Goto
<1>4. CASE ~MayLaunch
  <2>1. running # 0 /\ UNCHANGED <<checks, running>>
    BY <1>4 DEF Launch, MayLaunch
  <2>2. Quiet'
    <3>1. Quiet
      BY <1>1, <1>2, <2>1 DEF At, HasEnded
    <3> QED
      BY <2>1, <3>1 DEF Quiet, Goroutines
  <2>3. At(c)'
    BY <1>1, <1>2, <1>3, <2>1, <2>2 DEF At
  <2>4. InCall(c)'
    BY <1>3 DEF InCall, Idle
  <2> QED
    BY <1>1, <1>3, <2>1, <2>3, <2>4, SoloStep
<1>5. CASE MayLaunch
  <2> DEFINE new == {[by |-> Ticker, gen |-> gens + 1, set |-> checkerSet, agent |-> a,
                      at |-> "tick", verdict |-> "unknown"] : a \in Agents}
  <2>1. running = 0 /\ running' = gens + 1 /\ checks' = checks \cup new
    BY <1>5 DEF Launch, MayLaunch
  <2>2. HasEnded
    BY <1>1, <1>2, <2>1, QuietIsEnded DEF At
  <2>3. checks' = new
    BY <1>2, <2>1, <2>2 DEF HasEnded
  <2>4. Goroutines' = new
    BY <2>3 DEF Goroutines
  <2>5. running' # 0
    BY <2>1 DEF LifecycleTyped
  <2>6. Quiet'
    <3>1. \A k \in new : k.gen = gens + 1 /\ k.agent \in Agents
      OBVIOUS
    <3>2. ASSUME NEW a \in Agents PROVE \E k \in new : k.agent = a
      <4> DEFINE k == [by |-> Ticker, gen |-> gens + 1, set |-> checkerSet, agent |-> a,
                       at |-> "tick", verdict |-> "unknown"]
      <4>1. k \in new /\ k.agent = a
        OBVIOUS
      <4> HIDE DEF k, new
      <4> QED
        BY <4>1
    <3> HIDE DEF new
    <3>3. {k.agent : k \in new} = Agents
      BY <3>1, <3>2
    <3> QED
      BY <2>1, <2>4, <3>1, <3>3 DEF Quiet
  <2>7. At(c)'
    BY <1>1, <1>2, <1>3, <2>5, <2>6 DEF At
  <2>8. \A d \in Callers \ {c} : ~InCall(d)'
    BY <1>1, <1>3 DEF AloneInv, InCall
  <2>9. InCall(c)'
    BY <1>3 DEF InCall, Idle
  <2>10. \A n \in 1..MaxCalls : waiters'[n] \notin {"waiting", "woken"}
    BY <1>1, NobodyWaits
  <2>11. \A k \in checks' : k.set = checkerSet' /\ k.at = "tick"
    BY <1>1, <2>3
  <2>12. \A d \in Callers : InCall(d)' => checks' = Goroutines' /\ At(d)'
    BY <2>3, <2>4, <2>7, <2>8
  <2> QED
    BY <1>1, <2>8, <2>9, <2>10, <2>11, <2>12 DEF AloneInv
<1> QED
  BY <1>4, <1>5

LEMMA AloneCancel ==
    ASSUME LifecycleTyped, GenerationInv, AloneInv, NEW c \in Callers, Cancel(c)
    PROVE  AloneInv'
<1>1. /\ InCall(c) /\ calling[c].at = "cancelling"
      /\ UNCHANGED <<checks, report, checkerSet, crashed, status, running>>
      /\ waiters' = [waiters EXCEPT ![calling[c].call] = IF Goroutines = {} THEN "done" ELSE "waiting"]
  BY DEF Cancel, InCall, Idle
<1>2. At(c) /\ checks = Goroutines
  BY <1>1 DEF AloneInv
<1>3. /\ calling'[c].at = "waiting" /\ calling'[c].op = calling[c].op /\ calling'[c].call = calling[c].call
      /\ \A d \in Callers \ {c} : calling'[d] = calling[d]
  BY CallGoes DEF Cancel, Goto
<1>4. calling[c].call \in 1..MaxCalls
  BY <1>2 DEF At
<1>5. Goroutines' = Goroutines
  BY <1>1 DEF Goroutines
<1>6. waiters'[calling[c].call] = IF Goroutines = {} THEN "done" ELSE "waiting"
  BY <1>1, <1>4 DEF LifecycleTyped
<1>7. \A n \in 1..MaxCalls : n # calling[c].call => waiters'[n] \notin {"waiting", "woken"}
  BY <1>1, NobodyWaits DEF LifecycleTyped
<1>8. At(c)'
  BY <1>1, <1>2, <1>3, <1>5, <1>6 DEF At
<1>9. \A d \in Callers \ {c} : ~InCall(d)'
  BY <1>1, <1>3 DEF AloneInv, InCall
<1>10. InCall(c)'
  BY <1>3 DEF InCall, Idle
<1>11. \A d \in Callers : InCall(d)' => checks' = Goroutines' /\ At(d)'
  BY <1>1, <1>2, <1>5, <1>8, <1>9
<1>12. ASSUME NEW n \in 1..MaxCalls
       PROVE  /\ waiters'[n] # "woken"
              /\ waiters'[n] = "waiting" => \E d \in Callers : calling'[d].at = "waiting" /\ calling'[d].call = n
  BY <1>3, <1>6, <1>7
<1> QED
  BY <1>1, <1>9, <1>10, <1>11, <1>12 DEF AloneInv

LEMMA AloneSetup ==
    ASSUME LifecycleTyped, AloneInv, NEW c \in Callers, SetupHealthChecking(c)
    PROVE  AloneInv'
<1>1. /\ InCall(c) /\ calling[c].at = "setup" /\ checkerSet' = checkerSet + 1
      /\ UNCHANGED <<checks, report, waiters, crashed, status, running>>
  BY DEF SetupHealthChecking, InCall, Idle
<1>2. At(c) /\ checks = Goroutines
  BY <1>1 DEF AloneInv
<1>3. HasEnded /\ status # "running" /\ calling[c].op = "restart" /\ checkerSet < MaxRestarts
  BY <1>1, <1>2 DEF At
<1>4. HasEnded' /\ checks' = {} /\ Goroutines' = {}
  BY <1>1, <1>2, <1>3 DEF HasEnded, Goroutines
<1>5. checkerSet' <= MaxRestarts
  BY <1>1, <1>3, LifecycleAssumption DEF LifecycleTyped
<1>6. \A s \in 0..MaxRestarts : s > checkerSet' => report'[s] = [a \in Agents |-> Unknown]
  <2>1. \A s \in 0..MaxRestarts : s > checkerSet' => s > checkerSet
    BY <1>1 DEF LifecycleTyped
  <2> QED
    BY <1>1, <2>1 DEF AloneInv
<1>7. \A n \in 1..MaxCalls : waiters'[n] \notin {"waiting", "woken"}
  BY <1>1, NobodyWaits
<1>8. CASE Done(c)
  <2>1. ~InCall(c)' /\ \A d \in Callers \ {c} : calling'[d] = calling[d]
    BY <1>8 DEF Done, InCall, LifecycleTyped
  <2>2. \A d \in Callers : ~InCall(d)'
    BY <1>1, <2>1 DEF AloneInv, InCall
  <2>3. Quiet' /\ (status' = "running" <=> running' # 0)
    BY <1>1, <1>3, <1>4 DEF HasEnded, Quiet
  <2> QED
    BY <1>1, <1>4, <1>5, <1>6, <1>7, <2>2, <2>3 DEF AloneInv
<1>9. CASE Goto(c, "starting")
  <2>1. /\ calling'[c].at = "starting" /\ calling'[c].op = calling[c].op /\ calling'[c].call = calling[c].call
        /\ \A d \in Callers \ {c} : calling'[d] = calling[d]
    BY <1>9, CallGoes DEF Goto
  <2>2. InCall(c)' /\ \A d \in Callers \ {c} : ~InCall(d)'
    BY <1>1, <2>1 DEF AloneInv, InCall, Idle
  <2>3. At(c)'
    BY <1>1, <1>2, <1>3, <1>4, <2>1 DEF At
  <2>4. \A d \in Callers : InCall(d)' => checks' = Goroutines' /\ At(d)'
    BY <1>4, <2>2, <2>3
  <2> QED
    BY <1>1, <1>4, <1>5, <1>6, <1>7, <2>2, <2>4 DEF AloneInv
<1> QED
  BY <1>8, <1>9 DEF SetupHealthChecking

LEMMA AloneBegin ==
    ASSUME LifecycleTyped, GenerationInv, AloneInv, NEW c \in Callers,
           NEW op \in {"start", "stop", "restart"}, NEW ctx \in {"none", "live"},
           Begin(c, op, ctx), ~mixed'
    PROVE  AloneInv'
<1>1. /\ \A d \in Callers : calling[d] = Idle
      /\ checks = Goroutines
      /\ UNCHANGED <<status, checkerSet, report, running, checks, waiters, crashed>>
  BY DEF Begin
<1>2. Quiet /\ Quiet' /\ Goroutines' = Goroutines
  BY <1>1 DEF AloneInv, InCall, Quiet, Goroutines
<1>3. /\ calling'[c] = [at |-> IF op = "start" THEN "starting" ELSE "stopping",
                        op |-> op, ctx |-> ctx, gen |-> 0, call |-> calls + 1]
      /\ \A d \in Callers \ {c} : calling'[d] = Idle
  BY <1>1 DEF Begin, LifecycleTyped
<1>4. op = "restart" => checkerSet < MaxRestarts
  <2>1. {d \in Callers : calling[d].op = "restart"} = {}
    BY <1>1 DEF Idle
  <2>2. Cardinality({d \in Callers : calling[d].op = "restart"}) = 0
    BY <2>1, FS_EmptySet
  <2> QED
    BY <2>2 DEF Begin, LifecycleTyped
<1>5. calls + 1 \in 1..MaxCalls
  <2>1. left[1] \in Nat /\ left[1] > 0 /\ calls \in Nat /\ calls + left[1] <= MaxCalls
    BY DEF LifecycleTyped, Begin
  <2> QED
    BY <2>1, MostCalls
<1>6. /\ calling'[c].at = (IF op = "start" THEN "starting" ELSE "stopping")
      /\ calling'[c].op = op /\ calling'[c].gen = 0 /\ calling'[c].call \in 1..MaxCalls
  BY <1>3, <1>5
<1>7. At(c)'
  BY <1>1, <1>2, <1>4, <1>6 DEF At
<1>8. InCall(c)' /\ \A d \in Callers \ {c} : ~InCall(d)'
  BY <1>3, <1>6 DEF InCall, Idle
<1>9. \A d \in Callers : InCall(d)' => checks' = Goroutines' /\ At(d)'
  BY <1>1, <1>2, <1>7, <1>8
<1>10. \A n \in 1..MaxCalls : waiters'[n] \notin {"waiting", "woken"}
  BY <1>1 DEF AloneInv, Idle
<1> QED
  BY <1>1, <1>8, <1>9, <1>10 DEF AloneInv

LEMMA AloneWoken ==
    ASSUME LifecycleTyped, AloneInv, NEW n \in DOMAIN waiters, Woken(n)
    PROVE  AloneInv'
<1>1. /\ waiters[n] = "woken" /\ waiters' = [waiters EXCEPT ![n] = "done"] /\ n \in 1..MaxCalls
      /\ UNCHANGED <<status, checkerSet, report, running, checks, calling>>
      /\ crashed' = (Goroutines # {})
  BY DEF Woken, LifecycleTyped
<1>2. Goroutines = {} /\ Goroutines' = {} /\ ~crashed'
  BY <1>1 DEF AloneInv, Goroutines
<1>3. Quiet' = Quiet /\ HasEnded' = HasEnded
  BY <1>1, <1>2 DEF Quiet, HasEnded
<1>4. ASSUME NEW c \in Callers, InCall(c) PROVE checks' = Goroutines' /\ At(c)'
  <2>1. At(c) /\ checks = Goroutines
    BY <1>4 DEF AloneInv
  <2> QED
    BY <1>1, <1>2, <1>3, <2>1 DEF At
<1>5. \A c \in Callers : InCall(c)' = InCall(c)
  BY <1>1 DEF InCall
<1>6. ASSUME NEW m \in 1..MaxCalls
      PROVE  /\ waiters'[m] = "woken" => Goroutines' = {}
             /\ waiters'[m] \in {"waiting", "woken"} =>
                   \E c \in Callers : calling'[c].at = "waiting" /\ calling'[c].call = m
  <2>1. waiters'[m] = waiters[m] \/ waiters'[m] = "done"
    BY <1>1 DEF LifecycleTyped
  <2> QED
    BY <1>1, <1>2, <2>1 DEF AloneInv
<1>7. (\A c \in Callers : ~InCall(c)') => Quiet' /\ (status' = "running" <=> running' # 0)
  BY <1>1, <1>3, <1>5 DEF AloneInv
<1>8. \A c, d \in Callers : InCall(c)' /\ InCall(d)' => c = d
  BY <1>5 DEF AloneInv
<1>9. /\ checkerSet' <= MaxRestarts
      /\ \A s \in 0..MaxRestarts : s > checkerSet' => report'[s] = [a \in Agents |-> Unknown]
      /\ \A k \in checks' : k.set = checkerSet'
      /\ \A k, o \in checks' : k.agent = o.agent /\ k.at # "tick" /\ o.at # "tick" => k = o
  BY <1>1 DEF AloneInv
<1> QED
  BY <1>2, <1>4, <1>5, <1>6, <1>7, <1>8, <1>9 DEF AloneInv

(* The steps of checks.                                                      *)
LEMMA AloneCheckNow ==
    ASSUME LifecycleTyped, AloneInv, NEW c \in Callers, NEW a \in Agents, CheckNow(c, a), ~mixed'
    PROVE  AloneInv'
<1> DEFINE k == [by |-> c, gen |-> 0, set |-> checkerSet, agent |-> a, at |-> "probe", verdict |-> "unknown"]
<1>1. /\ \A d \in Callers : calling[d] = Idle
      /\ ~Meets(k) /\ checks' = checks \cup {k}
      /\ UNCHANGED <<status, checkerSet, report, running, waiters, calling, crashed>>
  BY DEF CheckNow
<1>2. Goroutines' = Goroutines
  BY <1>1, LifecycleAssumption DEF Goroutines
<1>3. Quiet' = Quiet
  BY <1>1, <1>2 DEF Quiet
<1>4. \A d \in Callers : ~InCall(d) /\ ~InCall(d)'
  BY <1>1 DEF InCall
<1>5. k.set = checkerSet /\ k.agent = a
  OBVIOUS
<1>6. \A o \in checks : o.agent = k.agent /\ o.at # "tick" => o = k
  BY <1>1 DEF Meets
<1> HIDE DEF k
<1>7. \A o, p \in checks' : o.agent = p.agent /\ o.at # "tick" /\ p.at # "tick" => o = p
  BY <1>1, <1>6 DEF AloneInv
<1>8. \A o \in checks' : o.set = checkerSet'
  BY <1>1, <1>5 DEF AloneInv
<1>9. Quiet' /\ (status' = "running" <=> running' # 0)
  BY <1>1, <1>3, <1>4 DEF AloneInv
<1>10. /\ ~crashed' /\ checkerSet' <= MaxRestarts
       /\ \A s \in 0..MaxRestarts : s > checkerSet' => report'[s] = [x \in Agents |-> Unknown]
  BY <1>1 DEF AloneInv
<1>11. \A n \in 1..MaxCalls :
          /\ waiters'[n] = "woken" => Goroutines' = {}
          /\ waiters'[n] \in {"waiting", "woken"} =>
                \E d \in Callers : calling'[d].at = "waiting" /\ calling'[d].call = n
  BY <1>1, <1>2 DEF AloneInv
<1> QED
  BY <1>4, <1>7, <1>8, <1>9, <1>10, <1>11 DEF AloneInv

(* A check that goes on leaves the calls where they are.                     *)
LEMMA CallsStay ==
    ASSUME LifecycleTyped, AloneInv, NEW k \in checks,
           Tick(k) \/ Tell(k) \/ \E ok \in BOOLEAN : Probe(k, ok)
    PROVE  /\ Quiet' = Quiet /\ HasEnded' = HasEnded /\ (Goroutines' = {} <=> Goroutines = {})
           /\ \A c \in Callers : InCall(c)' = InCall(c) /\ (InCall(c) => At(c)')
<1>1. /\ \A g \in Goroutines' : \E o \in Goroutines : o.gen = g.gen /\ o.agent = g.agent
      /\ \A g \in Goroutines : \E o \in Goroutines' : o.gen = g.gen /\ o.agent = g.agent
      /\ UNCHANGED <<running, gens, cancelled, calling, waiters, status, checkerSet, crashed>>
  BY CheckGoesOn
<1>2. {g.agent : g \in Goroutines'} = {g.agent : g \in Goroutines}
  BY <1>1
<1>3. Goroutines' = {} <=> Goroutines = {}
  BY <1>1
<1>4. (\A g \in Goroutines' : g.gen = running') <=> (\A g \in Goroutines : g.gen = running)
  BY <1>1
<1>5. Quiet' = Quiet
  BY <1>1, <1>2, <1>4 DEF Quiet
<1>6. HasEnded' = HasEnded
  BY <1>1, <1>3 DEF HasEnded
<1>7. ASSUME NEW c \in Callers, InCall(c) PROVE At(c)'
  <2>1. At(c)
    BY <1>7 DEF AloneInv
  <2> QED
    BY <1>1, <1>3, <1>5, <1>6, <2>1 DEF At
<1> QED
  BY <1>1, <1>3, <1>5, <1>6, <1>7 DEF InCall

LEMMA AloneCheckGoesOn ==
    ASSUME LifecycleTyped, AloneInv, NEW k \in checks,
           Tick(k) \/ Tell(k) \/ \E ok \in BOOLEAN : Probe(k, ok),
           NEW rest, checks' = (checks \ {k}) \cup rest,
           \A o \in rest : o.by = k.by /\ o.set = k.set /\ o.agent = k.agent,
           \A o, p \in rest : o = p,
           (\E o \in rest : o.at # "tick") =>
              \A o \in checks \ {k} : o.agent = k.agent => o.at = "tick",
           \A s \in 0..MaxRestarts : s > checkerSet => report'[s] = report[s]
    PROVE  AloneInv'
<1>1. UNCHANGED <<running, gens, cancelled, calling, waiters, status, checkerSet, crashed>>
  BY CheckGoesOn
<1>2. /\ Quiet' = Quiet /\ (Goroutines' = {} <=> Goroutines = {})
      /\ \A c \in Callers : InCall(c)' = InCall(c) /\ (InCall(c) => At(c)')
  BY CallsStay
<1>3. ASSUME NEW c \in Callers, InCall(c) PROVE checks' = Goroutines'
  <2>1. checks = Goroutines
    BY <1>3 DEF AloneInv
  <2>2. \A o \in checks' : o.by = Ticker
    BY <2>1 DEF Goroutines
  <2> QED
    BY <2>2 DEF Goroutines
<1>4. \A o, p \in checks' : o.agent = p.agent /\ o.at # "tick" /\ p.at # "tick" => o = p
  <2> SUFFICES ASSUME NEW o \in checks', NEW p \in checks', o.agent = p.agent, o.at # "tick", p.at # "tick"
               PROVE  o = p
    OBVIOUS
  <2>1. CASE o \in checks \ {k} /\ p \in checks \ {k}
    BY <2>1 DEF AloneInv
  <2>2. CASE o \in rest \/ p \in rest
    BY <2>2
  <2> QED
    BY <2>1, <2>2
<1>5. \A o \in checks' : o.set = checkerSet'
  BY <1>1 DEF AloneInv
<1>6. (\A c \in Callers : ~InCall(c)') => Quiet' /\ (status' = "running" <=> running' # 0)
  BY <1>1, <1>2 DEF AloneInv
<1>7. \A c, d \in Callers : InCall(c)' /\ InCall(d)' => c = d
  BY <1>2 DEF AloneInv
<1>8. /\ ~crashed' /\ checkerSet' <= MaxRestarts
      /\ \A s \in 0..MaxRestarts : s > checkerSet' => report'[s] = [x \in Agents |-> Unknown]
  BY <1>1 DEF AloneInv
<1>9. \A n \in 1..MaxCalls :
         /\ waiters'[n] = "woken" => Goroutines' = {}
         /\ waiters'[n] \in {"waiting", "woken"} =>
               \E d \in Callers : calling'[d].at = "waiting" /\ calling'[d].call = n
  BY <1>1, <1>2 DEF AloneInv
<1>10. \A c \in Callers : InCall(c)' => checks' = Goroutines' /\ At(c)'
  BY <1>2, <1>3
<1> QED
  BY <1>4, <1>5, <1>6, <1>7, <1>8, <1>9, <1>10 DEF AloneInv

LEMMA AloneCheckStep ==
    ASSUME LifecycleTyped, GenerationInv, AloneInv, NEW k \in checks, ~mixed',
           Tick(k) \/ Tell(k) \/ \E ok \in BOOLEAN : Probe(k, ok)
    PROVE  AloneInv'
<1>0. k \in Check
  BY DEF LifecycleTyped
<1>1. CASE Tick(k)
  <2> DEFINE k2 == [k EXCEPT !.at = "probe"]
  <2>1. checks' = (checks \ {k}) \cup {k2} /\ ~Meets(k) /\ report' = report
    BY <1>1 DEF Tick
  <2>2. k2.by = k.by /\ k2.set = k.set /\ k2.agent = k.agent
    BY <1>0 DEF Check
  <2>3. \A o \in checks \ {k} : o.agent = k.agent => o.at = "tick"
    BY <2>1 DEF Meets
  <2> HIDE DEF k2
  <2> DEFINE rest == {k2}
  <2>4. /\ checks' = (checks \ {k}) \cup rest
        /\ \A o \in rest : o.by = k.by /\ o.set = k.set /\ o.agent = k.agent
        /\ \A o, p \in rest : o = p
    BY <2>1, <2>2
  <2> HIDE DEF rest
  <2> QED
    BY <1>1, <2>1, <2>3, <2>4, AloneCheckGoesOn
<1>2. CASE Tell(k)
  <2> DEFINE k2 == [k EXCEPT !.at = "tick", !.verdict = "unknown"]
             rest == IF k.by = Ticker THEN {k2} ELSE {}
  <2>1. checks' = (checks \ {k}) \cup rest /\ report' = report
    BY <1>2 DEF Tell
  <2>2. k2.by = k.by /\ k2.set = k.set /\ k2.agent = k.agent /\ k2.at = "tick"
    BY <1>0 DEF Check
  <2>3. /\ \A o \in rest : o.by = k.by /\ o.set = k.set /\ o.agent = k.agent /\ o.at = "tick"
        /\ \A o, p \in rest : o = p
    BY <2>2
  <2> HIDE DEF k2, rest
  <2> QED
    BY <1>2, <2>1, <2>3, AloneCheckGoesOn
<1>3. ASSUME NEW ok \in BOOLEAN, Probe(k, ok) PROVE AloneInv'
  <2> DEFINE v == HealthOf(Recorded(report[k.set][k.agent], ok))
             k2 == [k EXCEPT !.at = "tell", !.verdict = v]
  <2>1. checks' = (checks \ {k}) \cup {k2} /\ k.at = "probe"
    BY <1>3 DEF Probe
  <2>2. k2.by = k.by /\ k2.set = k.set /\ k2.agent = k.agent
    BY <1>0 DEF Check
  <2>3. \A o \in checks \ {k} : o.agent = k.agent => o.at = "tick"
    BY <2>1 DEF AloneInv
  <2>4. \A s \in 0..MaxRestarts : s # k.set => report'[s] = report[s]
    BY <1>3 DEF Probe, LifecycleTyped
  <2>5. k.set = checkerSet
    BY DEF AloneInv
  <2>6. \A s \in 0..MaxRestarts : s > checkerSet => report'[s] = report[s]
    BY <2>4, <2>5 DEF LifecycleTyped
  <2> HIDE DEF k2
  <2> DEFINE rest == {k2}
  <2>7. /\ checks' = (checks \ {k}) \cup rest
        /\ \A o \in rest : o.by = k.by /\ o.set = k.set /\ o.agent = k.agent
        /\ \A o, p \in rest : o = p
    BY <2>1, <2>2
  <2> HIDE DEF rest
  <2> QED
    BY <1>3, <2>3, <2>6, <2>7, AloneCheckGoesOn
<1> QED
  BY <1>1, <1>2, <1>3

LEMMA AloneExit ==
    ASSUME LifecycleTyped, GenerationInv, AloneInv, NEW k \in checks, Exit(k)
    PROVE  AloneInv'
<1>1. /\ k \in Goroutines /\ k.gen \in cancelled /\ checks' = checks \ {k}
      /\ UNCHANGED <<status, checkerSet, report, running, calling, crashed>>
  BY DEF Exit, Goroutines
<1>2. Goroutines' = Goroutines \ {k}
  BY <1>1 DEF Goroutines
<1>3. k.gen # running /\ ~Quiet /\ ~HasEnded
  BY <1>1 DEF GenerationInv, Quiet, HasEnded
<1>4. \A n \in 1..MaxCalls : waiters'[n] =
         IF waiters[n] = "waiting" /\ Goroutines = {k} THEN "woken" ELSE waiters[n]
  BY DEF Exit, LifecycleTyped
<1>5. \A c \in Callers : InCall(c)' = InCall(c)
  BY <1>1 DEF InCall
<1>6. ~\A c \in Callers : ~InCall(c)
  BY <1>3 DEF AloneInv
<1>7. ASSUME NEW c \in Callers, InCall(c) PROVE checks' = Goroutines' /\ At(c)'
  <2>1. At(c) /\ checks = Goroutines
    BY <1>7 DEF AloneInv
  <2>2. calling[c].call \in 1..MaxCalls
    BY <2>1 DEF At
  <2>3. waiters'[calling[c].call] \in {"woken", "done"} =>
           waiters[calling[c].call] \in {"woken", "done"} \/ Goroutines' = {}
    BY <1>2, <1>4, <2>2
  <2>4. calling[c].at \in {"idle", "cancelling", "waiting"}
    <3>1. calling[c].at \in Places /\ calling[c].op \in {"none", "start", "stop", "restart"}
      BY DEF LifecycleTyped, ManagerCall
    <3> QED
      BY <1>3, <2>1, <3>1 DEF At, Places
  <2>5. calling[c].at = "waiting" /\ waiters[calling[c].call] \in {"woken", "done"} => Goroutines = {}
    BY <2>1 DEF At
  <2>6. At(c)'
    BY <1>1, <2>1, <2>3, <2>4, <2>5 DEF At
  <2> QED
    BY <1>1, <1>2, <2>1, <2>6
<1>8. ASSUME NEW n \in 1..MaxCalls
      PROVE  /\ waiters'[n] = "woken" => Goroutines' = {}
             /\ waiters'[n] \in {"waiting", "woken"} =>
                   \E d \in Callers : calling'[d].at = "waiting" /\ calling'[d].call = n
  <2>1. waiters[n] = "woken" => Goroutines = {}
    BY DEF AloneInv
  <2>2. waiters'[n] \in {"waiting", "woken"} => waiters[n] \in {"waiting", "woken"}
    BY <1>4
  <2> QED
    BY <1>1, <1>2, <1>4, <2>1, <2>2 DEF AloneInv
<1>9. /\ ~crashed' /\ checkerSet' <= MaxRestarts
      /\ \A s \in 0..MaxRestarts : s > checkerSet' => report'[s] = [x \in Agents |-> Unknown]
      /\ \A o \in checks' : o.set = checkerSet'
      /\ \A o, p \in checks' : o.agent = p.agent /\ o.at # "tick" /\ p.at # "tick" => o = p
  BY <1>1 DEF AloneInv
<1>10. \A c, d \in Callers : InCall(c)' /\ InCall(d)' => c = d
  BY <1>5 DEF AloneInv
<1> QED
  BY <1>5, <1>6, <1>7, <1>8, <1>9, <1>10 DEF AloneInv

LEMMA AloneStep ==
    LifecycleTyped /\ GenerationInv /\ (~mixed => AloneInv) /\ [LifecycleNext]_lifecycleVars
       => (~mixed' => AloneInv')
<1> SUFFICES ASSUME LifecycleTyped, GenerationInv, ~mixed => AloneInv, [LifecycleNext]_lifecycleVars, ~mixed'
             PROVE  AloneInv'
  OBVIOUS
<1>1. CASE UNCHANGED lifecycleVars
  <2>1. AloneInv
    BY <1>1 DEF lifecycleVars
  <2> QED
    BY <1>1, <2>1 DEF lifecycleVars, AloneInv, At, InCall, Quiet, HasEnded, Goroutines
<1>2. ASSUME NEW c \in Callers, CallerStep(c) \/ Expire(c) PROVE AloneInv'
  <2>1. ~TimesOut(c)
    BY DEF TimesOut
  <2>2. AloneInv
    BY <1>2, <2>1 DEF CallerStep, SetStatus, Launch, TakeCancel, Cancel, Joined, Build,
                      SetupHealthChecking, Expire
  <2> QED
    BY <1>2, <2>1, <2>2, AloneCallSteps, AloneLaunch, AloneCancel, AloneSetup DEF CallerStep
<1>3. ASSUME NEW c \in Callers, NEW op \in {"start", "stop", "restart"}, NEW ctx \in {"none", "live"},
             Begin(c, op, ctx)
      PROVE  AloneInv'
  <2>1. AloneInv
    BY <1>3 DEF Begin
  <2> QED
    BY <1>3, <2>1, AloneBegin
<1>4. ASSUME NEW c \in Callers, NEW a \in Agents, CheckNow(c, a) PROVE AloneInv'
  <2>1. AloneInv
    BY <1>4 DEF CheckNow
  <2> QED
    BY <1>4, <2>1, AloneCheckNow
<1>5. ASSUME NEW k \in checks, Tick(k) \/ CheckStep(k) PROVE AloneInv'
  <2>1. AloneInv
    BY <1>5 DEF CheckStep, Tick, Exit, Tell, Probe
  <2> QED
    BY <1>5, <2>1, AloneCheckStep, AloneExit DEF CheckStep
<1>6. ASSUME NEW n \in DOMAIN waiters, Woken(n) PROVE AloneInv'
  <2>1. AloneInv
    BY <1>6 DEF Woken
  <2> QED
    BY <1>6, <2>1, AloneWoken
<1> QED
  BY <1>1, <1>2, <1>3, <1>4, <1>5, <1>6 DEF LifecycleNext

LEMMA HealthStays ==
    ASSUME HealthInv, UNCHANGED <<health, report, checkerSet, checks>>,
           \A c \in Callers : calling'[c].at = "setup" <=> calling[c].at = "setup"
    PROVE  HealthInv'
BY DEF HealthInv

LEMMA HealthCallSteps ==
    ASSUME LifecycleTyped, AloneInv, HealthInv, NEW c \in Callers,
           CallerStep(c) \/ Expire(c), ~mixed'
    PROVE  HealthInv'
<1>0. calling[c] \in ManagerCall /\ calling \in [Callers -> ManagerCall]
  BY DEF LifecycleTyped
<1>1. ASSUME NEW at \in Places \ {"setup"}, calling[c].at # "setup",
             calling' = [calling EXCEPT ![c].at = at]
      PROVE  \A d \in Callers : calling'[d].at = "setup" <=> calling[d].at = "setup"
  BY <1>1, CallGoes
<1>2. ASSUME calling[c].at # "setup", calling' = [calling EXCEPT ![c] = Idle]
      PROVE  \A d \in Callers : calling'[d].at = "setup" <=> calling[d].at = "setup"
  BY <1>0, <1>2 DEF Idle
<1>3. CASE SetStatus(c)
  <2>1. calling[c].at # "setup"
    BY <1>3 DEF SetStatus
  <2>2. \/ \E at \in Places \ {"setup"} : calling' = [calling EXCEPT ![c].at = at]
        \/ calling' = [calling EXCEPT ![c] = Idle]
    BY <1>3 DEF SetStatus, Goto, Done, Places
  <2>3. \A d \in Callers : calling'[d].at = "setup" <=> calling[d].at = "setup"
    BY <1>1, <1>2, <2>1, <2>2
  <2> QED
    BY <1>3, <2>3, HealthStays DEF SetStatus
<1>4. CASE Cancel(c)
  <2>1. calling[c].at # "setup" /\ calling' = [calling EXCEPT ![c].at = "waiting"]
    BY <1>4 DEF Cancel, Goto
  <2>2. \A d \in Callers : calling'[d].at = "setup" <=> calling[d].at = "setup"
    BY <1>1, <2>1 DEF Places
  <2> QED
    BY <1>4, <2>2, HealthStays DEF Cancel
<1>5. CASE Joined(c) \/ TakeCancel(c) \/ Expire(c)
  <2>1. \A d \in Callers \ {c} : calling'[d] = calling[d]
    BY <1>0, <1>5 DEF Joined, TakeCancel, Expire
  <2>2. calling'[c].at = "setup" <=> calling[c].at = "setup"
    <3>1. CASE Joined(c)
      BY <1>0, <3>1 DEF Joined, ManagerCall
    <3>2. CASE TakeCancel(c)
      BY <1>0, <3>2 DEF TakeCancel, ManagerCall
    <3>3. CASE Expire(c)
      BY <1>0, <3>3 DEF Expire, ManagerCall
    <3> QED
      BY <1>5, <3>1, <3>2, <3>3
  <2> QED
    BY <1>5, <2>1, <2>2, HealthStays DEF Joined, TakeCancel, Expire
<1>6. CASE Launch(c)
  <2>1. calling[c].at = "launch" /\ calling' = [calling EXCEPT ![c].at = "running"]
        /\ UNCHANGED <<health, report, checkerSet>>
    BY <1>6 DEF Launch, Goto
  <2>2. \A d \in Callers : calling'[d].at = "setup" <=> calling[d].at = "setup"
    BY <1>1, <2>1 DEF Places
  <2>3. \A k \in checks' : k \in checks \/ k.at = "tick"
    BY <1>6 DEF Launch
  <2>4. checks \subseteq checks'
    BY <1>6 DEF Launch
  <2> QED
    BY <2>1, <2>2, <2>3, <2>4 DEF HealthInv
<1>7. ASSUME NEW ok \in BOOLEAN, Build(c, ok) PROVE HealthInv'
  <2>1. calling[c].at = "build" /\ UNCHANGED <<report, checkerSet, checks>>
    BY <1>7 DEF Build
  <2>2. checks = {} /\ \A d \in Callers \ {c} : calling[d].at # "setup"
    BY <1>7 DEF Build, AloneInv, At, InCall, Idle, HasEnded
  <2>3. CASE ok
    <3>1. health' = [a \in Agents |-> "unknown"] /\ calling' = [calling EXCEPT ![c].at = "setup"]
      BY <1>7, <2>3 DEF Build, Goto
    <3>2. calling'[c].at = "setup"
      BY <3>1, CallGoes
    <3> QED
      BY <2>1, <2>2, <3>1, <3>2 DEF HealthInv
  <2>4. CASE ~ok
    <3>1. health' = health /\ calling' = [calling EXCEPT ![c].at = "failed"]
      BY <1>7, <2>4 DEF Build, Goto
    <3>2. \A d \in Callers : calling'[d].at = "setup" <=> calling[d].at = "setup"
      BY <1>1, <2>1, <3>1 DEF Places
    <3> QED
      BY <2>1, <3>1, <3>2, HealthStays
  <2> QED
    BY <2>3, <2>4
<1>8. CASE SetupHealthChecking(c)
  <2>1. calling[c].at = "setup" /\ UNCHANGED <<report, health, checks>> /\ checkerSet' = checkerSet + 1
    BY <1>8 DEF SetupHealthChecking
  <2>2. checks = {} /\ checkerSet + 1 \in 0..MaxRestarts
    <3>1. InCall(c)
      BY <2>1 DEF InCall, Idle
    <3>2. At(c) /\ checks = Goroutines
      BY <3>1 DEF AloneInv
    <3> QED
      BY <2>1, <3>2, LifecycleAssumption DEF At, HasEnded, LifecycleTyped
  <2>3. \A a \in Agents : report'[checkerSet'][a] = Unknown
    BY <2>1, <2>2 DEF AloneInv, LifecycleTyped
  <2>4. HealthOf(Unknown) = "unknown"
    BY DEF HealthOf, Unknown
  <2>5. \A a \in Agents : health'[a] = HealthOf(report'[checkerSet'][a])
    BY <2>1, <2>3, <2>4 DEF HealthInv
  <2>6. \A d \in Callers : calling'[d].at # "setup"
    <3>1. \A d \in Callers \ {c} : calling[d].at # "setup"
      BY <2>1 DEF AloneInv, InCall, Idle
    <3>2. CASE calling' = [calling EXCEPT ![c].at = "starting"]
      <4>1. calling'[c].at = "starting" /\ \A d \in Callers \ {c} : calling'[d] = calling[d]
        BY <3>2, CallGoes
      <4> QED
        BY <3>1, <4>1
    <3>3. CASE calling' = [calling EXCEPT ![c] = Idle]
      BY <1>0, <3>1, <3>3 DEF Idle
    <3> QED
      BY <1>8, <3>2, <3>3 DEF SetupHealthChecking, Goto, Done
  <2> QED
    BY <2>1, <2>2, <2>5, <2>6 DEF HealthInv
<1> QED
  BY <1>3, <1>4, <1>5, <1>6, <1>7, <1>8 DEF CallerStep, TimesOut

LEMMA HealthCheckSteps ==
    ASSUME LifecycleTyped, AloneInv, HealthInv, NEW k \in checks, Tick(k) \/ CheckStep(k)
    PROVE  HealthInv'
<1>0. k \in Check /\ k.set = checkerSet /\ checkerSet \in 0..MaxRestarts /\ calling' = calling
  <2>1. k \in Check /\ checkerSet \in Nat
    BY DEF LifecycleTyped
  <2>2. k.set = checkerSet /\ checkerSet <= MaxRestarts
    BY DEF AloneInv
  <2>3. calling' = calling
    BY DEF Tick, CheckStep, Exit, Tell, Probe
  <2> QED
    BY <2>1, <2>2, <2>3, LifecycleAssumption
<1>1. \A c \in Callers : calling[c].at # "setup"
  <2> SUFFICES ASSUME NEW c \in Callers, calling[c].at = "setup" PROVE FALSE
    OBVIOUS
  <2>1. InCall(c)
    BY DEF InCall, Idle
  <2>2. At(c) /\ checks = Goroutines
    BY <2>1 DEF AloneInv
  <2> QED
    BY <2>2 DEF At, HasEnded
<1>2. CASE Tick(k)
  <2> DEFINE k2 == [k EXCEPT !.at = "probe"]
  <2>1. checks' = (checks \ {k}) \cup {k2} /\ UNCHANGED <<health, report, checkerSet>> /\ k.at = "tick"
    BY <1>2 DEF Tick
  <2>2. k2.at = "probe"
    BY <1>0 DEF Check
  <2> HIDE DEF k2
  <2>3. \A o \in checks' : o.at = "tell" => o \in checks
    BY <2>1, <2>2
  <2>4. \A o \in checks : o.at = "tell" => o \in checks'
    BY <2>1
  <2> QED
    BY <1>0, <1>1, <2>1, <2>3, <2>4 DEF HealthInv
<1>3. CASE Exit(k)
  <2>1. checks' = checks \ {k} /\ UNCHANGED <<health, report, checkerSet>> /\ k.at = "tick"
    BY <1>3 DEF Exit
  <2> QED
    BY <1>0, <1>1, <2>1 DEF HealthInv
<1>4. CASE Tell(k)
  <2> DEFINE k2 == [k EXCEPT !.at = "tick", !.verdict = "unknown"]
             rest == IF k.by = Ticker THEN {k2} ELSE {}
  <2>1. /\ checks' = (checks \ {k}) \cup rest /\ UNCHANGED <<report, checkerSet>> /\ k.at = "tell"
        /\ health' = [health EXCEPT ![k.agent] = k.verdict]
    BY <1>4 DEF Tell
  <2>2. \A o \in rest : o.at = "tick"
    BY <1>0 DEF Check
  <2> HIDE DEF k2, rest
  <2>3. k.verdict = HealthOf(report[checkerSet][k.agent]) /\ k.agent \in Agents
    BY <1>0, <2>1 DEF HealthInv, Check
  <2>4. \A o \in checks' : o.at = "tell" => o \in checks
    BY <2>1, <2>2
  <2>5. ASSUME NEW a \in Agents, \A o \in checks' : o.agent = a => o.at # "tell"
        PROVE  health'[a] = HealthOf(report[checkerSet][a])
    <3>1. CASE a = k.agent
      BY <2>1, <2>3, <3>1 DEF LifecycleTyped
    <3>2. CASE a # k.agent
      <4>1. \A o \in checks : o.agent = a => o.at # "tell"
        BY <2>1, <2>5, <3>2
      <4> QED
        BY <1>1, <2>1, <3>2, <4>1 DEF HealthInv, LifecycleTyped
    <3> QED
      BY <3>1, <3>2
  <2> QED
    BY <1>0, <1>1, <2>1, <2>4, <2>5 DEF HealthInv
<1>5. ASSUME NEW ok \in BOOLEAN, Probe(k, ok) PROVE HealthInv'
  <2> DEFINE r == Recorded(report[k.set][k.agent], ok)
             k2 == [k EXCEPT !.at = "tell", !.verdict = HealthOf(r)]
  <2>1. /\ checks' = (checks \ {k}) \cup {k2} /\ UNCHANGED <<health, checkerSet>> /\ k.at = "probe"
        /\ report' = [report EXCEPT ![k.set][k.agent] = r]
    BY <1>5 DEF Probe
  <2>2. k2.at = "tell" /\ k2.verdict = HealthOf(r) /\ k2.agent = k.agent
    BY <1>0 DEF Check
  <2> HIDE DEF k2, r
  <2>3. /\ report'[checkerSet][k.agent] = r
        /\ \A a \in Agents : a # k.agent => report'[checkerSet][a] = report[checkerSet][a]
    <3>1. report[checkerSet] \in [Agents -> Reports] /\ k.agent \in Agents
      BY <1>0 DEF LifecycleTyped, Check
    <3>2. report'[checkerSet] = [report[checkerSet] EXCEPT ![k.agent] = r]
      BY <1>0, <2>1 DEF LifecycleTyped
    <3> QED
      BY <3>1, <3>2
  <2>4. ASSUME NEW o \in checks', o.at = "tell"
        PROVE  o.verdict = HealthOf(report'[checkerSet][o.agent])
    <3>1. CASE o = k2
      BY <2>2, <2>3, <3>1
    <3>2. CASE o \in checks \ {k}
      <4>1. o.agent # k.agent
        BY <2>1, <2>4, <3>2 DEF AloneInv
      <4>2. o.agent \in Agents
        BY <3>2 DEF LifecycleTyped, Check
      <4> QED
        BY <2>3, <2>4, <3>2, <4>1, <4>2 DEF HealthInv
    <3> QED
      BY <2>1, <3>1, <3>2
  <2>5. ASSUME NEW a \in Agents, \A o \in checks' : o.agent = a => o.at # "tell"
        PROVE  health'[a] = HealthOf(report'[checkerSet][a])
    <3>1. a # k.agent
      BY <2>1, <2>2, <2>5
    <3>2. \A o \in checks : o.agent = a => o.at # "tell"
      BY <2>1, <2>5, <3>1
    <3> QED
      BY <1>1, <2>1, <2>3, <3>1, <3>2 DEF HealthInv
  <2> QED
    BY <1>0, <1>1, <2>1, <2>4, <2>5 DEF HealthInv
<1> QED
  BY <1>2, <1>3, <1>4, <1>5 DEF CheckStep

LEMMA HealthStep ==
    LifecycleTyped /\ (~mixed => AloneInv /\ HealthInv) /\ [LifecycleNext]_lifecycleVars
       => (~mixed' => HealthInv')
<1> SUFFICES ASSUME LifecycleTyped, ~mixed => AloneInv /\ HealthInv, [LifecycleNext]_lifecycleVars, ~mixed'
             PROVE  HealthInv'
  OBVIOUS
<1>1. CASE UNCHANGED lifecycleVars
  BY <1>1 DEF lifecycleVars, HealthInv
<1>2. ASSUME NEW c \in Callers, CallerStep(c) \/ Expire(c) PROVE HealthInv'
  <2>1. ~mixed
    BY <1>2 DEF CallerStep, SetStatus, Launch, TakeCancel, Cancel, Joined, Build, TimesOut,
                SetupHealthChecking, Expire
  <2> QED
    BY <1>2, <2>1, HealthCallSteps
<1>3. ASSUME NEW c \in Callers, NEW op \in {"start", "stop", "restart"}, NEW ctx \in {"none", "live"},
             Begin(c, op, ctx)
      PROVE  HealthInv'
  <2>1. ~mixed /\ UNCHANGED <<health, report, checkerSet, checks>>
    BY <1>3 DEF Begin
  <2>2. calling[c].at # "setup" /\ calling'[c].at # "setup"
    BY <1>3 DEF Begin, Idle, LifecycleTyped
  <2>3. \A d \in Callers \ {c} : calling'[d] = calling[d]
    BY <1>3 DEF Begin, LifecycleTyped
  <2> QED
    BY <2>1, <2>2, <2>3, HealthStays
<1>4. ASSUME NEW c \in Callers, NEW a \in Agents, CheckNow(c, a) PROVE HealthInv'
  <2> DEFINE k == [by |-> c, gen |-> 0, set |-> checkerSet, agent |-> a,
                   at |-> "probe", verdict |-> "unknown"]
  <2>1. /\ ~mixed /\ UNCHANGED <<health, report, checkerSet, calling>>
        /\ checks' = checks \cup {k} /\ k.at = "probe"
    BY <1>4 DEF CheckNow
  <2> HIDE DEF k
  <2> QED
    BY <2>1 DEF HealthInv
<1>5. ASSUME NEW k \in checks, Tick(k) \/ CheckStep(k) PROVE HealthInv'
  <2>1. ~mixed
    BY <1>5 DEF CheckStep, Tick, Exit, Tell, Probe
  <2> QED
    BY <1>5, <2>1, HealthCheckSteps
<1>6. ASSUME NEW n \in DOMAIN waiters, Woken(n) PROVE HealthInv'
  <2>1. ~mixed /\ UNCHANGED <<health, report, checkerSet, checks, calling>>
    BY <1>6 DEF Woken
  <2> QED
    BY <2>1, HealthStays
<1> QED
  BY <1>1, <1>2, <1>3, <1>4, <1>5, <1>6 DEF LifecycleNext

(* For any number of callers, agents, calls and generations of checkers: a   *)
(* checker outside the running generation is being cancelled; and while one  *)
(* call of Start, Stop, Restart or CheckHealthNow comes after the other, the *)
(* status, the checkers and what they found agree.                           *)
THEOREM CheckersFollow == LifecycleSpec => []CheckersFollowStatus
<1>1. LifecycleInv /\ [LifecycleNext]_lifecycleVars => LifecycleInv'
  BY LifecycleTypes, GenerationsStep, AloneStep, HealthStep DEF LifecycleInv
<1>2. LifecycleInv => CheckersFollowStatus
  <2> SUFFICES ASSUME LifecycleInv PROVE CheckersFollowStatus
    OBVIOUS
  <2>1. \A k \in Goroutines : \/ k.gen = running
                              \/ k.gen \in cancelled
                              \/ \E c \in Callers : calling[c].at = "cancelling" /\ calling[c].gen = k.gen
    BY DEF LifecycleInv, GenerationInv
  <2>2. ASSUME ~mixed, \A c \in Callers : calling[c] = Idle
        PROVE  /\ ~crashed
               /\ status = "running" <=> running # 0
               /\ running # 0 => {k.agent : k \in Goroutines} = Agents
               /\ \A k \in Goroutines : k.gen = running /\ k.set = checkerSet
               /\ \A a \in Agents : (\A k \in checks : k.agent = a => k.at # "tell")
                                    => health[a] = HealthOf(report[checkerSet][a])
    <3>1. AloneInv /\ HealthInv /\ Quiet
      BY <2>2 DEF LifecycleInv, AloneInv, InCall
    <3>2. \A c \in Callers : ~InCall(c) /\ calling[c].at # "setup"
      BY <2>2 DEF InCall, Idle
    <3> QED
      BY <3>1, <3>2 DEF AloneInv, HealthInv, Quiet, Goroutines
  <2> QED
    BY <2>1, <2>2 DEF CheckersFollowStatus
<1> QED
  BY LifecycleBegins, <1>1, <1>2, PTL DEF LifecycleSpec


-----------------------------------------------------------------------------
(* Budgets of requests. A bucket holds what its key has not used: whatever   *)
(* was let through since some moment, with what the bucket would hold now,   *)
(* is at most the capacity and what the rate has added since that moment.    *)
RuleOk(rule) == rule.requests \in Nat /\ rule.burst \in Int

IsBucket(b, rule, now) ==
    /\ b \in [tokens : Nat, last : Nat, rule : {rule}]
    /\ b.last <= now /\ b.tokens <= Capacity(rule)

Within(S, key, since, until) == {g \in S : g.key = key /\ g.time \in since..until}

KeepsBudget(S, key, b, now) ==
    /\ \A since, until \in 0..now : since <= until =>
          Cardinality(Within(S, key, since, until)) * Period <= Capacity(b.rule) + (until - since) * b.rule.requests
    /\ \A since \in 0..now :
          Cardinality(Within(S, key, since, now)) * Period + Refilled(b, now).tokens
             <= Capacity(b.rule) + (now - since) * b.rule.requests

LEMMA Product == \A m, n \in Nat : m * n \in Nat /\ (m + 1) * n = m * n + n /\ 0 * n = 0
OBVIOUS

LEMMA CapacityOk ==
    ASSUME NEW rule, RuleOk(rule)
    PROVE  Capacity(rule) \in Nat /\ Capacity(rule) >= Period /\ Period \in Nat /\ Period > 0
<1>1. Period \in Nat /\ Period > 0
  BY RequestsAssumption
<1>2. PICK n \in Nat : n >= 1 /\ Larger(1, Larger(rule.requests, rule.burst)) = n
  BY DEF Larger, RuleOk
<1>3. PICK m \in Nat : n = m + 1
  BY <1>2
<1>4. Period * n = Period * m + Period /\ Period * m \in Nat
  <2>1. m * Period \in Nat /\ (m + 1) * Period = m * Period + Period
    BY <1>1, Product
  <2>2. Period * n = n * Period /\ Period * m = m * Period
    BY <1>1
  <2> QED
    BY <1>3, <2>1, <2>2
<1> QED
  BY <1>1, <1>2, <1>4 DEF Capacity

LEMMA RefilledOk ==
    ASSUME NEW rule, RuleOk(rule), NEW now \in Nat, NEW b, IsBucket(b, rule, now)
    PROVE  /\ IsBucket(Refilled(b, now), rule, now)
           /\ Refilled(b, now).last = now
           /\ Refilled(b, now).tokens = Smaller(b.tokens + (now - b.last) * rule.requests, Capacity(rule))
<1> DEFINE added == (now - b.last) * rule.requests
           t == Smaller(b.tokens + added, Capacity(rule))
<1>1. b \in [tokens : Nat, last : Nat, rule : {rule}] /\ b.rule = rule /\ b.last <= now
  BY DEF IsBucket
<1>2. added \in Nat
  <2>1. now - b.last \in Nat
    BY <1>1
  <2> QED
    BY <1>1, <2>1, Product DEF RuleOk
<1>3. Capacity(rule) \in Nat
  BY CapacityOk
<1>4. t \in Nat /\ t <= Capacity(rule)
  <2> HIDE DEF added
  <2> QED
    BY <1>1, <1>2, <1>3 DEF Smaller
<1>5. Refilled(b, now) = [b EXCEPT !.tokens = t, !.last = now]
  BY <1>1 DEF Refilled
<1>6. t = Smaller(b.tokens + (now - b.last) * rule.requests, Capacity(rule))
  OBVIOUS
<1> HIDE DEF t
<1>7. /\ Refilled(b, now) \in [tokens : Nat, last : Nat, rule : {rule}]
      /\ Refilled(b, now).tokens = t /\ Refilled(b, now).last = now
  BY <1>1, <1>4, <1>5
<1> QED
  BY <1>4, <1>6, <1>7 DEF IsBucket

LEMMA RefilledOnce ==
    ASSUME NEW rule, RuleOk(rule), NEW now \in Nat, NEW b, IsBucket(b, rule, now), b.last = now
    PROVE  Refilled(b, now).tokens = b.tokens
<1>1. (now - b.last) * rule.requests = 0
  BY Product DEF RuleOk
<1>2. Refilled(b, now).tokens = Smaller(b.tokens + 0, Capacity(rule))
  BY <1>1, RefilledOk
<1> QED
  BY <1>2, CapacityOk DEF IsBucket, Smaller

LEMMA AllowOk ==
    ASSUME NEW rule, RuleOk(rule), NEW now \in Nat, NEW b, IsBucket(b, rule, now)
    PROVE  LET a == Allow(b, now) IN
           /\ a.ok \in BOOLEAN /\ IsBucket(a.bucket, rule, now)
           /\ Refilled(a.bucket, now).tokens = IF a.ok THEN Refilled(b, now).tokens - Period ELSE Refilled(b, now).tokens
<1> DEFINE r == Refilled(b, now)
           a == Allow(b, now)
<1>1. IsBucket(r, rule, now) /\ r.last = now /\ Refilled(r, now).tokens = r.tokens
  BY RefilledOk, RefilledOnce
<1>2. Period \in Nat /\ Period > 0 /\ Capacity(rule) \in Nat
  BY CapacityOk
<1> HIDE DEF r
<1>3. CASE r.tokens >= Period
  <2> DEFINE s == [r EXCEPT !.tokens = @ - Period]
  <2>1. a.ok = TRUE /\ a.bucket = s
    BY <1>3 DEF Allow, r
  <2>2. s \in [tokens : Nat, last : Nat, rule : {rule}] /\ s.tokens = r.tokens - Period /\ s.last = now
    BY <1>1, <1>2, <1>3 DEF IsBucket
  <2>3. IsBucket(s, rule, now)
    BY <1>1, <1>2, <2>2 DEF IsBucket
  <2>4. Refilled(s, now).tokens = s.tokens
    BY <2>2, <2>3, RefilledOnce
  <2> HIDE DEF s, a
  <2> QED
    BY <2>1, <2>2, <2>3, <2>4 DEF a, r
<1>4. CASE ~(r.tokens >= Period)
  <2>1. a.ok = FALSE /\ a.bucket = r
    BY <1>4 DEF Allow, r
  <2> HIDE DEF a
  <2> QED
    BY <1>1, <2>1 DEF a, r
<1> QED
  BY <1>3, <1>4

LEMMA WithinAdds ==
    ASSUME NEW S, IsFiniteSet(S), NEW key, NEW since \in Nat, NEW until \in Nat, NEW g
    PROVE  /\ Cardinality(Within(S, key, since, until)) \in Nat
           /\ Cardinality(Within(S \cup {g}, key, since, until)) \in Nat
           /\ Cardinality(Within(S \cup {g}, key, since, until)) <= Cardinality(Within(S, key, since, until)) + 1
           /\ (g.key # key \/ g.time \notin since..until) => Within(S \cup {g}, key, since, until) = Within(S, key, since, until)
<1> DEFINE W == Within(S, key, since, until)
           X == Within(S \cup {g}, key, since, until)
<1>1. IsFiniteSet(W)
  BY FS_Subset DEF Within
<1>2. IsFiniteSet(W \cup {g}) /\ Cardinality(W) \in Nat /\ Cardinality(W \cup {g}) <= Cardinality(W) + 1
        /\ Cardinality(W \cup {g}) \in Nat
  <2>1. IsFiniteSet(W \cup {g}) /\ Cardinality(W \cup {g}) = IF g \in W THEN Cardinality(W) ELSE Cardinality(W) + 1
    BY <1>1, FS_AddElement
  <2>2. Cardinality(W) \in Nat
    BY <1>1, FS_CardinalityType
  <2> HIDE DEF W
  <2> QED
    BY <2>1, <2>2
<1>3. X = W \/ X = W \cup {g}
  BY DEF Within
<1>4. (g.key # key \/ g.time \notin since..until) => X = W
  BY DEF Within
<1>5. W = Within(S, key, since, until) /\ X = Within(S \cup {g}, key, since, until)
  OBVIOUS
<1> HIDE DEF W, X
<1>6. /\ Cardinality(W) \in Nat /\ Cardinality(X) \in Nat
      /\ Cardinality(X) <= Cardinality(W) + 1
  <2>1. CASE X = W
    BY <1>2, <2>1
  <2>2. CASE X = W \cup {g}
    BY <1>2, <2>2
  <2> QED
    BY <1>3, <2>1, <2>2
<1> QED
  BY <1>4, <1>5, <1>6

(* The three things that happen to a key: its bucket is asked, another is,   *)
(* and time goes by.                                                         *)
LEMMA AskedKeepsBudget ==
    ASSUME NEW rule, RuleOk(rule), NEW now \in Nat, NEW b, IsBucket(b, rule, now), NEW S, IsFiniteSet(S),
           NEW key, KeepsBudget(S, key, b, now), NEW g, g.key = key, g.time = now
    PROVE  KeepsBudget(S \cup (IF Allow(b, now).ok THEN {g} ELSE {}), key, Allow(b, now).bucket, now)
<1> DEFINE a == Allow(b, now)
           cap == Capacity(rule)
           q == rule.requests
           T == S \cup {g}
<1>1. /\ a.ok \in BOOLEAN /\ IsBucket(a.bucket, rule, now)
      /\ Refilled(a.bucket, now).tokens = IF a.ok THEN Refilled(b, now).tokens - Period ELSE Refilled(b, now).tokens
  BY AllowOk
<1>2. a.bucket.rule = rule /\ b.rule = rule /\ Refilled(b, now).tokens \in Nat /\ Refilled(a.bucket, now).tokens \in Nat
  BY <1>1, RefilledOk DEF IsBucket
<1>3. Period \in Nat /\ cap \in Nat /\ q \in Nat
  BY CapacityOk DEF RuleOk
<1> HIDE DEF a, cap, q
<1>4. CASE a.ok
  <2>1. ASSUME NEW since \in 0..now
        PROVE  Cardinality(Within(T, key, since, now)) * Period + Refilled(a.bucket, now).tokens <= cap + (now - since) * q
    <3> DEFINE n == Cardinality(Within(S, key, since, now))
               m == Cardinality(Within(T, key, since, now))
               x == (now - since) * q
    <3>1. n \in Nat /\ m \in Nat /\ m <= n + 1
      <4>1. since \in Nat
        OBVIOUS
      <4> QED
        BY <4>1, WithinAdds
    <3>2. n * Period + Refilled(b, now).tokens <= cap + x
      BY <1>2 DEF KeepsBudget, cap, q
    <3>3. x \in Nat
      <4>1. now - since \in Nat
        OBVIOUS
      <4> QED
        BY <1>3, <4>1, Product
    <3>4. m * Period <= n * Period + Period /\ m * Period \in Nat /\ n * Period \in Nat
      <4>1. (n + 1) * Period = n * Period + Period /\ n * Period \in Nat
        BY <1>3, <3>1, Product
      <4>2. m * Period <= (n + 1) * Period /\ m * Period \in Nat
        <5> HIDE DEF n, m
        <5> QED
          BY <1>3, <3>1
      <4> HIDE DEF n, m
      <4> QED
        BY <4>1, <4>2
    <3>5. Refilled(a.bucket, now).tokens = Refilled(b, now).tokens - Period
      BY <1>1, <1>4
    <3> HIDE DEF n, m, x
    <3>6. m * Period + Refilled(a.bucket, now).tokens <= cap + x
      BY <1>2, <1>3, <3>2, <3>3, <3>4, <3>5
    <3> QED
      BY <3>6 DEF m, x
  <2>2. ASSUME NEW since \in 0..now, NEW until \in 0..now, since <= until
        PROVE  Cardinality(Within(T, key, since, until)) * Period <= cap + (until - since) * q
    <3>1. CASE until = now
      <4> DEFINE y == Cardinality(Within(T, key, since, now)) * Period
                 x == (now - since) * q
      <4>1. y + Refilled(a.bucket, now).tokens <= cap + x
        BY <2>1
      <4>2. y \in Nat /\ x \in Nat
        <5>1. Cardinality(Within(T, key, since, now)) \in Nat /\ now - since \in Nat
          BY WithinAdds
        <5> QED
          BY <1>3, <5>1, Product
      <4> HIDE DEF x, y
      <4>3. y <= cap + x
        BY <1>2, <1>3, <4>1, <4>2
      <4> QED
        BY <3>1, <4>3 DEF x, y
    <3>2. CASE until # now
      <4>1. g.time \notin since..until
        BY <3>2
      <4>2. Within(T, key, since, until) = Within(S, key, since, until)
        BY <4>1, WithinAdds
      <4> QED
        BY <1>2, <2>2, <4>2 DEF KeepsBudget, cap, q
    <3> QED
      BY <3>1, <3>2
  <2> QED
    BY <1>2, <1>4, <2>1, <2>2 DEF KeepsBudget, cap, q, a
<1>5. CASE ~a.ok
  <2>1. S \cup {} = S
    OBVIOUS
  <2>2. KeepsBudget(S, key, a.bucket, now)
    BY <1>1, <1>2, <1>5 DEF KeepsBudget
  <2> QED
    BY <1>5, <2>1, <2>2 DEF a
<1> QED
  BY <1>1, <1>4, <1>5

LEMMA OthersKeepBudget ==
    ASSUME NEW now \in Nat, NEW b, NEW S, IsFiniteSet(S), NEW key, KeepsBudget(S, key, b, now),
           NEW T, T = {} \/ \E g : g.key # key /\ T = {g}
    PROVE  KeepsBudget(S \cup T, key, b, now)
<1>1. \A since, until \in 0..now : Within(S \cup T, key, since, until) = Within(S, key, since, until)
  BY DEF Within
<1>2. ASSUME NEW since \in 0..now, NEW until \in 0..now, since <= until
      PROVE  Cardinality(Within(S \cup T, key, since, until)) * Period <= Capacity(b.rule) + (until - since) * b.rule.requests
  <2>1. Within(S \cup T, key, since, until) = Within(S, key, since, until)
    BY <1>1
  <2>2. Cardinality(Within(S, key, since, until)) * Period <= Capacity(b.rule) + (until - since) * b.rule.requests
    BY <1>2 DEF KeepsBudget
  <2> QED
    BY <2>1, <2>2
<1>3. ASSUME NEW since \in 0..now
      PROVE  Cardinality(Within(S \cup T, key, since, now)) * Period + Refilled(b, now).tokens
                <= Capacity(b.rule) + (now - since) * b.rule.requests
  <2>1. Within(S \cup T, key, since, now) = Within(S, key, since, now)
    BY <1>1
  <2>2. Cardinality(Within(S, key, since, now)) * Period + Refilled(b, now).tokens
           <= Capacity(b.rule) + (now - since) * b.rule.requests
    BY DEF KeepsBudget
  <2> QED
    BY <2>1, <2>2
<1> QED
  BY <1>2, <1>3 DEF KeepsBudget

LEMMA TimeKeepsBudget ==
    ASSUME NEW rule, RuleOk(rule), NEW now \in Nat, NEW b, IsBucket(b, rule, now), NEW S, IsFiniteSet(S),
           NEW key, KeepsBudget(S, key, b, now), \A g \in S : g.time \in 0..now
    PROVE  KeepsBudget(S, key, b, now + 1)
<1> DEFINE cap == Capacity(rule)
           q == rule.requests
           before == Refilled(b, now).tokens
           after == Refilled(b, now + 1).tokens
<1>1. Period \in Nat /\ cap \in Nat /\ q \in Nat /\ b.rule = rule /\ b.tokens \in Nat /\ b.last \in Nat /\ b.last <= now
  BY CapacityOk DEF RuleOk, IsBucket
<1>2. before \in Nat /\ after \in Nat /\ after <= before + q /\ after <= cap
  <2>1. \A m \in Nat : m = now + 1 => IsBucket(b, rule, m)
    BY DEF IsBucket
  <2>2. PICK m \in Nat : m = now + 1
    OBVIOUS
  <2>3. PICK n \in Nat : n = now - b.last
    BY <1>1
  <2>4. before = Smaller(b.tokens + (now - b.last) * q, cap)
    BY RefilledOk
  <2>5. Refilled(b, m).tokens = Smaller(b.tokens + (m - b.last) * q, cap)
    BY <2>1, <2>2, RefilledOk
  <2>6. after = Refilled(b, m).tokens
    BY <2>2
  <2>7. (m - b.last) * q = n * q + q /\ (now - b.last) * q = n * q /\ n * q \in Nat
    <3>1. m - b.last = n + 1
      BY <1>1, <2>2, <2>3
    <3> QED
      BY <1>1, <2>3, <3>1, Product
  <2> HIDE DEF before, after, cap, q
  <2> QED
    BY <1>1, <2>4, <2>5, <2>6, <2>7 DEF Smaller
<1> HIDE DEF before, after, cap, q
<1>3. ASSUME NEW since \in 0..(now + 1)
      PROVE  Cardinality(Within(S, key, since, now + 1)) * Period + after <= cap + (now + 1 - since) * q
  <2>1. CASE since = now + 1
    <3>1. Within(S, key, since, now + 1) = {}
      BY <2>1 DEF Within
    <3>2. Cardinality(Within(S, key, since, now + 1)) * Period = 0 /\ (now + 1 - since) * q = 0
      <4>1. Cardinality(Within(S, key, since, now + 1)) = 0 /\ now + 1 - since = 0
        BY <2>1, <3>1, FS_EmptySet
      <4> QED
        BY <1>1, <4>1, Product
    <3> QED
      BY <1>1, <1>2, <3>2
  <2>2. CASE since # now + 1
    <3> DEFINE n == Cardinality(Within(S, key, since, now))
               x == (now - since) * q
    <3>1. Within(S, key, since, now + 1) = Within(S, key, since, now)
      BY DEF Within
    <3>2. since \in 0..now
      BY <2>2
    <3>3. n * Period + before <= cap + x
      BY <1>1, <3>2 DEF KeepsBudget, cap, q, before
    <3>4. (now + 1 - since) * q = x + q /\ x \in Nat
      <4>1. now - since \in Nat /\ now + 1 - since = (now - since) + 1
        BY <3>2
      <4> QED
        BY <1>1, <4>1, Product
    <3>5. n * Period \in Nat
      <4>1. n \in Nat
        BY FS_Subset, FS_CardinalityType DEF Within
      <4> QED
        BY <1>1, <4>1, Product
    <3> HIDE DEF x
    <3>6. n * Period + after <= cap + (x + q)
      <4> DEFINE y == n * Period
      <4>1. y \in Nat /\ y + before <= cap + x
        BY <3>3, <3>5
      <4> HIDE DEF y
      <4>2. y + after <= cap + (x + q)
        BY <1>1, <1>2, <3>4, <4>1
      <4> QED
        BY <4>2 DEF y
    <3> QED
      BY <3>1, <3>4, <3>6
  <2> QED
    BY <2>1, <2>2
<1>4. ASSUME NEW since \in 0..(now + 1), NEW until \in 0..(now + 1), since <= until
      PROVE  Cardinality(Within(S, key, since, until)) * Period <= cap + (until - since) * q
  <2>1. CASE until = now + 1
    <3> DEFINE y == Cardinality(Within(S, key, since, now + 1)) * Period
               x == (now + 1 - since) * q
    <3>1. y + after <= cap + x
      BY <1>3
    <3>2. y \in Nat /\ x \in Nat
      <4>1. Cardinality(Within(S, key, since, now + 1)) \in Nat /\ now + 1 - since \in Nat
        BY FS_Subset, FS_CardinalityType DEF Within
      <4> QED
        BY <1>1, <4>1, Product
    <3> HIDE DEF x, y
    <3>3. y <= cap + x
      BY <1>1, <1>2, <3>1, <3>2
    <3> QED
      BY <2>1, <3>3 DEF x, y
  <2>2. CASE until # now + 1
    <3>1. since \in 0..now /\ until \in 0..now
      BY <1>4, <2>2
    <3> QED
      BY <1>1, <1>4, <3>1 DEF KeepsBudget, cap, q
  <2> QED
    BY <2>1, <2>2
<1> QED
  BY <1>1, <1>3, <1>4 DEF KeepsBudget, cap, q, after

LEMMA NewIsBucket ==
    ASSUME NEW rule, RuleOk(rule), NEW now \in Nat
    PROVE  IsBucket(NewTokenBucket(rule, now), rule, now)
BY CapacityOk DEF NewTokenBucket, IsBucket

LEMMA NewKeepsBudget ==
    ASSUME NEW rule, RuleOk(rule), NEW now \in Nat, NEW S, NEW key, \A g \in S : g.key # key
    PROVE  KeepsBudget(S, key, NewTokenBucket(rule, now), now)
<1> DEFINE b == NewTokenBucket(rule, now)
           cap == Capacity(rule)
<1>1. cap \in Nat /\ Period \in Nat /\ rule.requests \in Nat
  BY CapacityOk DEF RuleOk
<1>2. IsBucket(b, rule, now)
  BY NewIsBucket
<1>3. b.rule = rule /\ Refilled(b, now).tokens \in Nat /\ Refilled(b, now).tokens <= cap
  BY <1>2, RefilledOk DEF IsBucket
<1> HIDE DEF b, cap
<1>4. ASSUME NEW since \in 0..now, NEW until \in 0..now, since <= until
      PROVE  /\ Cardinality(Within(S, key, since, until)) * Period = 0
             /\ (until - since) * rule.requests \in Nat
  <2>1. Within(S, key, since, until) = {}
    BY DEF Within
  <2>2. until - since \in Nat
    BY <1>4
  <2> QED
    BY <1>1, <2>1, <2>2, FS_EmptySet, Product
<1>5. KeepsBudget(S, key, b, now)
  <2>1. \A since, until \in 0..now : since <= until =>
          Cardinality(Within(S, key, since, until)) * Period <= Capacity(b.rule) + (until - since) * b.rule.requests
    BY <1>1, <1>3, <1>4 DEF cap
  <2>2. \A since \in 0..now :
          Cardinality(Within(S, key, since, now)) * Period + Refilled(b, now).tokens
             <= Capacity(b.rule) + (now - since) * b.rule.requests
    BY <1>1, <1>3, <1>4 DEF cap
  <2> QED
    BY <2>1, <2>2 DEF KeepsBudget
<1> QED
  BY <1>5 DEF b

Global == <<"global">>
ClientsOf(S) == {g.key : g \in S} \ {Global}

BudgetTypes ==
    /\ time \in Nat /\ plan \in Plans /\ time <= plan.ticks
    /\ limiter \in [rules : {Rules}, global : {limiter.global}, buckets : {limiter.buckets}, seen : {limiter.seen}]
    /\ DOMAIN limiter.seen = DOMAIN limiter.buckets
    /\ IsBucket(limiter.global, Rules.global, time)
    /\ \A key \in DOMAIN limiter.buckets :
          key # Global /\ RuleOf(key) # NoRule /\ IsBucket(limiter.buckets[key], RuleOf(key), time)
    /\ IsFiniteSet(admitted)
    /\ \A g \in admitted : g.time \in 0..time /\ RuleOf(g.key) # NoRule

(* As long as the table has room for the clients, it has a bucket for each.  *)
BudgetRoom ==
    /\ DOMAIN limiter.buckets \subseteq ClientsOf(admitted)
    /\ Cardinality(ClientsOf(admitted)) <= MaxKeys => DOMAIN limiter.buckets = ClientsOf(admitted)

BudgetKept ==
    /\ KeepsBudget(admitted, Global, limiter.global, time)
    /\ Cardinality(ClientsOf(admitted)) <= MaxKeys =>
          \A key \in DOMAIN limiter.buckets : KeepsBudget(admitted, key, limiter.buckets[key], time)

BudgetInv == BudgetTypes /\ BudgetRoom /\ BudgetKept

LEMMA RulesOk ==
    /\ RuleOk(Rules.global) /\ RuleOk(Rules.perIP)
    /\ \A a \in DOMAIN Rules.perAgent : RuleOk(Rules.perAgent[a]) /\ Rules.perAgent[a] # NoRule
    /\ RuleOf(Global) = Rules.global
    /\ \A ip : <<"ip", ip>> # Global /\ RuleOf(<<"ip", ip>>) = Rules.perIP
    /\ \A a : /\ <<"agent", a>> # Global
              /\ a \in DOMAIN Rules.perAgent => RuleOf(<<"agent", a>>) = Rules.perAgent[a]
    /\ \A key : RuleOf(key) # NoRule => RuleOk(RuleOf(key))
<1>1. RuleOk(Rules.global) /\ RuleOk(Rules.perIP)
  BY RequestsAssumption DEF RuleOk
<1>2. \A a \in DOMAIN Rules.perAgent : RuleOk(Rules.perAgent[a]) /\ Rules.perAgent[a] # NoRule
  BY RequestsAssumption DEF RuleOk, NoRule
<1>3. RuleOf(Global) = Rules.global
  BY DEF RuleOf, Global
<1>4. ASSUME NEW x PROVE <<"ip", x>> # Global /\ <<"agent", x>> # Global
  BY DEF Global
<1>5. ASSUME NEW ip PROVE RuleOf(<<"ip", ip>>) = Rules.perIP
  BY <1>4 DEF RuleOf, Global
<1>6. ASSUME NEW a \in DOMAIN Rules.perAgent PROVE RuleOf(<<"agent", a>>) = Rules.perAgent[a]
  BY <1>4 DEF RuleOf, Global
<1>7. ASSUME NEW key, RuleOf(key) # NoRule PROVE RuleOk(RuleOf(key))
  <2>1. RuleOf(key) \in {Rules.global, Rules.perIP} \/ \E a \in DOMAIN Rules.perAgent : RuleOf(key) = Rules.perAgent[a]
    <3>1. CASE key = <<"global">>
      BY <3>1 DEF RuleOf
    <3>2. CASE key # <<"global">> /\ key[1] = "ip"
      BY <3>2 DEF RuleOf
    <3>3. CASE key # <<"global">> /\ key[1] # "ip"
      BY <1>7, <3>3 DEF RuleOf
    <3> QED
      BY <3>1, <3>2, <3>3
  <2> QED
    BY <1>1, <1>2, <2>1
<1> QED
  BY <1>1, <1>2, <1>3, <1>4, <1>5, <1>6, <1>7

LEMMA ClientsFinite ==
    ASSUME NEW S, IsFiniteSet(S)
    PROVE  IsFiniteSet(ClientsOf(S)) /\ Cardinality(ClientsOf(S)) \in Nat
<1> DEFINE f == [g \in S |-> g.key]
           keys == {g.key : g \in S}
<1>1. f \in Surjection(S, keys)
  BY DEF Surjection
<1>2. IsFiniteSet(keys)
  BY <1>1, FS_Surjection
<1>3. IsFiniteSet(ClientsOf(S))
  BY <1>2, FS_Subset DEF ClientsOf
<1> QED
  BY <1>3, FS_CardinalityType

(* What a request that asks a budget adds to those admitted.                 *)
Grant(r, key) == [key |-> key, time |-> time, req |-> r]

LEMMA GlobalAsked ==
    ASSUME BudgetInv, NEW r,
           limiter' = AllowGlobal(limiter, time).rl, Take(r, Global, AllowGlobal(limiter, time).ok),
           UNCHANGED <<plan, time>>
    PROVE  BudgetInv'
<1> DEFINE a == Allow(limiter.global, time)
<1> USE RulesOk DEF BudgetInv
<1>1. CASE Rules.global = NoRule
  <2>1. limiter' = limiter /\ admitted' = admitted
    BY <1>1 DEF AllowGlobal, BudgetTypes, Take
  <2> QED
    BY <2>1 DEF BudgetTypes, BudgetRoom, BudgetKept, ClientsOf
<1>2. CASE Rules.global # NoRule
  <2> DEFINE new == IF a.ok THEN {Grant(r, Global)} ELSE {}
  <2>1. /\ limiter.rules = Rules /\ IsBucket(limiter.global, Rules.global, time) /\ time \in Nat
        /\ IsFiniteSet(admitted)
    BY DEF BudgetTypes
  <2>2. limiter' = [limiter EXCEPT !.global = a.bucket] /\ admitted' = admitted \cup new
    BY <1>2, <2>1 DEF AllowGlobal, Take, Grant
  <2>3. a.ok \in BOOLEAN /\ IsBucket(a.bucket, Rules.global, time)
    BY <2>1, AllowOk
  <2>4. KeepsBudget(admitted \cup new, Global, a.bucket, time)
    <3>1. Grant(r, Global).key = Global /\ Grant(r, Global).time = time
      BY DEF Grant
    <3> QED
      BY <2>1, <3>1, AskedKeepsBudget DEF BudgetKept
  <2>5. /\ limiter'.global = a.bucket /\ limiter'.buckets = limiter.buckets /\ limiter'.seen = limiter.seen
        /\ limiter' \in [rules : {Rules}, global : {limiter'.global}, buckets : {limiter'.buckets}, seen : {limiter'.seen}]
    <3> HIDE DEF a, new
    <3> QED
      BY <2>2 DEF BudgetTypes
  <2>6. \A g \in new : g.time = time /\ g.key = Global
    BY DEF Grant
  <2>7. ClientsOf(admitted \cup new) = ClientsOf(admitted)
    <3> HIDE DEF new
    <3> QED
      BY <2>6 DEF ClientsOf
  <2>8. IsFiniteSet(admitted \cup new)
    <3>1. new = {} \/ new = {Grant(r, Global)}
      OBVIOUS
    <3> HIDE DEF new
    <3> QED
      BY <2>1, <3>1, FS_AddElement
  <2>9. ASSUME NEW key \in DOMAIN limiter.buckets, KeepsBudget(admitted, key, limiter.buckets[key], time)
        PROVE  KeepsBudget(admitted \cup new, key, limiter.buckets[key], time)
    <3>1. new = {} \/ \E g : g.key # key /\ new = {g}
      <4>1. key # Global
        BY DEF BudgetTypes
      <4> QED
        BY <4>1 DEF Grant
    <3> HIDE DEF new
    <3> QED
      BY <2>1, <2>9, <3>1, OthersKeepBudget
  <2> HIDE DEF a, new
  <2>10. BudgetTypes'
    BY <1>2, <2>2, <2>3, <2>5, <2>6, <2>8 DEF BudgetTypes
  <2>11. BudgetRoom'
    BY <2>2, <2>5, <2>7 DEF BudgetRoom
  <2>12. BudgetKept'
    BY <2>2, <2>4, <2>5, <2>7, <2>9 DEF BudgetKept
  <2> QED
    BY <2>10, <2>11, <2>12
<1> QED
  BY <1>1, <1>2

LEMMA ClientAsked ==
    ASSUME BudgetInv, NEW r, NEW key, key # Global, RuleOf(key) # NoRule,
           NEW a \in AllowKeyed(limiter, key, RuleOf(key), time),
           limiter' = a.rl, Take(r, key, a.ok), UNCHANGED <<plan, time>>
    PROVE  BudgetInv'
<1> DEFINE rule == RuleOf(key)
           b == IF key \in DOMAIN limiter.buckets THEN limiter.buckets[key] ELSE NewTokenBucket(rule, time)
           c == Allow(b, time)
           keys == DOMAIN limiter.buckets \cup {key}
           buckets == [k \in keys |-> IF k = key THEN c.bucket ELSE limiter.buckets[k]]
           seen == [k \in keys |-> IF k = key THEN time ELSE limiter.seen[k]]
           new == IF c.ok THEN {Grant(r, key)} ELSE {}
           S == admitted \cup new
<1>1. /\ limiter.rules = Rules /\ time \in Nat /\ IsFiniteSet(admitted) /\ RuleOk(rule)
      /\ \A g \in admitted : g.time \in 0..time
      /\ \A k \in DOMAIN limiter.buckets : k # Global /\ RuleOf(k) # NoRule /\ IsBucket(limiter.buckets[k], RuleOf(k), time)
  BY RulesOk DEF BudgetInv, BudgetTypes
<1>2. IsBucket(b, rule, time)
  <2>1. CASE key \in DOMAIN limiter.buckets
    BY <1>1, <2>1
  <2>2. CASE key \notin DOMAIN limiter.buckets
    BY <1>1, <2>2, NewIsBucket
  <2> QED
    BY <2>1, <2>2
<1>3. PICK kept \in Kept(seen, time) :
         a = [ok |-> c.ok, rl |-> [limiter EXCEPT !.buckets = Restrict(buckets, kept), !.seen = Restrict(seen, kept)]]
  BY DEF AllowKeyed
<1>4. kept \subseteq keys /\ (Cardinality(keys) <= MaxKeys => kept = keys)
  BY DEF Kept
<1>5. c.ok \in BOOLEAN /\ IsBucket(c.bucket, rule, time)
  BY <1>1, <1>2, AllowOk
<1>6. admitted' = S
  BY <1>3 DEF Take, Grant
<1>7. IsFiniteSet(S)
  <2>1. new = {} \/ new = {Grant(r, key)}
    OBVIOUS
  <2> HIDE DEF new
  <2> QED
    BY <1>1, <2>1, FS_AddElement
<1>8. \A g \in new : g.time = time /\ g.key = key
  BY DEF Grant
<1>9. /\ limiter'.buckets = Restrict(buckets, kept) /\ limiter'.seen = Restrict(seen, kept) /\ limiter'.global = limiter.global
      /\ limiter' \in [rules : {Rules}, global : {limiter'.global}, buckets : {limiter'.buckets}, seen : {limiter'.seen}]
  <2> HIDE DEF buckets, seen
  <2>1. limiter' = [limiter EXCEPT !.buckets = Restrict(buckets, kept), !.seen = Restrict(seen, kept)]
    BY <1>3
  <2> QED
    BY <2>1 DEF BudgetInv, BudgetTypes
<1>10. /\ DOMAIN limiter'.buckets = kept /\ DOMAIN limiter'.seen = kept
       /\ \A k \in kept : limiter'.buckets[k] = IF k = key THEN c.bucket ELSE limiter.buckets[k]
  BY <1>4, <1>9 DEF Restrict
<1> HIDE DEF c, new, buckets, seen
(* A new bucket grants its first request, so that every key that has one     *)
(* was admitted.                                                             *)
<1>11. key \in ClientsOf(S) /\ ClientsOf(S) = ClientsOf(admitted) \cup {key}
  <2>1. c.ok => Grant(r, key) \in S /\ Grant(r, key).key = key
    BY DEF new, Grant
  <2>2. CASE key \in DOMAIN limiter.buckets
    BY <1>8, <2>2 DEF ClientsOf, BudgetInv, BudgetRoom
  <2>3. CASE key \notin DOMAIN limiter.buckets
    <3>1. b.tokens = Capacity(rule) /\ b.last = time
      BY <2>3 DEF NewTokenBucket
    <3>2. Refilled(b, time).tokens = Capacity(rule)
      BY <1>1, <1>2, <3>1, RefilledOnce
    <3>3. Refilled(b, time).tokens >= Period
      BY <1>1, <3>2, CapacityOk
    <3>4. c.ok
      BY <3>3 DEF Allow, c
    <3> QED
      BY <1>8, <2>1, <3>4 DEF ClientsOf
  <2> QED
    BY <2>2, <2>3
<1>12. Cardinality(ClientsOf(S)) <= MaxKeys =>
          /\ Cardinality(ClientsOf(admitted)) <= MaxKeys
          /\ kept = keys /\ keys = ClientsOf(S)
  <2> SUFFICES ASSUME Cardinality(ClientsOf(S)) <= MaxKeys
               PROVE  /\ Cardinality(ClientsOf(admitted)) <= MaxKeys
                      /\ kept = keys /\ keys = ClientsOf(S)
    OBVIOUS
  <2>1. Cardinality(ClientsOf(admitted)) <= Cardinality(ClientsOf(S))
    BY <1>7, <1>11, ClientsFinite, FS_Subset
  <2>2. Cardinality(ClientsOf(admitted)) <= MaxKeys
    BY <1>1, <1>7, <2>1, ClientsFinite, RequestsAssumption
  <2>3. keys = ClientsOf(S)
    BY <1>11, <2>2 DEF BudgetInv, BudgetRoom
  <2> QED
    BY <1>4, <2>2, <2>3
<1>13. BudgetTypes'
  <2>1. \A k \in kept : k # Global /\ RuleOf(k) # NoRule /\ IsBucket(limiter'.buckets[k], RuleOf(k), time)
    BY <1>1, <1>4, <1>5, <1>10
  <2>2. \A g \in S : g.time \in 0..time /\ RuleOf(g.key) # NoRule
    BY <1>1, <1>8 DEF BudgetInv, BudgetTypes
  <2> HIDE DEF S
  <2> QED
    BY <1>6, <1>7, <1>9, <1>10, <2>1, <2>2 DEF BudgetInv, BudgetTypes
<1>14. BudgetRoom'
  <2>1. kept \subseteq ClientsOf(S)
    BY <1>4, <1>11 DEF BudgetInv, BudgetRoom
  <2> HIDE DEF S, keys
  <2> QED
    BY <1>6, <1>10, <1>12, <2>1 DEF BudgetRoom
<1>15. BudgetKept'
  <2>1. KeepsBudget(S, Global, limiter.global, time)
    <3>1. new = {} \/ \E g : g.key # Global /\ new = {g}
      BY DEF new, Grant
    <3> QED
      BY <1>1, <3>1, OthersKeepBudget DEF BudgetInv, BudgetKept
  <2>2. ASSUME Cardinality(ClientsOf(S)) <= MaxKeys, NEW k \in kept
        PROVE  KeepsBudget(S, k, limiter'.buckets[k], time)
    <3>1. Cardinality(ClientsOf(admitted)) <= MaxKeys /\ DOMAIN limiter.buckets = ClientsOf(admitted)
      BY <1>12, <2>2 DEF BudgetInv, BudgetRoom
    <3>2. CASE k # key
      <4>1. KeepsBudget(admitted, k, limiter.buckets[k], time)
        BY <1>4, <3>1, <3>2 DEF BudgetInv, BudgetKept
      <4>2. new = {} \/ \E g : g.key # k /\ new = {g}
        BY <3>2 DEF new, Grant
      <4> QED
        BY <1>1, <1>10, <3>2, <4>1, <4>2, OthersKeepBudget
    <3>3. CASE k = key
      <4>1. KeepsBudget(admitted, key, b, time)
        <5>1. CASE key \in DOMAIN limiter.buckets
          BY <3>1, <5>1 DEF BudgetInv, BudgetKept
        <5>2. CASE key \notin DOMAIN limiter.buckets
          <6>1. \A g \in admitted : g.key # key
            BY <3>1, <5>2 DEF ClientsOf
          <6>2. KeepsBudget(admitted, key, NewTokenBucket(rule, time), time)
            BY <1>1, <6>1, NewKeepsBudget
          <6> QED
            BY <5>2, <6>2
        <5> QED
          BY <5>1, <5>2
      <4>2. KeepsBudget(S, key, c.bucket, time)
        <5>1. Grant(r, key).key = key /\ Grant(r, key).time = time
          BY DEF Grant
        <5> HIDE DEF b
        <5> QED
          BY <1>1, <1>2, <4>1, <5>1, AskedKeepsBudget DEF c, new
      <4> QED
        BY <1>10, <3>3, <4>2
    <3> QED
      BY <3>2, <3>3
  <2> HIDE DEF S
  <2> QED
    BY <1>6, <1>9, <1>10, <2>1, <2>2 DEF BudgetKept
<1> QED
  BY <1>13, <1>14, <1>15 DEF BudgetInv

LEMMA TimePasses == BudgetInv /\ Pass => BudgetInv'
<1> SUFFICES ASSUME BudgetInv, Pass PROVE BudgetInv'
  OBVIOUS
<1>1. /\ time \in Nat /\ time' = time + 1 /\ time' <= plan.ticks /\ plan.ticks \in Nat
      /\ limiter' = limiter /\ admitted' = admitted /\ plan' = plan
  BY RequestsAssumption DEF Pass, BudgetInv, BudgetTypes
<1>2. \A b, rule : IsBucket(b, rule, time) => IsBucket(b, rule, time + 1)
  BY <1>1 DEF IsBucket
<1>3. IsFiniteSet(admitted) /\ \A g \in admitted : g.time \in 0..time
  BY DEF BudgetInv, BudgetTypes
<1>4. BudgetTypes'
  <2>1. \A g \in admitted : g.time \in 0..(time + 1)
    BY <1>1, <1>3
  <2> QED
    BY <1>1, <1>2, <2>1 DEF BudgetInv, BudgetTypes
<1>5. BudgetRoom'
  BY <1>1 DEF BudgetInv, BudgetRoom
<1>6. KeepsBudget(admitted, Global, limiter.global, time + 1)
  BY <1>1, <1>3, RulesOk, TimeKeepsBudget DEF BudgetInv, BudgetTypes, BudgetKept
<1>7. ASSUME Cardinality(ClientsOf(admitted)) <= MaxKeys, NEW key \in DOMAIN limiter.buckets
      PROVE  KeepsBudget(admitted, key, limiter.buckets[key], time + 1)
  <2>1. RuleOk(RuleOf(key)) /\ IsBucket(limiter.buckets[key], RuleOf(key), time)
    BY RulesOk DEF BudgetInv, BudgetTypes
  <2>2. KeepsBudget(admitted, key, limiter.buckets[key], time)
    BY <1>7 DEF BudgetInv, BudgetKept
  <2> QED
    BY <1>1, <1>3, <2>1, <2>2, TimeKeepsBudget
<1>8. BudgetKept'
  BY <1>1, <1>6, <1>7 DEF BudgetKept
<1> QED
  BY <1>4, <1>5, <1>8 DEF BudgetInv

LEMMA BudgetUntouched == BudgetInv /\ UNCHANGED <<plan, time, limiter, admitted>> => BudgetInv'
BY DEF BudgetInv, BudgetTypes, BudgetRoom, BudgetKept, ClientsOf

LEMMA BudgetStep == BudgetInv /\ [RequestsNext]_requestsVars => BudgetInv'
<1> SUFFICES ASSUME BudgetInv, [RequestsNext]_requestsVars PROVE BudgetInv'
  OBVIOUS
<1>1. limiter.rules = Rules
  BY DEF BudgetInv, BudgetTypes
<1>2. ASSUME NEW r, NEW ip, NEW route, Arrive(r, ip, route) PROVE BudgetInv'
  BY <1>2, GlobalAsked DEF Arrive, Global
<1>3. ASSUME NEW r, TakeIP(r) PROVE BudgetInv'
  <2>1. PICK a \in AllowIP(limiter, req[r].ip, time) :
           limiter' = a.rl /\ Take(r, <<"ip", req[r].ip>>, a.ok)
    BY <1>3 DEF TakeIP
  <2>2. UNCHANGED <<plan, time>>
    BY <1>3 DEF TakeIP
  <2>3. CASE Rules.perIP = NoRule
    <3>1. a.rl = limiter /\ admitted' = admitted
      BY <1>1, <2>1, <2>3, RulesOk DEF AllowIP, Take
    <3> QED
      BY <2>1, <2>2, <3>1, BudgetUntouched
  <2>4. CASE Rules.perIP # NoRule
    <3>1. a \in AllowKeyed(limiter, <<"ip", req[r].ip>>, RuleOf(<<"ip", req[r].ip>>), time)
      BY <1>1, <2>1, <2>4, RulesOk DEF AllowIP
    <3>2. <<"ip", req[r].ip>> # Global /\ RuleOf(<<"ip", req[r].ip>>) # NoRule
      BY <2>4, RulesOk
    <3> QED
      BY <2>1, <2>2, <3>1, <3>2, ClientAsked
  <2> QED
    BY <2>3, <2>4
<1>4. ASSUME NEW r, TakeAgent(r) PROVE BudgetInv'
  <2> DEFINE agent == RouteOf(r).agent
  <2>1. PICK a \in AllowAgent(limiter, agent, time) :
           limiter' = a.rl /\ Take(r, <<"agent", agent>>, a.ok)
    BY <1>4 DEF TakeAgent
  <2>2. UNCHANGED <<plan, time>>
    BY <1>4 DEF TakeAgent
  <2> HIDE DEF agent
  <2>3. CASE agent \notin DOMAIN Rules.perAgent
    <3>1. RuleOf(<<"agent", agent>>) = NoRule
      BY <2>3 DEF RuleOf
    <3>2. a.rl = limiter /\ admitted' = admitted
      BY <1>1, <2>1, <2>3, <3>1 DEF AllowAgent, Take
    <3> QED
      BY <2>1, <2>2, <3>2, BudgetUntouched
  <2>4. CASE agent \in DOMAIN Rules.perAgent
    <3>1. a \in AllowKeyed(limiter, <<"agent", agent>>, RuleOf(<<"agent", agent>>), time)
      BY <1>1, <2>1, <2>4, RulesOk DEF AllowAgent
    <3>2. <<"agent", agent>> # Global /\ RuleOf(<<"agent", agent>>) # NoRule
      BY <2>4, RulesOk
    <3> QED
      BY <2>1, <2>2, <3>1, <3>2, ClientAsked
  <2> QED
    BY <2>3, <2>4
<1>5. ASSUME NEW r, Manage(r) \/ (\E ip \in IPs, route \in plan.routes : ArriveSkipping(r, ip, route)) \/ RecordMissing(r) \/ UpdateRoutingMetrics(r) \/ RecordFailedRoute(r)
             \/ (\E outcome \in plan.outcomes : Execute(r, outcome)) \/ Record(r) \/ UpdateAgent(r) \/ CountTotal(r)
      PROVE  BudgetInv'
  <2>1. UNCHANGED <<plan, time, limiter, admitted>>
    BY <1>5 DEF Manage, ArriveSkipping, RecordMissing, UpdateRoutingMetrics, RecordFailedRoute, Execute, Record, UpdateAgent, CountTotal
  <2> QED
    BY <2>1, BudgetUntouched
<1>6. CASE RestartStep
  <2>1. UNCHANGED <<plan, time, limiter, admitted>>
    BY <1>6 DEF RestartStep, RestartBegins, RestartFails
  <2> QED
    BY <2>1, BudgetUntouched
<1>7. CASE UNCHANGED requestsVars
  BY <1>7, BudgetUntouched DEF requestsVars
<1> QED
  BY <1>2, <1>3, <1>4, <1>5, <1>6, <1>7, TimePasses DEF RequestsNext, Step

LEMMA BudgetBegins == RequestsInit => BudgetInv
<1> SUFFICES ASSUME RequestsInit PROVE BudgetInv
  OBVIOUS
<1>1. /\ time = 0 /\ plan \in Plans /\ plan.ticks \in Nat /\ admitted = {}
      /\ limiter = [rules |-> Rules, global |-> NewTokenBucket(Rules.global, 0), buckets |-> <<>>, seen |-> <<>>]
  BY RequestsAssumption DEF RequestsInit, NewRateLimiter
<1>2. /\ IsBucket(limiter.global, Rules.global, time) /\ KeepsBudget(admitted, Global, limiter.global, time)
  BY <1>1, RulesOk, NewIsBucket, NewKeepsBudget
<1>3. DOMAIN limiter.buckets = {} /\ DOMAIN limiter.seen = {}
  BY <1>1
<1>4. IsFiniteSet(admitted)
  BY <1>1, FS_EmptySet
<1>5. BudgetTypes
  BY <1>1, <1>2, <1>3, <1>4 DEF BudgetTypes
<1>6. BudgetRoom
  BY <1>1, <1>3 DEF BudgetRoom, ClientsOf
<1>7. BudgetKept
  BY <1>2, <1>3 DEF BudgetKept
<1> QED
  BY <1>5, <1>6, <1>7 DEF BudgetInv

(* Any rules, any number of clients and requests in any order: no key gets   *)
(* more than its bucket holds and its rate adds in any window of time.       *)
THEOREM BudgetsAreKept == RequestsSpec => []BudgetsHold
<1>1. BudgetInv => BudgetsHold
  <2> SUFFICES ASSUME BudgetInv PROVE BudgetsHold
    OBVIOUS
  <2>1. SUFFICES ASSUME NEW key \in {g.key : g \in admitted}, NEW since \in 0..plan.ticks, NEW until \in 0..plan.ticks,
                        since <= until, key = <<"global">> \/ Cardinality(ClientsOf(admitted)) <= MaxKeys
                 PROVE  Cardinality(Within(admitted, key, since, until)) * Period
                          <= Capacity(RuleOf(key)) + (until - since) * RuleOf(key).requests
    BY DEF BudgetsHold, Within, ClientsOf, Global
  <2> DEFINE b == IF key = Global THEN limiter.global ELSE limiter.buckets[key]
  <2>2. KeepsBudget(admitted, key, b, time) /\ b.rule = RuleOf(key) /\ RuleOk(RuleOf(key))
    <3>1. CASE key = Global
      BY <3>1, RulesOk DEF BudgetInv, BudgetTypes, BudgetKept, IsBucket
    <3>2. CASE key # Global
      <4>1. key \in DOMAIN limiter.buckets /\ Cardinality(ClientsOf(admitted)) <= MaxKeys
        BY <2>1, <3>2 DEF BudgetInv, BudgetRoom, ClientsOf, Global
      <4> QED
        BY <3>2, <4>1, RulesOk DEF BudgetInv, BudgetTypes, BudgetKept, IsBucket
    <3> QED
      BY <3>1, <3>2
  <2> HIDE DEF b
  <2> DEFINE rule == RuleOf(key)
             n(u) == Cardinality(Within(admitted, key, since, u)) * Period
  <2>3. /\ time \in Nat /\ IsFiniteSet(admitted) /\ \A g \in admitted : g.time \in 0..time
        /\ rule.requests \in Nat /\ Capacity(rule) \in Nat /\ Period \in Nat /\ plan.ticks \in Nat
    BY <2>2, CapacityOk, RequestsAssumption DEF BudgetInv, BudgetTypes, RuleOk
  <2>4. CASE until <= time
    BY <2>1, <2>2, <2>3, <2>4 DEF KeepsBudget
  <2>5. CASE time < until /\ since <= time
    <3>1. n(time) <= Capacity(rule) + (time - since) * rule.requests
      BY <2>2, <2>3, <2>5 DEF KeepsBudget
    <3>2. Within(admitted, key, since, until) = Within(admitted, key, since, time)
      BY <2>3, <2>5 DEF Within
    <3>3. (time - since) * rule.requests <= (until - since) * rule.requests
            /\ (time - since) * rule.requests \in Nat /\ (until - since) * rule.requests \in Nat
      <4>1. PICK m \in Nat : m = time - since
        BY <2>3, <2>5
      <4>2. PICK k \in Nat : k = until - since
        BY <2>1, <2>3
      <4>3. m <= k
        BY <2>3, <2>5, <4>1, <4>2
      <4>4. m * rule.requests <= k * rule.requests /\ m * rule.requests \in Nat /\ k * rule.requests \in Nat
        BY <2>3, <4>3
      <4> QED
        BY <4>1, <4>2, <4>4
    <3>4. n(time) \in Nat
      <4>1. Cardinality(Within(admitted, key, since, time)) \in Nat
        BY <2>3, FS_Subset, FS_CardinalityType DEF Within
      <4> QED
        BY <2>3, <4>1, Product
    <3> DEFINE x == (time - since) * rule.requests
               y == (until - since) * rule.requests
    <3>5. n(until) = n(time)
      BY <3>2
    <3> HIDE DEF n, x, y
    <3>6. n(until) <= Capacity(rule) + y
      BY <2>3, <3>1, <3>3, <3>4, <3>5 DEF x, y
    <3> QED
      BY <3>6 DEF n, y
  <2>6. CASE time < since
    <3>1. Within(admitted, key, since, until) = {}
      BY <2>3, <2>6 DEF Within
    <3>2. n(until) = 0
      BY <2>3, <3>1, FS_EmptySet, Product
    <3>3. (until - since) * rule.requests \in Nat
      <4>1. until - since \in Nat
        BY <2>1, <2>3
      <4> QED
        BY <2>3, <4>1, Product
    <3> QED
      BY <2>3, <3>2, <3>3
  <2> QED
    BY <2>3, <2>4, <2>5, <2>6
<1> QED
  BY BudgetBegins, BudgetStep, <1>1, PTL DEF RequestsSpec

------------------------------------------------------------------------------
(* Sockets: who is registered under which name, and who came after the sweep.*)
SocketInv ==
    /\ DOMAIN socket = Sockets
    /\ \A s \in Sockets :
          /\ {"at", "live", "cancelled"} \subseteq DOMAIN socket[s]
          /\ socket[s].at \in {"unused", "upgraded", "reading", "waiting"}
          /\ socket[s].at = "unused" => socket[s] = Unused
          /\ socket[s].at # "unused" => "id" \in DOMAIN socket[s]
    /\ \A id \in DOMAIN wsConnections : wsConnections[id] \subseteq Sockets
    /\ SocketsAreTracked
    /\ server = "serving" => late = {}
    /\ server # "serving" => \A s \in Sockets : socket[s].live => s \in late \/ socket[s].at = "upgraded"

LEMMA SocketUpdated ==
    ASSUME DOMAIN socket = Sockets, NEW s \in Sockets, NEW r, socket' = [socket EXCEPT ![s] = r]
    PROVE  DOMAIN socket' = Sockets /\ socket'[s] = r /\ \A t \in Sockets : t # s => socket'[t] = socket[t]
OBVIOUS

LEMMA SocketsKept == SocketInv /\ [ControlNext]_controlVars => SocketInv'
<1> SUFFICES ASSUME SocketInv, [ControlNext]_controlVars PROVE SocketInv'
  OBVIOUS
<1>0. DOMAIN socket = Sockets
  BY DEF SocketInv
<1>1. ASSUME UNCHANGED connections PROVE SocketInv'
  BY <1>1 DEF SocketInv, connections, SocketsAreTracked, Tracked
<1>2. ASSUME NEW s \in Sockets, Upgrade(s) PROVE SocketInv'
  <2>1. PICK id, kind :
           socket' = [socket EXCEPT ![s] = [at |-> "upgraded", kind |-> kind, id |-> id, live |-> TRUE, cancelled |-> FALSE]]
    BY <1>2 DEF Upgrade
  <2> DEFINE r == [at |-> "upgraded", kind |-> kind, id |-> id, live |-> TRUE, cancelled |-> FALSE]
  <2>2. r.at = "upgraded" /\ {"at", "live", "cancelled", "id"} \subseteq DOMAIN r
    OBVIOUS
  <2>3. socket' = [socket EXCEPT ![s] = r]
    BY <2>1
  <2> HIDE DEF r
  <2>4. DOMAIN socket' = Sockets /\ socket'[s] = r /\ \A t \in Sockets : t # s => socket'[t] = socket[t]
    BY <1>0, <2>3, SocketUpdated
  <2>5. socket[s].at = "unused" /\ UNCHANGED <<wsConnections, server, late>>
    BY <1>2 DEF Upgrade
  <2>6. \A id2 \in DOMAIN wsConnections : s \notin wsConnections[id2]
    BY <2>5 DEF SocketInv, SocketsAreTracked
  <2>7. SocketsAreTracked'
    <3>1. \A i \in DOMAIN wsConnections' : wsConnections'[i] # {} /\ \A t \in wsConnections'[i] :
              socket'[t].at \in {"reading", "waiting"} /\ socket'[t].id = i
      BY <2>4, <2>5, <2>6 DEF SocketInv, SocketsAreTracked
    <3>2. \A t \in Sockets : socket'[t].at \in {"reading", "waiting"} /\ (server' = "serving" \/ t \in late') => t \in Tracked'
      BY <2>2, <2>4, <2>5 DEF SocketInv, SocketsAreTracked, Tracked
    <3> QED
      BY <3>1, <3>2 DEF SocketsAreTracked
  <2> QED
    BY <2>2, <2>4, <2>5, <2>7 DEF SocketInv
<1>3. ASSUME NEW s \in Sockets, RegisterWSConn(s) PROVE SocketInv'
  <2> DEFINE id == socket[s].id
             r == [socket[s] EXCEPT !.at = "reading"]
             listed == IF id \in DOMAIN wsConnections THEN wsConnections[id] ELSE {}
  <2>1. /\ socket[s].at = "upgraded" /\ wsConnections' = With(wsConnections, id, {s} \union listed)
        /\ late' = (IF server = "serving" THEN late ELSE late \union {s}) /\ server' = server
    BY <1>3 DEF RegisterWSConn
  <2>2. socket' = [socket EXCEPT ![s] = r]
    BY <1>3 DEF RegisterWSConn
  <2>3. {"at", "live", "cancelled", "id"} \subseteq DOMAIN r /\ r.at = "reading" /\ r.id = id
    BY <2>1 DEF SocketInv
  <2> HIDE DEF r
  <2>4. DOMAIN socket' = Sockets /\ socket'[s] = r /\ \A t \in Sockets : t # s => socket'[t] = socket[t]
    BY <1>0, <2>2, SocketUpdated
  <2>5. /\ DOMAIN wsConnections' = DOMAIN wsConnections \cup {id} /\ wsConnections'[id] = {s} \union listed
        /\ \A i \in DOMAIN wsConnections : i # id => wsConnections'[i] = wsConnections[i]
    <3> DEFINE all == {s} \union listed
    <3>1. wsConnections' = With(wsConnections, id, all)
      BY <2>1
    <3> HIDE DEF all, id
    <3>2. /\ DOMAIN wsConnections' = DOMAIN wsConnections \cup {id} /\ wsConnections'[id] = all
          /\ \A i \in DOMAIN wsConnections : i # id => wsConnections'[i] = wsConnections[i]
      BY <3>1 DEF With
    <3> QED
      BY <3>2 DEF all
  <2>6. \A i \in DOMAIN wsConnections : s \notin wsConnections[i]
    BY <2>1 DEF SocketInv, SocketsAreTracked
  <2>7. listed \subseteq Sockets /\ \A t \in listed : socket[t].at \in {"reading", "waiting"} /\ socket[t].id = id
    BY DEF SocketInv, SocketsAreTracked
  <2>8. \A i \in DOMAIN wsConnections' : wsConnections'[i] \subseteq Sockets
    BY <2>5, <2>7 DEF SocketInv
  <2>9. SocketsAreTracked'
    <3>1. \A i \in DOMAIN wsConnections' : wsConnections'[i] # {} /\ \A t \in wsConnections'[i] :
              socket'[t].at \in {"reading", "waiting"} /\ socket'[t].id = i
      <4> SUFFICES ASSUME NEW i \in DOMAIN wsConnections'
                   PROVE  wsConnections'[i] # {} /\ \A t \in wsConnections'[i] :
                              socket'[t].at \in {"reading", "waiting"} /\ socket'[t].id = i
        OBVIOUS
      <4>1. CASE i = id
        <5> HIDE DEF listed, id
        <5> QED
          BY <2>3, <2>4, <2>5, <2>6, <2>7, <4>1 DEF SocketInv
      <4>2. CASE i # id
        <5>1. i \in DOMAIN wsConnections /\ wsConnections'[i] = wsConnections[i]
          BY <2>5, <4>2
        <5>2. \A t \in wsConnections[i] : socket'[t] = socket[t]
          BY <2>4, <2>6, <5>1 DEF SocketInv
        <5> QED
          BY <5>1, <5>2 DEF SocketInv, SocketsAreTracked
      <4> QED
        BY <4>1, <4>2
    <3>2. \A t \in Sockets : socket'[t].at \in {"reading", "waiting"} /\ (server' = "serving" \/ t \in late') => t \in Tracked'
      <4>1. s \in Tracked'
        BY <2>5 DEF Tracked
      <4>2. \A t \in Tracked : t \in Tracked'
        <5> SUFFICES ASSUME NEW i \in DOMAIN wsConnections, NEW t \in wsConnections[i] PROVE t \in Tracked'
          BY DEF Tracked
        <5>1. i \in DOMAIN wsConnections' /\ t \in wsConnections'[i]
          BY <2>5
        <5> QED
          BY <5>1 DEF Tracked
      <4> QED
        BY <2>1, <2>4, <4>1, <4>2 DEF SocketInv, SocketsAreTracked
    <3> QED
      BY <3>1, <3>2 DEF SocketsAreTracked
  <2> HIDE DEF id, listed
  <2>10. \A t \in Sockets :
           /\ {"at", "live", "cancelled"} \subseteq DOMAIN socket'[t]
           /\ socket'[t].at \in {"unused", "upgraded", "reading", "waiting"}
           /\ socket'[t].at = "unused" => socket'[t] = Unused
           /\ socket'[t].at # "unused" => "id" \in DOMAIN socket'[t]
    BY <2>3, <2>4 DEF SocketInv
  <2>11. server' # "serving" => \A t \in Sockets : socket'[t].live => t \in late' \/ socket'[t].at = "upgraded"
    BY <2>1, <2>4 DEF SocketInv
  <2>12. server' = "serving" => late' = {}
    BY <2>1 DEF SocketInv
  <2> QED
    BY <2>4, <2>8, <2>9, <2>10, <2>11, <2>12 DEF SocketInv
<1>4. ASSUME NEW s \in Sockets, SocketBreaks(s) \/ ReadFails(s) PROVE SocketInv'
  <2> DEFINE r == socket'[s]
  <2>1. /\ DOMAIN socket' = Sockets /\ \A t \in Sockets : t # s => socket'[t] = socket[t]
        /\ UNCHANGED <<wsConnections, server, late>>
    BY <1>0, <1>4 DEF SocketBreaks, ReadFails
  <2>2. /\ DOMAIN r = DOMAIN socket[s] /\ r.at # "unused" /\ socket[s].at # "unused" /\ r.id = socket[s].id
        /\ (r.at = socket[s].at /\ ~r.live) \/ (r.at = "waiting" /\ socket[s].at = "reading" /\ ~r.live)
    <3>1. CASE SocketBreaks(s)
      <4>1. socket[s].live /\ r = [socket[s] EXCEPT !.live = FALSE]
        BY <1>0, <3>1 DEF SocketBreaks
      <4>2. socket[s].at # "unused"
        BY <4>1 DEF SocketInv, Unused
      <4> HIDE DEF r
      <4> QED
        BY <4>1, <4>2 DEF SocketInv
    <3>2. CASE ReadFails(s)
      <4>1. socket[s].at = "reading" /\ ~socket[s].live /\ r = [socket[s] EXCEPT !.at = "waiting", !.cancelled = CancelsRuns(s)]
        BY <1>0, <3>2 DEF ReadFails
      <4> HIDE DEF r
      <4> QED
        BY <4>1 DEF SocketInv
    <3> QED
      BY <1>4, <3>1, <3>2
  <2> HIDE DEF r
  <2>3. socket'[s] = r
    BY DEF r
  <2>4. SocketsAreTracked'
    <3>1. \A i \in DOMAIN wsConnections' : wsConnections'[i] # {} /\ \A t \in wsConnections'[i] :
              socket'[t].at \in {"reading", "waiting"} /\ socket'[t].id = i
      BY <2>1, <2>2, <2>3 DEF SocketInv, SocketsAreTracked
    <3>2. \A t \in Sockets : socket'[t].at \in {"reading", "waiting"} /\ (server' = "serving" \/ t \in late') => t \in Tracked'
      BY <2>1, <2>2, <2>3 DEF SocketInv, SocketsAreTracked, Tracked
    <3> QED
      BY <3>1, <3>2 DEF SocketsAreTracked
  <2> QED
    BY <2>1, <2>2, <2>3, <2>4 DEF SocketInv
<1>5. ASSUME NEW s \in Sockets, UnregisterWSConn(s) PROVE SocketInv'
  <2> DEFINE id == socket[s].id
  <2>1. /\ socket[s].at = "waiting" /\ socket' = [socket EXCEPT ![s] = Unused] /\ server' = server /\ late' = late \ {s}
        /\ wsConnections' = IF id \notin DOMAIN wsConnections THEN wsConnections
                            ELSE IF Others(id, s) = {} THEN Without(wsConnections, id)
                            ELSE [wsConnections EXCEPT ![id] = Others(id, s)]
    BY <1>5 DEF UnregisterWSConn
  <2>2. DOMAIN socket' = Sockets /\ socket'[s] = Unused /\ \A t \in Sockets : t # s => socket'[t] = socket[t]
    BY <1>0, <2>1, SocketUpdated
  <2>3. Unused.at = "unused" /\ ~Unused.live /\ DOMAIN Unused = {"at", "live", "cancelled"}
    BY DEF Unused
  <2>4. \A i \in DOMAIN wsConnections : i # id => s \notin wsConnections[i]
    BY DEF SocketInv, SocketsAreTracked
  <2> HIDE DEF id
  <2>5. \A i \in DOMAIN wsConnections' : /\ i \in DOMAIN wsConnections /\ wsConnections'[i] # {}
                                         /\ wsConnections'[i] = wsConnections[i] \ {s}
    <3> SUFFICES ASSUME NEW i \in DOMAIN wsConnections'
                 PROVE  /\ i \in DOMAIN wsConnections /\ wsConnections'[i] # {}
                        /\ wsConnections'[i] = wsConnections[i] \ {s}
      OBVIOUS
    <3>1. CASE id \notin DOMAIN wsConnections
      BY <2>1, <2>4, <3>1 DEF SocketInv, SocketsAreTracked
    <3>2. CASE id \in DOMAIN wsConnections /\ Others(id, s) = {}
      BY <2>1, <2>4, <3>2 DEF SocketInv, SocketsAreTracked, Without
    <3>3. CASE id \in DOMAIN wsConnections /\ Others(id, s) # {}
      BY <2>1, <2>4, <3>3 DEF SocketInv, SocketsAreTracked, Others
    <3> QED
      BY <3>1, <3>2, <3>3
  <2>6. \A i \in DOMAIN wsConnections : wsConnections[i] \ {s} # {} => i \in DOMAIN wsConnections'
    BY <2>1 DEF Others, Without
  <2>7. SocketsAreTracked'
    <3>1. \A i \in DOMAIN wsConnections' : wsConnections'[i] # {} /\ \A t \in wsConnections'[i] :
              socket'[t].at \in {"reading", "waiting"} /\ socket'[t].id = i
      BY <2>2, <2>5 DEF SocketInv, SocketsAreTracked
    <3>2. \A t \in Sockets : socket'[t].at \in {"reading", "waiting"} /\ (server' = "serving" \/ t \in late') => t \in Tracked'
      <4> SUFFICES ASSUME NEW t \in Sockets, socket'[t].at \in {"reading", "waiting"}, server' = "serving" \/ t \in late'
                   PROVE  t \in Tracked'
        OBVIOUS
      <4>1. t # s
        BY <2>2, <2>3
      <4>2. t \in Tracked
        BY <2>1, <2>2, <4>1 DEF SocketInv, SocketsAreTracked
      <4>3. PICK i \in DOMAIN wsConnections : t \in wsConnections[i]
        BY <4>2 DEF Tracked
      <4>4. i \in DOMAIN wsConnections' /\ t \in wsConnections'[i]
        BY <2>5, <2>6, <4>1, <4>3
      <4> QED
        BY <4>4 DEF Tracked
    <3> QED
      BY <3>1, <3>2 DEF SocketsAreTracked
  <2>8. \A i \in DOMAIN wsConnections' : wsConnections'[i] \subseteq Sockets
    BY <2>5 DEF SocketInv
  <2> QED
    BY <2>1, <2>2, <2>3, <2>7, <2>8 DEF SocketInv
<1>6. ASSUME Sweep PROVE SocketInv'
  <2>1. /\ server = "serving" /\ server' = "sweeping" /\ late' = late /\ wsConnections' = <<>>
        /\ socket' = [s \in Sockets |-> IF s \in Tracked THEN [socket[s] EXCEPT !.live = FALSE] ELSE socket[s]]
    BY <1>6 DEF Sweep
  <2>2. \A s \in Sockets : socket'[s] = IF s \in Tracked THEN [socket[s] EXCEPT !.live = FALSE] ELSE socket[s]
    BY <2>1
  <2>3. \A s \in Sockets : DOMAIN socket'[s] = DOMAIN socket[s] /\ socket'[s].at = socket[s].at
    BY <2>2 DEF SocketInv
  <2>4. \A s \in Sockets : s \in Tracked => ~socket'[s].live
    BY <2>2 DEF SocketInv
  <2>5. \A s \in Sockets : socket'[s].live => socket[s].at = "upgraded"
    BY <2>1, <2>2, <2>4 DEF SocketInv, SocketsAreTracked, Unused
  <2>6. \A s \in Sockets : socket[s].at = "unused" => s \notin Tracked
    BY DEF SocketInv, SocketsAreTracked, Tracked
  <2>7. SocketsAreTracked' /\ DOMAIN wsConnections' = {}
    BY <2>1 DEF SocketsAreTracked, SocketInv
  <2> QED
    BY <2>1, <2>2, <2>3, <2>5, <2>6, <2>7 DEF SocketInv
<1>7. ASSUME Shutdown PROVE SocketInv'
  BY <1>7 DEF Shutdown, SocketInv, SocketsAreTracked, Tracked
<1> QED
  <2>1. ASSUME NEW c \in Clients, ClientStep(c) PROVE UNCHANGED connections
    BY <2>1 DEF ClientStep, CreateAgent, DeleteAgent, CreatePipeline, RegisterPipeline, DeletePipeline,
                UnregisterPipeline, ExecuteGraph, ExecuteAgent, InterruptGraph, Answer, ClientLeaves
  <2>2. ASSUME NEW s \in Clients \union Sockets, RunStep(s) PROVE UNCHANGED connections
    BY <2>2 DEF RunStep, StartNode, NodeEnds, RunCanceled, Advance
  <2>3. ASSUME NEW s \in Sockets, SocketExecutes(s) \/ SocketInterrupts(s) \/ RunReported(s) PROVE UNCHANGED connections
    BY <2>3 DEF SocketExecutes, SocketInterrupts, RunReported
  <2>4. ASSUME ReplaceAgents \/ AppRegisters \/ UNCHANGED controlVars PROVE UNCHANGED connections
    BY <2>4 DEF ReplaceAgents, AppRegisters, controlVars, connections
  <2> QED
    BY <1>1, <1>2, <1>3, <1>4, <1>5, <1>6, <1>7, <2>1, <2>2, <2>3, <2>4 DEF ControlNext, SocketStep

-------------------------------------------------------------------------------
(* Requests: a client without a run in the works has none running for it,    *)
(* and when the server has stopped nobody waits for an answer.               *)
RequestInv ==
    /\ DOMAIN asking = Clients /\ DOMAIN runs = Clients \cup Sockets
    /\ \A c \in Clients :
          /\ "at" \in DOMAIN asking[c]
          /\ asking[c].at # "running" => runs[c] = NoRun
          /\ asking[c].at = "running" => "live" \in DOMAIN asking[c] /\ runs[c].at # "none"
    /\ \A s \in Clients \cup Sockets : "at" \in DOMAIN runs[s]
    /\ server = "stopped" => \A c \in Clients : asking[c] = NoRequest

(* What one actor asks and its run become, the others' staying as they are.  *)
LEMMA RequestMoves ==
    ASSUME RequestInv, NEW c \in Clients, server' = server, server # "stopped" \/ asking'[c] = NoRequest,
           NEW q, asking' = [asking EXCEPT ![c] = q], NEW r, runs' = [runs EXCEPT ![c] = r],
           "at" \in DOMAIN q, q.at # "running" => r = NoRun,
           q.at = "running" => "live" \in DOMAIN q /\ r.at # "none", "at" \in DOMAIN r
    PROVE  RequestInv'
BY DEF RequestInv

LEMMA RunMoves ==
    ASSUME RequestInv, UNCHANGED <<asking, server>>, NEW s \in Clients \cup Sockets,
           NEW r, runs' = [runs EXCEPT ![s] = r], "at" \in DOMAIN r,
           s \in Clients => asking[s].at = "running" /\ r.at # "none"
    PROVE  RequestInv'
BY DEF RequestInv

LEMMA RequestsKept == RequestInv /\ [ControlNext]_controlVars => RequestInv'
<1> SUFFICES ASSUME RequestInv, [ControlNext]_controlVars PROVE RequestInv'
  OBVIOUS
<1>0. DOMAIN asking = Clients /\ DOMAIN runs = Clients \cup Sockets
  BY DEF RequestInv
<1>a. NoRequest.at = "idle" /\ "at" \in DOMAIN NoRequest /\ NoRun.at = "none" /\ "at" \in DOMAIN NoRun
  BY DEF NoRequest, NoRun
<1>1. ASSUME UNCHANGED <<asking, runs>>, server' = server \/ server' # "stopped" PROVE RequestInv'
  BY <1>1 DEF RequestInv
<1>2. ASSUME NEW c \in Clients, NEW q, asking[c].at # "running", asking' = [asking EXCEPT ![c] = q], UNCHANGED <<runs, server>>,
             "at" \in DOMAIN q, q.at # "running", server # "stopped" \/ q = NoRequest
      PROVE  RequestInv'
  BY <1>2 DEF RequestInv
<1>3. ASSUME NEW c \in Clients, NEW op, Call(c, op) PROVE asking[c].at # "running" /\ server # "stopped" /\ runs[c] = NoRun
  BY <1>3, <1>a DEF Call, RequestInv
<1>4. ASSUME NEW c \in Clients, CreatePipeline(c) PROVE RequestInv'
  <2>1. PICK def \in Definitions :
          asking' = [asking EXCEPT ![c] = IF Buildable(def, DOMAIN agents)
                                  THEN [at |-> "register", id |-> def.id, graph |-> BuildAgentPipeline(def), obj |-> <<made'>>]
                                  ELSE NoRequest]
    BY <1>4 DEF CreatePipeline
  <2> DEFINE q == IF Buildable(def, DOMAIN agents)
                  THEN [at |-> "register", id |-> def.id, graph |-> BuildAgentPipeline(def), obj |-> <<made'>>]
                  ELSE NoRequest
  <2>2. asking' = [asking EXCEPT ![c] = q] /\ "at" \in DOMAIN q /\ q.at # "running"
    BY <2>1, <1>a
  <2>3. asking[c].at # "running" /\ server # "stopped" /\ UNCHANGED <<runs, server>>
    BY <1>3, <1>4 DEF CreatePipeline, connections
  <2> HIDE DEF q
  <2> QED
    BY <1>2, <2>2, <2>3
<1>5. ASSUME NEW c \in Clients, DeletePipeline(c) PROVE RequestInv'
  <2>1. PICK id \in Paths :
          asking' = [asking EXCEPT ![c] = IF id \in DOMAIN graphs /\ graphs[id].graph.owner = "studio"
                                  THEN [at |-> "unregister", id |-> id] ELSE NoRequest]
    BY <1>5 DEF DeletePipeline
  <2> DEFINE q == IF id \in DOMAIN graphs /\ graphs[id].graph.owner = "studio"
                  THEN [at |-> "unregister", id |-> id] ELSE NoRequest
  <2>2. asking' = [asking EXCEPT ![c] = q] /\ "at" \in DOMAIN q /\ q.at # "running"
    BY <2>1, <1>a
  <2>3. asking[c].at # "running" /\ server # "stopped" /\ UNCHANGED <<runs, server>>
    BY <1>3, <1>5 DEF DeletePipeline, connections
  <2> HIDE DEF q
  <2> QED
    BY <1>2, <2>2, <2>3
<1>6. ASSUME NEW c \in Clients, RegisterPipeline(c) \/ UnregisterPipeline(c) PROVE RequestInv'
  <2> DEFINE q == NoRequest
  <2>1. /\ asking' = [asking EXCEPT ![c] = q] /\ q = NoRequest /\ asking[c].at # "running"
        /\ UNCHANGED <<runs, server>>
    BY <1>6 DEF RegisterPipeline, UnregisterPipeline, connections
  <2> HIDE DEF q
  <2> QED
    BY <1>2, <1>a, <2>1
<1>7. ASSUME NEW c \in Clients, NEW found, NEW body, NEW at, at \in {"ready", "calling"}, server # "stopped",
             asking' = [asking EXCEPT ![c] = [at |-> "running", live |-> TRUE]], server' = server,
             runs' = [runs EXCEPT ![c] = NewRun(found, body, at)]
      PROVE  RequestInv'
  <2> DEFINE q == [at |-> "running", live |-> TRUE]
             r == NewRun(found, body, at)
  <2>1. "at" \in DOMAIN q /\ "live" \in DOMAIN q /\ q.at = "running" /\ r.at = at /\ "at" \in DOMAIN r
    BY DEF NewRun
  <2>2. asking' = [asking EXCEPT ![c] = q] /\ runs' = [runs EXCEPT ![c] = r]
    BY <1>7
  <2> HIDE DEF q, r
  <2> QED
    BY <1>7, <2>1, <2>2, RequestMoves
<1>8. ASSUME NEW c \in Clients, ExecuteGraph(c) PROVE RequestInv'
  <2>1. asking[c].at # "running" /\ server # "stopped" /\ UNCHANGED server
    BY <1>3, <1>8 DEF ExecuteGraph, connections
  <2>2. CASE UNCHANGED <<runs, asking>>
    BY <1>1, <2>1, <2>2
  <2>3. CASE \E found, body : /\ runs' = [runs EXCEPT ![c] = NewRun(found, body, "ready")]
                              /\ asking' = [asking EXCEPT ![c] = [at |-> "running", live |-> TRUE]]
    BY <1>7, <2>1, <2>3
  <2> QED
    BY <1>8, <2>2, <2>3 DEF ExecuteGraph
<1>9. ASSUME NEW c \in Clients, ExecuteAgent(c) PROVE RequestInv'
  <2>1. asking[c].at # "running" /\ server # "stopped" /\ UNCHANGED server
    BY <1>3, <1>9 DEF ExecuteAgent, connections
  <2>2. \E found, body : runs' = [runs EXCEPT ![c] = NewRun(found, body, "calling")]
    BY <1>9 DEF ExecuteAgent
  <2>3. asking' = [asking EXCEPT ![c] = [at |-> "running", live |-> TRUE]]
    BY <1>9 DEF ExecuteAgent
  <2> QED
    BY <1>7, <2>1, <2>2, <2>3
<1>10. ASSUME NEW obj, runs' = Stopped(obj), UNCHANGED <<asking, server>> PROVE RequestInv'
  <2>1. DOMAIN runs' = DOMAIN runs /\ \A s \in DOMAIN runs :
            \/ runs'[s] = runs[s]
            \/ runs[s].at \in {"ready", "calling"} /\ runs'[s] = [runs[s] EXCEPT !.at = "canceled"]
    BY <1>10 DEF Stopped, Signalled
  <2>2. \A s \in DOMAIN runs : "at" \in DOMAIN runs'[s] /\ (runs'[s] = runs[s] \/ (runs[s].at # "none" /\ runs'[s].at = "canceled"))
    BY <1>0, <2>1 DEF RequestInv
  <2>3. \A c \in Clients : c \in DOMAIN runs
    BY <1>0
  <2>4. \A c \in Clients : asking[c].at # "running" => runs'[c] = NoRun
    BY <1>a, <2>1, <2>3 DEF RequestInv
  <2> QED
    BY <1>0, <1>10, <2>1, <2>2, <2>3, <2>4 DEF RequestInv
<1>11. ASSUME NEW c \in Clients, Answer(c) PROVE RequestInv'
  <2> DEFINE q == NoRequest
             r == NoRun
  <2>1. asking' = [asking EXCEPT ![c] = q] /\ runs' = [runs EXCEPT ![c] = r] /\ server' = server /\ q = NoRequest /\ r = NoRun
    BY <1>11 DEF Answer, connections
  <2> HIDE DEF q, r
  <2>2. asking'[c] = NoRequest
    BY <1>0, <2>1
  <2> QED
    BY <1>a, <2>1, <2>2, RequestMoves
<1>12. ASSUME NEW c \in Clients, ClientLeaves(c) PROVE RequestInv'
  <2>1. asking[c].at = "running" /\ asking' = [asking EXCEPT ![c].live = FALSE] /\ UNCHANGED <<runs, server>>
    BY <1>12 DEF ClientLeaves, connections
  <2>2. DOMAIN asking' = Clients /\ asking'[c].at = "running" /\ DOMAIN asking'[c] = DOMAIN asking[c]
        /\ \A d \in Clients : d # c => asking'[d] = asking[d]
    BY <1>0, <2>1 DEF RequestInv
  <2>3. server # "stopped"
    BY <1>a, <2>1 DEF RequestInv
  <2> QED
    BY <2>1, <2>2, <2>3 DEF RequestInv
<1>13. ASSUME NEW s \in Clients \cup Sockets, NEW r, runs' = [runs EXCEPT ![s] = r], UNCHANGED <<asking, server>>,
              runs[s].at # "none", "at" \in DOMAIN r, r.at # "none"
       PROVE  RequestInv'
  <2>1. s \in Clients => asking[s].at = "running"
    BY <1>13, <1>a DEF RequestInv
  <2> QED
    BY <1>13, <2>1, RunMoves
<1>14. ASSUME NEW s \in Clients \cup Sockets, NEW at, at # "none", Advance(s, [runs[s] EXCEPT !.at = at]), runs[s].at # "none"
       PROVE  RequestInv'
  <2> DEFINE r == [runs[s] EXCEPT !.at = at]
  <2>1. "at" \in DOMAIN r /\ r.at = at
    BY DEF RequestInv
  <2>2. runs' = [runs EXCEPT ![s] = r] /\ UNCHANGED <<asking, server>>
    BY <1>14 DEF Advance, connections
  <2> HIDE DEF r
  <2> QED
    BY <1>13, <1>14, <2>1, <2>2
<1>15. ASSUME NEW s \in Clients \cup Sockets, NEW state, NEW entry, Advance(s, AfterNode(runs[s], state, entry)), runs[s].at # "none"
       PROVE  RequestInv'
  <2> DEFINE r == AfterNode(runs[s], state, entry)
  <2>1. "at" \in DOMAIN r /\ r.at \in {"completed", "ready"}
    BY DEF RequestInv, AfterNode
  <2>2. runs' = [runs EXCEPT ![s] = r] /\ UNCHANGED <<asking, server>>
    BY <1>15 DEF Advance, connections
  <2> HIDE DEF r
  <2> QED
    BY <1>13, <1>15, <2>1, <2>2
<1>16. ASSUME NEW s \in Clients \cup Sockets, RunStep(s) PROVE RequestInv'
  <2>1. ASSUME StartNode(s) PROVE RequestInv'
    BY <2>1, <1>14 DEF StartNode
  <2>2. ASSUME NodeEnds(s) PROVE RequestInv'
    BY <2>2, <1>14, <1>15 DEF NodeEnds
  <2>3. ASSUME RunCanceled(s) PROVE RequestInv'
    BY <2>3, <1>14 DEF RunCanceled, Ended
  <2> QED
    BY <1>16, <2>1, <2>2, <2>3 DEF RunStep
<1>17. ASSUME NEW s \in Sockets, NEW r, runs' = [runs EXCEPT ![s] = r], UNCHANGED <<asking, server>>, "at" \in DOMAIN r
       PROVE  RequestInv'
  BY <1>17, RunMoves, ControlAssumption
<1>18. ASSUME NEW s \in Sockets, SocketExecutes(s) PROVE RequestInv'
  <2>1. PICK found, body, at : runs' = [runs EXCEPT ![s] = NewRun(found, body, at)]
    BY <1>18 DEF SocketExecutes
  <2> DEFINE r == NewRun(found, body, at)
  <2>2. runs' = [runs EXCEPT ![s] = r] /\ UNCHANGED <<asking, server>> /\ "at" \in DOMAIN r
    BY <1>18, <2>1 DEF SocketExecutes, NewRun, connections
  <2> HIDE DEF r
  <2> QED
    BY <1>17, <2>2
<1>19. ASSUME NEW s \in Sockets, RunReported(s) PROVE RequestInv'
  <2> DEFINE r == NoRun
  <2>1. runs' = [runs EXCEPT ![s] = r] /\ UNCHANGED <<asking, server>> /\ "at" \in DOMAIN r
    BY <1>19, <1>a DEF RunReported, connections
  <2> HIDE DEF r
  <2> QED
    BY <1>17, <2>1
<1>20. ASSUME Shutdown PROVE RequestInv'
  BY <1>20 DEF Shutdown, RequestInv
<1>21. ASSUME NEW c \in Clients, ClientStep(c) PROVE RequestInv'
  <2>1. ASSUME CreateAgent(c) \/ DeleteAgent(c) PROVE RequestInv'
    BY <1>1, <2>1 DEF CreateAgent, DeleteAgent, connections
  <2>2. ASSUME InterruptGraph(c) PROVE RequestInv'
    BY <1>10, <2>2 DEF InterruptGraph, connections
  <2> QED
    BY <1>21, <1>4, <1>5, <1>6, <1>8, <1>9, <1>11, <1>12, <2>1, <2>2 DEF ClientStep
<1>22. ASSUME NEW s \in Sockets, SocketStep(s) PROVE RequestInv'
  <2>1. ASSUME SocketInterrupts(s) PROVE RequestInv'
    BY <1>10, <2>1 DEF SocketInterrupts, connections
  <2>2. ASSUME Upgrade(s) \/ RegisterWSConn(s) \/ SocketBreaks(s) \/ ReadFails(s) \/ UnregisterWSConn(s) PROVE RequestInv'
    BY <1>1, <2>2 DEF Upgrade, RegisterWSConn, SocketBreaks, ReadFails, UnregisterWSConn
  <2> QED
    BY <1>22, <1>18, <1>19, <2>1, <2>2 DEF SocketStep
<1>23. ASSUME ReplaceAgents \/ AppRegisters \/ Sweep \/ UNCHANGED controlVars PROVE RequestInv'
  BY <1>1, <1>23 DEF ReplaceAgents, AppRegisters, Sweep, controlVars, connections
<1> QED
  BY <1>16, <1>20, <1>21, <1>22, <1>23 DEF ControlNext

-------------------------------------------------------------------------------
(* The list of graphs.                                                       *)
ListInv == order \in Seq(DOMAIN graphs) /\ GraphsAreListedOnce

LEMMA GraphRegistered ==
    ASSUME ListInv, NEW id, NEW object, Register(id, object)
    PROVE  ListInv'
<1>1. DOMAIN graphs' = DOMAIN graphs \cup {id} /\ order' = IF id \in DOMAIN graphs THEN order ELSE Append(order, id)
  BY DEF Register, With
<1>2. order \in Seq(DOMAIN graphs') /\ DOMAIN order = 1..Len(order) /\ Len(order) \in Nat
  BY <1>1, LenProperties, ElementOfSeq DEF ListInv
<1>3. CASE id \in DOMAIN graphs
  BY <1>1, <1>2, <1>3 DEF ListInv, GraphsAreListedOnce
<1>4. CASE id \notin DOMAIN graphs
  <2>1. /\ order' \in Seq(DOMAIN graphs') /\ DOMAIN order' = 1..Len(order) + 1 /\ order'[Len(order) + 1] = id
        /\ \A i \in 1..Len(order) : order'[i] = order[i]
    BY <1>1, <1>2, <1>4, AppendProperties
  <2>2. \A i \in 1..Len(order) : order[i] # id
    BY <1>2, <1>4 DEF ListInv, GraphsAreListedOnce
  <2>3. {order'[i] : i \in DOMAIN order'} = DOMAIN graphs'
    BY <1>1, <1>2, <2>1 DEF ListInv, GraphsAreListedOnce
  <2>4. \A i, j \in DOMAIN order' : order'[i] = order'[j] => i = j
    BY <1>2, <2>1, <2>2 DEF ListInv, GraphsAreListedOnce
  <2> QED
    BY <2>1, <2>3, <2>4 DEF ListInv, GraphsAreListedOnce
<1> QED
  BY <1>3, <1>4

LEMMA Narrowed ==
    ASSUME NEW S, NEW T, NEW s \in Seq(S), \A i \in 1..Len(s) : s[i] \in T
    PROVE  s \in Seq(T)
<1>1. Len(s) \in Nat /\ s \in [1..Len(s) -> S]
  BY LenProperties
<1>2. s \in [1..Len(s) -> T]
  BY <1>1
<1> QED
  BY <1>1, <1>2, SeqDef

(* The first entry of that name goes, and it is the only one.                *)
LEMMA GraphUnregistered ==
    ASSUME ListInv, NEW id, graphs' = Without(graphs, id), order' = OrderWithout(id)
    PROVE  ListInv'
<1>1. DOMAIN graphs' = DOMAIN graphs \ {id}
  BY DEF Without
<1>2. order \in Seq(DOMAIN graphs) /\ DOMAIN order = 1..Len(order) /\ Len(order) \in Nat
  BY LenProperties DEF ListInv
<1>3. CASE \A i \in DOMAIN order : order[i] # id
  <2>1. order' = order /\ DOMAIN graphs' = DOMAIN graphs
    BY <1>1, <1>3 DEF OrderWithout, ListInv, GraphsAreListedOnce
  <2> QED
    BY <2>1 DEF ListInv, GraphsAreListedOnce
<1>4. CASE \E i \in DOMAIN order : order[i] = id
  <2>1. PICK k \in DOMAIN order : order[k] = id
    BY <1>4
  <2>2. \A j \in DOMAIN order : j # k => order[j] # id
    BY <2>1 DEF ListInv, GraphsAreListedOnce
  <2>3. k = CHOOSE i \in DOMAIN order : order[i] = id /\ \A j \in 1 .. i - 1 : order[j] # id
    <3>1. order[k] = id /\ \A j \in 1 .. k - 1 : order[j] # id
      BY <1>2, <2>1, <2>2
    <3> QED
      BY <2>2, <3>1
  <2> DEFINE front == SubSeq(order, 1, k - 1)
             back == SubSeq(order, k + 1, Len(order))
  <2>4. order' = front \o back
    BY <1>4, <2>3 DEF OrderWithout
  <2>5. /\ front \in Seq(DOMAIN graphs) /\ Len(front) = k - 1 /\ \A i \in 1..k - 1 : front[i] = order[i]
        /\ back \in Seq(DOMAIN graphs) /\ Len(back) = Len(order) - k /\ \A i \in 1..Len(order) - k : back[i] = order[k + i]
    <3> DEFINE n == Len(order)
               all == DOMAIN graphs
    <3>1. n \in Nat /\ k \in 1..n /\ \A i \in 1..n : order[i] \in all
      BY <1>2, <2>1, ElementOfSeq
    <3> HIDE DEF all, n
    <3>2. \A i \in 1..k - 1 : order[i] \in all
      BY <3>1
    <3>3. \A i \in k + 1..n : order[i] \in all
      BY <3>1
    <3>4. /\ SubSeq(order, 1, k - 1) \in Seq(all)
          /\ Len(SubSeq(order, 1, k - 1)) = IF 1 <= k - 1 THEN k - 1 - 1 + 1 ELSE 0
          /\ \A i \in 1..k - 1 - 1 + 1 : SubSeq(order, 1, k - 1)[i] = order[1 + i - 1]
      BY <3>1, <3>2, SubSeqProperties
    <3>5. /\ SubSeq(order, k + 1, n) \in Seq(all)
          /\ Len(SubSeq(order, k + 1, n)) = IF k + 1 <= n THEN n - (k + 1) + 1 ELSE 0
          /\ \A i \in 1..n - (k + 1) + 1 : SubSeq(order, k + 1, n)[i] = order[k + 1 + i - 1]
      BY <3>1, <3>3, SubSeqProperties
    <3>6. front = SubSeq(order, 1, k - 1) /\ back = SubSeq(order, k + 1, n)
      BY DEF n
    <3> HIDE DEF front, back
    <3>7. front \in Seq(all) /\ Len(front) = k - 1 /\ \A i \in 1..k - 1 : front[i] = order[i]
      BY <3>1, <3>4, <3>6
    <3>8. back \in Seq(all) /\ Len(back) = n - k /\ \A i \in 1..n - k : back[i] = order[k + i]
      <4>1. Len(back) = n - k
        BY <3>1, <3>5, <3>6
      <4>2. \A i \in 1..n - k : i \in 1..n - (k + 1) + 1 /\ k + 1 + i - 1 = k + i
        BY <3>1
      <4>3. \A i \in 1..n - (k + 1) + 1 : back[i] = order[k + 1 + i - 1]
        BY <3>5, <3>6
      <4>4. \A i \in 1..n - k : back[i] = order[k + i]
        BY <4>2, <4>3
      <4> QED
        BY <3>5, <3>6, <4>1, <4>4
    <3> QED
      BY <3>7, <3>8 DEF all, n
  <2> HIDE DEF front, back
  <2>6. /\ order' \in Seq(DOMAIN graphs) /\ Len(order') = Len(order) - 1
        /\ \A i \in 1..Len(order) - 1 : order'[i] = IF i < k THEN order[i] ELSE order[i + 1]
    <3>1. /\ order' \in Seq(DOMAIN graphs) /\ Len(order') = Len(front) + Len(back)
          /\ \A i \in 1..Len(front) + Len(back) : order'[i] = IF i <= Len(front) THEN front[i] ELSE back[i - Len(front)]
      BY <2>4, <2>5, ConcatProperties
    <3> QED
      <4>1. Len(order') = Len(order) - 1
        BY <1>2, <2>1, <2>5, <3>1
      <4>2. \A i \in 1..Len(order) - 1 : i < k => order'[i] = order[i]
        BY <1>2, <2>1, <2>5, <3>1
      <4>3. \A i \in 1..Len(order) - 1 : ~(i < k) => order'[i] = order[i + 1]
        <5> SUFFICES ASSUME NEW i \in 1..Len(order) - 1, ~(i < k) PROVE order'[i] = order[i + 1]
          OBVIOUS
        <5>1. order'[i] = back[i - Len(front)] /\ Len(front) = k - 1
          BY <1>2, <2>1, <2>5, <3>1
        <5>2. i - (k - 1) \in 1..Len(order) - k /\ k + (i - (k - 1)) = i + 1
          BY <1>2, <2>1
        <5> QED
          BY <2>5, <5>1, <5>2
      <4> QED
        BY <3>1, <4>1, <4>2, <4>3
  <2>7. DOMAIN order' = 1..Len(order) - 1
    BY <2>6, LenProperties
  <2>8. \A i \in 1..Len(order) - 1 : order'[i] # id
    BY <1>2, <2>1, <2>2, <2>6
  <2>9. order' \in Seq(DOMAIN graphs')
    <3>1. \A i \in 1..Len(order') : order'[i] \in DOMAIN graphs'
      BY <1>1, <2>6, <2>8, ElementOfSeq
    <3> QED
      BY <2>6, <3>1, Narrowed
  <2>10. {order'[i] : i \in DOMAIN order'} = DOMAIN graphs'
    <3>1. \A g \in DOMAIN graphs' : \E i \in DOMAIN order' : order'[i] = g
      <4> SUFFICES ASSUME NEW g \in DOMAIN graphs' PROVE \E i \in DOMAIN order' : order'[i] = g
        OBVIOUS
      <4>1. PICK i \in DOMAIN order : order[i] = g
        BY <1>1 DEF ListInv, GraphsAreListedOnce
      <4>2. i # k
        BY <1>1, <2>1, <4>1
      <4>3. CASE i < k
        BY <1>2, <2>1, <2>6, <2>7, <4>1, <4>3
      <4>4. CASE i > k
        <5>1. i - 1 \in 1..Len(order) - 1 /\ order'[i - 1] = order[i]
          BY <1>2, <2>1, <2>6, <4>1, <4>4
        <5> QED
          BY <2>7, <4>1, <5>1
      <4> QED
        BY <1>2, <2>1, <4>1, <4>2, <4>3, <4>4
    <3>2. \A i \in DOMAIN order' : order'[i] \in DOMAIN graphs'
      BY <2>7, <2>9, ElementOfSeq, LenProperties
    <3> QED
      BY <3>1, <3>2
  <2>11. \A i, j \in DOMAIN order' : order'[i] = order'[j] => i = j
    <3> SUFFICES ASSUME NEW i \in DOMAIN order', NEW j \in DOMAIN order', order'[i] = order'[j] PROVE i = j
      OBVIOUS
    <3> DEFINE Past(x) == IF x < k THEN x ELSE x + 1
    <3>1. /\ i \in 1..Len(order) - 1 /\ j \in 1..Len(order) - 1
          /\ Past(i) \in DOMAIN order /\ Past(j) \in DOMAIN order
          /\ order'[i] = order[Past(i)] /\ order'[j] = order[Past(j)]
      BY <1>2, <2>1, <2>6, <2>7
    <3>2. Past(i) = Past(j)
      BY <3>1 DEF ListInv, GraphsAreListedOnce
    <3> QED
      BY <1>2, <2>1, <3>1, <3>2
  <2> QED
    BY <2>9, <2>10, <2>11 DEF ListInv, GraphsAreListedOnce
<1> QED
  BY <1>3, <1>4

LEMMA ListKept == ListInv /\ [ControlNext]_controlVars => ListInv'
<1> SUFFICES ASSUME ListInv, [ControlNext]_controlVars PROVE ListInv'
  OBVIOUS
<1>1. ASSUME UNCHANGED <<graphs, order>> PROVE ListInv'
  BY <1>1 DEF ListInv, GraphsAreListedOnce
<1>2. ASSUME NEW c \in Clients, ClientStep(c) PROVE ListInv'
  <2>1. ASSUME RegisterPipeline(c) PROVE ListInv'
    BY <2>1, GraphRegistered DEF RegisterPipeline
  <2>2. ASSUME UnregisterPipeline(c) PROVE ListInv'
    BY <2>2, GraphUnregistered DEF UnregisterPipeline
  <2>3. ASSUME CreateAgent(c) \/ DeleteAgent(c) \/ CreatePipeline(c) \/ DeletePipeline(c) \/ ExecuteGraph(c)
               \/ ExecuteAgent(c) \/ InterruptGraph(c) \/ Answer(c) \/ ClientLeaves(c)
        PROVE  ListInv'
    BY <1>1, <2>3 DEF CreateAgent, DeleteAgent, CreatePipeline, DeletePipeline, ExecuteGraph,
                      ExecuteAgent, InterruptGraph, Answer, ClientLeaves, registries
  <2> QED
    BY <1>2, <2>1, <2>2, <2>3 DEF ClientStep
<1>3. ASSUME NEW s \in Sockets, SocketStep(s) PROVE ListInv'
  BY <1>1, <1>3 DEF SocketStep, Upgrade, RegisterWSConn, SocketExecutes, SocketInterrupts, RunReported, SocketBreaks,
                    ReadFails, UnregisterWSConn, registries
<1>4. ASSUME NEW s \in Clients \cup Sockets, RunStep(s) PROVE ListInv'
  BY <1>1, <1>4 DEF RunStep, StartNode, NodeEnds, RunCanceled, Advance, registries
<1>5. ASSUME AppRegisters PROVE ListInv'
  BY <1>5, GraphRegistered DEF AppRegisters
<1>6. ASSUME ReplaceAgents \/ Sweep \/ Shutdown \/ UNCHANGED controlVars PROVE ListInv'
  BY <1>1, <1>6 DEF ReplaceAgents, Sweep, Shutdown, registries, controlVars
<1> QED
  BY <1>2, <1>3, <1>4, <1>5, <1>6 DEF ControlNext

-------------------------------------------------------------------------------
(* Pipelines: what each run has done so far.                                 *)
GraphOk(g) ==
    g.owner = "studio" =>
        /\ Len(g.nodes) \in Nat \ {0} /\ DOMAIN g.nodes = 1 .. Len(g.nodes)
        /\ \A i \in 1 .. Len(g.nodes) : g.nodes[i].id \in Seq(STRING)
        /\ \A i, j \in 1 .. Len(g.nodes) : g.nodes[i].id = g.nodes[j].id => i = j

LogFollows(r) ==
    \A i \in 1 .. Len(r.log) :
        /\ r.log[i].node = r.graph.nodes[i].id
        /\ r.log[i].asked = (IF i = 1 THEN PipelineInput(r.given) ELSE r.log[i - 1].reply)
        /\ OutputOf(r.log[i].node) \in DOMAIN r.state
        /\ r.state[OutputOf(r.log[i].node)] = Text(r.log[i].reply)

PassedOn(r) ==
    IF Len(r.log) = 0 THEN r.state = r.given
    ELSE /\ Input \in DOMAIN r.state
         /\ r.state[Input] = Text(r.log[Len(r.log)].reply)
         /\ r.state[LastOutput] = Text(r.log[Len(r.log)].reply)

RunFollows(r) ==
    r.at # "none" =>
        /\ {"at", "graph", "state", "given", "next", "log"} \subseteq DOMAIN r
        /\ GraphOk(r.graph)
        /\ r.graph.owner = "studio" =>
              /\ \E S : r.log \in Seq(S)
              /\ r.next = Len(r.log) + 1 /\ Len(r.log) <= Len(r.graph.nodes)
              /\ r.at \in {"ready", "calling"} => Len(r.log) < Len(r.graph.nodes)
              /\ r.at = "completed" => Len(r.log) = Len(r.graph.nodes)
              /\ LogFollows(r) /\ PassedOn(r)

PipelineInv ==
    /\ \A id \in DOMAIN graphs : GraphOk(graphs[id].graph)
    /\ \A c \in Clients : asking[c].at = "register" => GraphOk(asking[c].graph)
    /\ \A s \in Clients \cup Sockets : RunFollows(runs[s])
    /\ PipelinesFollowDefinition

LEMMA Pair ==
    ASSUME NEW T, NEW a \in T, NEW b \in T
    PROVE  <<a, b>> \in Seq(T) /\ Len(<<a, b>>) = 2
OBVIOUS

LEMMA Framed ==
    ASSUME NEW T, NEW front \in Seq(T), NEW back \in Seq(T), Len(front) = 2, Len(back) = 2, NEW x \in Seq(T)
    PROVE  /\ Len(x) \in Nat /\ Len(front \o x \o back) = Len(x) + 4
           /\ \A i \in 1 .. Len(x) : (front \o x \o back)[i + 2] = x[i]
<1> DEFINE head == front \o x
<1>1. /\ head \in Seq(T) /\ Len(head) = 2 + Len(x) /\ Len(x) \in Nat
      /\ \A i \in 1 .. Len(front) + Len(x) : head[i] = IF i <= Len(front) THEN front[i] ELSE x[i - Len(front)]
  <2>1. Len(x) \in Nat
    BY LenProperties
  <2>2. /\ front \o x \in Seq(T) /\ Len(front \o x) = Len(front) + Len(x)
        /\ \A i \in 1 .. Len(front) + Len(x) : (front \o x)[i] = IF i <= Len(front) THEN front[i] ELSE x[i - Len(front)]
    BY ConcatProperties
  <2> QED
    BY <2>1, <2>2
<1>2. \A i \in 1 .. Len(x) : head[i + 2] = x[i]
  <2> SUFFICES ASSUME NEW i \in 1 .. Len(x) PROVE head[i + 2] = x[i]
    OBVIOUS
  <2>1. i + 2 \in 1 .. Len(front) + Len(x) /\ ~(i + 2 <= Len(front)) /\ i + 2 - Len(front) = i
    BY <1>1
  <2> HIDE DEF head
  <2> QED
    BY <1>1, <2>1
<1> HIDE DEF head
<1>3. /\ Len(head \o back) = Len(head) + 2
      /\ \A i \in 1 .. Len(head) + Len(back) : (head \o back)[i] = IF i <= Len(head) THEN head[i] ELSE back[i - Len(head)]
  <2>1. /\ Len(head \o back) = Len(head) + Len(back)
        /\ \A i \in 1 .. Len(head) + Len(back) : (head \o back)[i] = IF i <= Len(head) THEN head[i] ELSE back[i - Len(head)]
    <3>1. head \in Seq(T)
      BY <1>1
    <3> QED
      BY <3>1, ConcatProperties
  <2> QED
    BY <1>1, <2>1
<1>4. \A i \in 1 .. Len(x) : (head \o back)[i + 2] = x[i]
  <2> SUFFICES ASSUME NEW i \in 1 .. Len(x) PROVE (head \o back)[i + 2] = x[i]
    OBVIOUS
  <2>1. i + 2 \in 1 .. Len(head) + Len(back) /\ i + 2 <= Len(head)
    BY <1>1
  <2>2. (head \o back)[i + 2] = head[i + 2]
    BY <1>3, <2>1
  <2> QED
    BY <1>2, <2>2
<1> QED
  BY <1>1, <1>3, <1>4 DEF head

(* The outputs of two nodes have different names, none of them reserved.     *)
LEMMA OutputsDiffer ==
    ASSUME NEW m \in Seq(STRING), NEW n \in Seq(STRING)
    PROVE  /\ OutputOf(m) = OutputOf(n) => m = n
           /\ OutputOf(n) # Input /\ OutputOf(n) # LastOutput /\ Input # LastOutput
<1> DEFINE front == <<"agent", ".">>
           back == <<".", "output">>
           T == STRING \cup {"agent", ".", "output"}
<1>1. "agent" \in T /\ "." \in T /\ "output" \in T
  OBVIOUS
<1>2. \A x : OutputOf(x) = front \o x \o back
  BY DEF OutputOf
<1>3. Len(Input) = 1 /\ Len(LastOutput) = 1 /\ Input[1] # LastOutput[1]
  BY DEF Input, LastOutput
<1>4. m \in Seq(T) /\ n \in Seq(T)
  <2> DEFINE S == STRING
  <2>1. S \subseteq T /\ m \in Seq(S) /\ n \in Seq(S)
    OBVIOUS
  <2> HIDE DEF S, T
  <2> QED
    BY <2>1, SeqMonotonic
<1> HIDE DEF T
<1>5. front \in Seq(T) /\ back \in Seq(T) /\ Len(front) = 2 /\ Len(back) = 2
  BY <1>1, Pair
<1> HIDE DEF front, back
<1>6. ASSUME NEW x \in Seq(T)
      PROVE  Len(OutputOf(x)) = Len(x) + 4 /\ Len(x) \in Nat /\ \A i \in 1 .. Len(x) : OutputOf(x)[i + 2] = x[i]
  <2>1. Len(front \o x \o back) = Len(x) + 4 /\ Len(x) \in Nat /\ \A i \in 1 .. Len(x) : (front \o x \o back)[i + 2] = x[i]
    <3>1. front \in Seq(T) /\ back \in Seq(T) /\ Len(front) = 2 /\ Len(back) = 2 /\ x \in Seq(T)
      BY <1>5, <1>6
    <3> QED
      BY <3>1, Framed, SMTT(30)
  <2> QED
    BY <1>2, <2>1
<1>7. OutputOf(n) # Input /\ OutputOf(n) # LastOutput
  <2>1. Len(OutputOf(n)) = Len(n) + 4 /\ Len(n) \in Nat
    BY <1>4, <1>6
  <2>2. Len(OutputOf(n)) # 1
    BY <2>1
  <2> QED
    BY <1>3, <2>2
<1>8. ASSUME OutputOf(m) = OutputOf(n) PROVE m = n
  <2>1. Len(m) = Len(n) /\ \A i \in 1 .. Len(m) : m[i] = n[i]
    BY <1>4, <1>6, <1>8
  <2> QED
    BY <1>4, <2>1, SeqEqual
<1> QED
  BY <1>3, <1>7, <1>8

LEMMA RunStarts ==
    ASSUME NEW found, GraphOk(found.graph), NEW body, NEW at \in {"ready", "calling"}
    PROVE  RunFollows(NewRun(found, body, at))
<1> DEFINE state == BuildInitialState(body)
           r == [at |-> at, obj |-> found.obj, graph |-> found.graph, state |-> state,
                 given |-> state, next |-> 1, log |-> <<>>]
<1>1. /\ {"at", "graph", "state", "given", "next", "log"} \subseteq DOMAIN r
      /\ r.at = at /\ r.graph = found.graph /\ r.state = r.given /\ r.next = 1 /\ r.log = <<>>
  OBVIOUS
<1>2. NewRun(found, body, at) = r
  BY DEF NewRun
<1> HIDE DEF r
<1>3. Len(r.log) = 0 /\ r.log \in Seq({})
  BY <1>1, EmptySeq
<1>4. LogFollows(r) /\ PassedOn(r)
  BY <1>1, <1>3 DEF LogFollows, PassedOn
<1>5. r.graph.owner = "studio" => Len(r.graph.nodes) \in Nat \ {0}
  BY <1>1 DEF GraphOk
<1> QED
  <2>1. GraphOk(r.graph) /\ r.at \in {"ready", "calling"} /\ r.next = Len(r.log) + 1
    BY <1>1, <1>3
  <2>2. r.graph.owner = "studio" => Len(r.log) <= Len(r.graph.nodes) /\ Len(r.log) < Len(r.graph.nodes)
    BY <1>3, <1>5
  <2>3. RunFollows(r)
    BY <1>1, <1>3, <1>4, <2>1, <2>2 DEF RunFollows
  <2> QED
    BY <1>2, <2>3

(* A run that goes on or ends without another node.                          *)
LEMMA RunChanges ==
    ASSUME NEW r, RunFollows(r), r.at # "none", NEW at,
           at \in {"calling", "failed", "interrupted", "canceled"},
           at = "calling" => r.at = "ready"
    PROVE  RunFollows([r EXCEPT !.at = at])
<1> DEFINE n == [r EXCEPT !.at = at]
<1>1. /\ DOMAIN n = DOMAIN r /\ n.at = at /\ n.graph = r.graph /\ n.state = r.state /\ n.given = r.given
      /\ n.next = r.next /\ n.log = r.log
  BY DEF RunFollows
<1> HIDE DEF n
<1>2. LogFollows(r) => LogFollows(n)
  BY <1>1 DEF LogFollows
<1>3. PassedOn(r) => PassedOn(n)
  BY <1>1 DEF PassedOn
<1>4. RunFollows(n)
  BY <1>1, <1>2, <1>3 DEF RunFollows
<1> QED
  BY <1>4 DEF n

LEMMA AppendAny ==
    ASSUME NEW S, NEW s \in Seq(S), NEW e
    PROVE  /\ \E T : Append(s, e) \in Seq(T)
           /\ Len(s) \in Nat /\ Len(Append(s, e)) = Len(s) + 1
           /\ \A i \in 1 .. Len(s) : Append(s, e)[i] = s[i]
           /\ Append(s, e)[Len(s) + 1] = e
<1> DEFINE T == S \cup {e}
<1>1. S \subseteq T /\ e \in T
  OBVIOUS
<1> HIDE DEF T
<1>2. s \in Seq(T)
  BY <1>1, SeqMonotonic
<1> QED
  BY <1>1, <1>2, AppendProperties, LenProperties

(* The node of a pipeline whose agent answered.                              *)
LEMMA NodeCompletes ==
    ASSUME NEW r, RunFollows(r), r.at = "calling", r.graph.owner = "studio", NEW reply, NEW now,
           now = r.graph.nodes[r.next]
    PROVE  RunFollows(AfterNode(r, NodeUpdate(now.id, r.state, reply),
                                [node |-> now.id, asked |-> PipelineInput(r.state), reply |-> reply]))
<1> DEFINE k == Len(r.log)
           asked == PipelineInput(r.state)
           state == NodeUpdate(now.id, r.state, reply)
           entry == [node |-> now.id, asked |-> asked, reply |-> reply]
           at == IF r.next = Len(r.graph.nodes) THEN "completed" ELSE "ready"
           n == [r EXCEPT !.at = at, !.next = r.next + 1, !.state = state, !.log = Append(r.log, entry)]
<1>1. AfterNode(r, state, entry) = n
  BY DEF AfterNode
<1>2. /\ {"at", "graph", "state", "given", "next", "log"} \subseteq DOMAIN r /\ GraphOk(r.graph)
      /\ r.next = k + 1 /\ k < Len(r.graph.nodes) /\ LogFollows(r) /\ PassedOn(r)
  BY DEF RunFollows
<1>3. PICK S : r.log \in Seq(S)
  BY DEF RunFollows
<1>4. /\ \E T : Append(r.log, entry) \in Seq(T)
      /\ k \in Nat /\ Len(Append(r.log, entry)) = k + 1
      /\ \A i \in 1 .. k : Append(r.log, entry)[i] = r.log[i]
      /\ Append(r.log, entry)[k + 1] = entry
  <2>1. r.log \in Seq(S)
    BY <1>3
  <2> HIDE DEF entry
  <2> QED
    BY ONLY <2>1, AppendAny DEF k
<1>5. /\ DOMAIN n = DOMAIN r /\ n.at = at /\ n.graph = r.graph /\ n.state = state /\ n.given = r.given
      /\ n.next = k + 2 /\ n.log = Append(r.log, entry)
  BY <1>2, <1>4
<1>6. entry.node = now.id /\ entry.asked = asked /\ entry.reply = reply
  OBVIOUS
<1>7. /\ Len(r.graph.nodes) \in Nat /\ \A i \in 1 .. Len(r.graph.nodes) : r.graph.nodes[i].id \in Seq(STRING)
      /\ \A i, j \in 1 .. Len(r.graph.nodes) : r.graph.nodes[i].id = r.graph.nodes[j].id => i = j
  BY <1>2 DEF GraphOk
<1>8. now.id = r.graph.nodes[k + 1].id /\ now.id \in Seq(STRING)
  BY <1>2, <1>4, <1>7
<1>9. /\ Input \in DOMAIN state /\ state[Input] = Text(reply) /\ state[LastOutput] = Text(reply)
      /\ state[OutputOf(now.id)] = Text(reply)
      /\ OutputOf(now.id) \in DOMAIN state
      /\ \A x \in Seq(STRING) : x # now.id /\ OutputOf(x) \in DOMAIN r.state =>
            OutputOf(x) \in DOMAIN state /\ state[OutputOf(x)] = r.state[OutputOf(x)]
  <2>1. /\ OutputOf(now.id) # Input /\ OutputOf(now.id) # LastOutput /\ Input # LastOutput
        /\ \A x \in Seq(STRING) : /\ OutputOf(x) # Input /\ OutputOf(x) # LastOutput
                                  /\ x # now.id => OutputOf(x) # OutputOf(now.id)
    BY <1>8, OutputsDiffer
  <2> QED
    BY <2>1 DEF NodeUpdate, With
<1>10. asked = IF k = 0 THEN PipelineInput(r.given) ELSE r.log[k].reply
  <2>1. CASE k = 0
    BY <1>2, <2>1 DEF PassedOn
  <2>2. CASE k # 0
    <3>1. Input \in DOMAIN r.state /\ r.state[Input] = Text(r.log[k].reply)
      BY <1>2, <2>2 DEF PassedOn
    <3>2. Text(r.log[k].reply).kind = "string" /\ Text(r.log[k].reply).text = r.log[k].reply
      BY DEF Text
    <3> QED
      BY <2>2, <3>1, <3>2 DEF PipelineInput
  <2> QED
    BY <2>1, <2>2
<1> HIDE DEF asked, state, entry
<1>11. Len(n.log) = k + 1 /\ n.log[k + 1] = entry /\ \A i \in 1 .. k : n.log[i] = r.log[i]
  BY <1>4, <1>5
<1>12. at \in {"completed", "ready"} /\ (at = "completed" <=> k + 1 = Len(r.graph.nodes))
  BY <1>2
<1> HIDE DEF n, at
<1>13. LogFollows(n)
  <2> SUFFICES ASSUME NEW i \in 1 .. k + 1
               PROVE  /\ n.log[i].node = n.graph.nodes[i].id
                      /\ n.log[i].asked = (IF i = 1 THEN PipelineInput(n.given) ELSE n.log[i - 1].reply)
                      /\ OutputOf(n.log[i].node) \in DOMAIN n.state
                      /\ n.state[OutputOf(n.log[i].node)] = Text(n.log[i].reply)
    BY <1>11 DEF LogFollows
  <2>1. CASE i = k + 1
    <3>1. n.log[i] = entry /\ n.graph = r.graph /\ n.state = state /\ n.given = r.given
      BY <1>5, <1>11, <2>1
    <3>2. i # 1 => n.log[i - 1] = r.log[k] /\ k # 0
      BY <1>4, <1>11, <2>1
    <3>3. i = 1 => k = 0
      BY <1>4, <2>1
    <3> QED
      BY <1>6, <1>8, <1>9, <1>10, <2>1, <3>1, <3>2, <3>3
  <2>2. CASE i \in 1 .. k
    <3>1. n.log[i] = r.log[i] /\ n.graph = r.graph /\ n.state = state /\ n.given = r.given
      BY <1>5, <1>11, <2>2
    <3>2. /\ r.log[i].node = r.graph.nodes[i].id
          /\ r.log[i].asked = (IF i = 1 THEN PipelineInput(r.given) ELSE r.log[i - 1].reply)
          /\ OutputOf(r.log[i].node) \in DOMAIN r.state
          /\ r.state[OutputOf(r.log[i].node)] = Text(r.log[i].reply)
      BY <1>2, <2>2 DEF LogFollows
    <3>3. i # 1 => i - 1 \in 1 .. k
      BY <1>4, <2>2
    <3>4. r.log[i].node \in Seq(STRING) /\ r.log[i].node # now.id
      BY <1>2, <1>4, <1>7, <1>8, <2>2, <3>2
    <3> QED
      BY <1>9, <1>11, <3>1, <3>2, <3>3, <3>4
  <2> QED
    BY <1>4, <2>1, <2>2
<1>14. PassedOn(n)
  BY <1>4, <1>5, <1>6, <1>9, <1>11 DEF PassedOn
<1>15. RunFollows(n)
  <2>1. n.next = Len(n.log) + 1 /\ Len(n.log) <= Len(n.graph.nodes)
    BY <1>2, <1>4, <1>5, <1>7, <1>11
  <2>2. n.at = "ready" => Len(n.log) < Len(n.graph.nodes)
    BY <1>2, <1>4, <1>5, <1>7, <1>11, <1>12
  <2>3. n.at = "completed" => Len(n.log) = Len(n.graph.nodes)
    BY <1>5, <1>11, <1>12
  <2>4. n.at \in {"completed", "ready"} /\ \E T : n.log \in Seq(T)
    BY <1>4, <1>5, <1>12
  <2> QED
    BY <1>2, <1>5, <1>13, <1>14, <2>1, <2>2, <2>3, <2>4 DEF RunFollows
<1> QED
  BY <1>1, <1>15 DEF state, entry, asked

LEMMA PipelineBuilt ==
    ASSUME NEW def \in Definitions, Buildable(def, DOMAIN agents)
    PROVE  GraphOk(BuildAgentPipeline(def))
<1> DEFINE nodes == [i \in DOMAIN def.nodes |-> [id |-> def.nodes[i].id, agent |-> Trim(def.nodes[i].agent)]]
           n == Len(def.nodes)
<1>1. def.nodes \in Seq([id : Seq(STRING), agent : Seq(STRING)])
  BY ControlAssumption
<1>2. DOMAIN def.nodes = 1 .. n /\ n \in Nat /\ \A i \in 1 .. n : def.nodes[i] \in [id : Seq(STRING), agent : Seq(STRING)]
  BY <1>1, LenProperties, ElementOfSeq
<1>3. n # 0
  BY <1>1, EmptySeq, LenProperties DEF Buildable
<1>4. \A i \in 1 .. n : \A j \in 1 .. i - 1 : def.nodes[j].id # def.nodes[i].id
  BY <1>2 DEF Buildable, ValidNode
<1>5. \A i, j \in 1 .. n : def.nodes[i].id = def.nodes[j].id => i = j
  <2> SUFFICES ASSUME NEW i \in 1 .. n, NEW j \in 1 .. n, def.nodes[i].id = def.nodes[j].id, i # j PROVE FALSE
    OBVIOUS
  <2>1. CASE i < j
    BY <1>2, <1>4, <2>1
  <2>2. CASE j < i
    BY <1>2, <1>4, <2>2
  <2> QED
    BY <1>2, <2>1, <2>2
<1>6. Len(nodes) = n /\ DOMAIN nodes = 1 .. n
  <2> DEFINE S == {nodes[i] : i \in 1 .. n}
  <2>1. DOMAIN nodes = 1 .. n
    BY <1>2
  <2>2. nodes \in [1 .. n -> S]
    BY <1>2
  <2> HIDE DEF S, nodes
  <2>3. nodes \in Seq(S)
    <3>1. Seq(S) = UNION {[1 .. m -> S] : m \in Nat}
      BY SeqDef
    <3>2. n \in Nat
      BY <1>2
    <3> HIDE DEF n
    <3> QED
      BY <2>2, <3>1, <3>2
  <2> QED
    BY <1>2, <2>1, <2>3, LenProperties
<1>7. \A i \in 1 .. n : nodes[i].id = def.nodes[i].id /\ def.nodes[i].id \in Seq(STRING)
  BY <1>2
<1> DEFINE g == [owner |-> "studio", input |-> def.input, output |-> def.output, nodes |-> nodes]
<1>8. BuildAgentPipeline(def) = g /\ g.nodes = nodes
  BY DEF BuildAgentPipeline
<1> HIDE DEF g, nodes, n
<1> QED
  BY <1>2, <1>3, <1>5, <1>6, <1>7, <1>8 DEF GraphOk

LEMMA GraphFound ==
    ASSUME PipelineInv, NEW id, NEW found \in LookupGraph(id)
    PROVE  GraphOk(found.graph)
<1>1. CASE id \in DOMAIN graphs
  BY <1>1 DEF LookupGraph, PipelineInv
<1>2. CASE id \notin DOMAIN graphs
  <2>1. found.graph = OwnGraph
    BY <1>2 DEF LookupGraph
  <2> QED
    BY <2>1 DEF OwnGraph, GraphOk
<1> QED
  BY <1>1, <1>2

LEMMA CallOk ==
    ASSUME NEW a
    PROVE  GraphOk(AgentCall(a).graph)
BY DEF AgentCall, OwnGraph, GraphOk

(* One run goes on and everything else stays, or one begins or is reported.  *)
LEMMA OneRun ==
    ASSUME RequestInv, PipelineInv, NEW s \in Clients \cup Sockets, NEW r, RunFollows(r), runs' = [runs EXCEPT ![s] = r],
           UNCHANGED <<graphs, answer>>,
           \A c \in Clients : asking'[c] = asking[c] \/ asking'[c].at # "register"
    PROVE  PipelineInv'
<1>1. \A t \in Clients \cup Sockets : RunFollows(runs[t])'
  <2>1. \A t \in Clients \cup Sockets : runs'[t] = IF t = s THEN r ELSE runs[t]
    BY DEF RequestInv
  <2> QED
    <3> SUFFICES ASSUME NEW t \in Clients \cup Sockets PROVE RunFollows(runs[t])'
      OBVIOUS
    <3>1. RunFollows(runs'[t])
      BY <2>1 DEF PipelineInv
    <3> QED
      BY <3>1 DEF RunFollows, GraphOk, LogFollows, PassedOn
<1>2. PipelinesFollowDefinition'
  BY DEF PipelineInv, PipelinesFollowDefinition
<1> QED
  BY <1>1, <1>2 DEF PipelineInv

LEMMA AnswerFollows ==
    ASSUME NEW r, RunFollows(r), r.at # "none", Ended(r), Status(r) = "completed", r.graph.owner = "studio"
    PROVE  /\ Len(r.log) = Len(r.graph.nodes)
           /\ \A i \in DOMAIN r.log :
                 /\ r.log[i].node = r.graph.nodes[i].id
                 /\ r.log[i].asked = (IF i = 1 THEN PipelineInput(r.given) ELSE r.log[i - 1].reply)
                 /\ r.state[OutputOf(r.log[i].node)] = Text(r.log[i].reply)
           /\ r.state[LastOutput] = Text(r.log[Len(r.log)].reply)
           /\ ValidateValues(r.graph.output, r.state)
<1>1. r.at = "completed" /\ ValidateValues(r.graph.output, r.state)
  BY DEF Ended, Status
<1>2. /\ Len(r.log) = Len(r.graph.nodes) /\ Len(r.graph.nodes) \in Nat \ {0}
      /\ LogFollows(r) /\ PassedOn(r) /\ \E S : r.log \in Seq(S)
  BY <1>1 DEF RunFollows, GraphOk
<1>3. DOMAIN r.log = 1 .. Len(r.log)
  BY <1>2, LenProperties
<1> QED
  BY <1>1, <1>2, <1>3 DEF LogFollows, PassedOn

LEMMA PipelinesKept == RequestInv /\ PipelineInv /\ [ControlNext]_controlVars => PipelineInv'
<1> SUFFICES ASSUME RequestInv, PipelineInv, [ControlNext]_controlVars PROVE PipelineInv'
  OBVIOUS
<1>0. DOMAIN asking = Clients /\ DOMAIN runs = Clients \cup Sockets
  BY DEF RequestInv
<1>a. RunFollows(NoRun) /\ NoRequest.at = "idle"
  BY DEF RunFollows, NoRun, NoRequest
<1>1. ASSUME \A id \in DOMAIN graphs' : GraphOk(graphs'[id].graph), UNCHANGED <<runs, answer>>,
             \A c \in Clients : \/ asking'[c] = asking[c] \/ asking'[c].at # "register" \/ GraphOk(asking'[c].graph)
      PROVE  PipelineInv'
  <2>1. \A s \in Clients \cup Sockets : RunFollows(runs[s])'
    BY <1>1 DEF PipelineInv, RunFollows, GraphOk, LogFollows, PassedOn
  <2>2. PipelinesFollowDefinition'
    BY <1>1 DEF PipelineInv, PipelinesFollowDefinition
  <2>3. \A c \in Clients : asking'[c].at = "register" => GraphOk(asking'[c].graph)
    BY <1>1 DEF PipelineInv
  <2> QED
    BY <1>1, <2>1, <2>2, <2>3 DEF PipelineInv, GraphOk
<1>2. ASSUME UNCHANGED <<graphs, asking, runs, answer>> PROVE PipelineInv'
  BY <1>1, <1>2 DEF PipelineInv
<1>3. ASSUME NEW id, NEW object, Register(id, object), GraphOk(object.graph)
      PROVE  \A k \in DOMAIN graphs' : GraphOk(graphs'[k].graph)
  <2>1. \A k \in DOMAIN graphs' : graphs'[k] = IF k = id THEN object ELSE graphs[k]
    BY <1>3 DEF Register, With
  <2>2. \A k \in DOMAIN graphs' : k = id \/ k \in DOMAIN graphs
    BY <1>3 DEF Register, With
  <2> QED
    BY <1>3, <2>1, <2>2 DEF PipelineInv
<1>4. ASSUME NEW c \in Clients, CreatePipeline(c) PROVE PipelineInv'
  <2>1. PICK def \in Definitions :
          asking' = [asking EXCEPT ![c] = IF Buildable(def, DOMAIN agents)
                                  THEN [at |-> "register", id |-> def.id, graph |-> BuildAgentPipeline(def), obj |-> <<made'>>]
                                  ELSE NoRequest]
    BY <1>4 DEF CreatePipeline
  <2> DEFINE q == IF Buildable(def, DOMAIN agents)
                  THEN [at |-> "register", id |-> def.id, graph |-> BuildAgentPipeline(def), obj |-> <<made'>>]
                  ELSE NoRequest
  <2>2. asking' = [asking EXCEPT ![c] = q] /\ UNCHANGED <<graphs, runs, answer>>
    BY <1>4, <2>1 DEF CreatePipeline, registries
  <2>3. q.at # "register" \/ GraphOk(q.graph)
    BY <1>a, PipelineBuilt
  <2> HIDE DEF q
  <2>4. \A d \in Clients : asking'[d] = asking[d] \/ asking'[d].at # "register" \/ GraphOk(asking'[d].graph)
    BY <1>0, <2>2, <2>3
  <2> QED
    BY <1>1, <2>2, <2>4 DEF PipelineInv
<1>5. ASSUME NEW c \in Clients, DeletePipeline(c) PROVE PipelineInv'
  <2>1. PICK id \in Paths :
          asking' = [asking EXCEPT ![c] = IF id \in DOMAIN graphs /\ graphs[id].graph.owner = "studio"
                                  THEN [at |-> "unregister", id |-> id] ELSE NoRequest]
    BY <1>5 DEF DeletePipeline
  <2> DEFINE q == IF id \in DOMAIN graphs /\ graphs[id].graph.owner = "studio"
                  THEN [at |-> "unregister", id |-> id] ELSE NoRequest
  <2>2. asking' = [asking EXCEPT ![c] = q] /\ UNCHANGED <<graphs, runs, answer>>
    BY <1>5, <2>1 DEF DeletePipeline, registries
  <2>3. q.at # "register"
    BY <1>a
  <2> HIDE DEF q
  <2>4. \A d \in Clients : asking'[d] = asking[d] \/ asking'[d].at # "register"
    BY <1>0, <2>2, <2>3
  <2> QED
    BY <1>1, <2>2, <2>4 DEF PipelineInv
<1>6. ASSUME NEW c \in Clients, asking' = [asking EXCEPT ![c] = NoRequest], UNCHANGED <<runs, answer>>,
             \A id \in DOMAIN graphs' : GraphOk(graphs'[id].graph)
      PROVE  PipelineInv'
  <2>1. \A d \in Clients : asking'[d] = asking[d] \/ asking'[d].at # "register"
    BY <1>0, <1>6, <1>a
  <2> QED
    BY <1>1, <1>6, <2>1
<1>7. ASSUME NEW c \in Clients, RegisterPipeline(c) PROVE PipelineInv'
  <2>1. /\ asking[c].at = "register" /\ asking' = [asking EXCEPT ![c] = NoRequest] /\ UNCHANGED <<runs, answer>>
        /\ Register(asking[c].id, [obj |-> asking[c].obj, graph |-> asking[c].graph])
    BY <1>7 DEF RegisterPipeline
  <2> DEFINE object == [obj |-> asking[c].obj, graph |-> asking[c].graph]
  <2>2. Register(asking[c].id, object) /\ GraphOk(object.graph)
    BY <2>1 DEF PipelineInv
  <2> HIDE DEF object
  <2> QED
    BY <1>3, <1>6, <2>1, <2>2
<1>8. ASSUME NEW c \in Clients, UnregisterPipeline(c) PROVE PipelineInv'
  <2>1. asking' = [asking EXCEPT ![c] = NoRequest] /\ UNCHANGED <<runs, answer>> /\ graphs' = Without(graphs, asking[c].id)
    BY <1>8 DEF UnregisterPipeline
  <2>2. \A id \in DOMAIN graphs' : GraphOk(graphs'[id].graph)
    BY <2>1 DEF Without, PipelineInv
  <2> QED
    BY <1>6, <2>1, <2>2
<1>9. ASSUME AppRegisters PROVE PipelineInv'
  <2> DEFINE object == [obj |-> <<made'>>, graph |-> AppGraph]
  <2>1. Register(AppId, object) /\ UNCHANGED <<asking, runs, answer>>
    BY <1>9 DEF AppRegisters
  <2>2. GraphOk(object.graph)
    BY ControlAssumption DEF GraphOk
  <2> HIDE DEF object
  <2> QED
    BY <1>1, <1>3, <2>1, <2>2
<1>10. ASSUME NEW s \in Clients \cup Sockets, NEW found, GraphOk(found.graph), NEW body, NEW at \in {"ready", "calling"},
              runs' = [runs EXCEPT ![s] = NewRun(found, body, at)], UNCHANGED <<graphs, answer>>,
              \A c \in Clients : asking'[c] = asking[c] \/ asking'[c].at # "register"
       PROVE  PipelineInv'
  BY <1>10, RunStarts, OneRun
<1>11. ASSUME NEW c \in Clients, asking' = [asking EXCEPT ![c] = [at |-> "running", live |-> TRUE]]
       PROVE  \A d \in Clients : asking'[d] = asking[d] \/ asking'[d].at # "register"
  BY <1>0, <1>11
<1>12. ASSUME NEW c \in Clients, ExecuteGraph(c) PROVE PipelineInv'
  <2>1. PICK id \in Paths, body \in Bodies : \E found \in LookupGraph(id) :
             IF ValidateValues(found.graph.input, Checked(body)) \/ found.graph.owner # "studio"
             THEN /\ runs' = [runs EXCEPT ![c] = NewRun(found, body, "ready")]
                  /\ asking' = [asking EXCEPT ![c] = [at |-> "running", live |-> TRUE]]
             ELSE UNCHANGED <<runs, asking>>
    BY <1>12 DEF ExecuteGraph
  <2>2. PICK found \in LookupGraph(id) :
             IF ValidateValues(found.graph.input, Checked(body)) \/ found.graph.owner # "studio"
             THEN /\ runs' = [runs EXCEPT ![c] = NewRun(found, body, "ready")]
                  /\ asking' = [asking EXCEPT ![c] = [at |-> "running", live |-> TRUE]]
             ELSE UNCHANGED <<runs, asking>>
    BY <2>1
  <2>3. UNCHANGED <<graphs, answer>> /\ GraphOk(found.graph)
    BY <1>12, GraphFound DEF ExecuteGraph, registries
  <2>4. CASE UNCHANGED <<runs, asking>>
    BY <1>2, <2>3, <2>4
  <2>5. CASE /\ runs' = [runs EXCEPT ![c] = NewRun(found, body, "ready")]
             /\ asking' = [asking EXCEPT ![c] = [at |-> "running", live |-> TRUE]]
    BY <1>10, <1>11, <2>3, <2>5
  <2> QED
    BY <2>2, <2>4, <2>5
<1>13. ASSUME NEW c \in Clients, ExecuteAgent(c) PROVE PipelineInv'
  <2>1. PICK a, body : runs' = [runs EXCEPT ![c] = NewRun(AgentCall(a), body, "calling")]
    BY <1>13 DEF ExecuteAgent
  <2>2. UNCHANGED <<graphs, answer>> /\ asking' = [asking EXCEPT ![c] = [at |-> "running", live |-> TRUE]]
    BY <1>13 DEF ExecuteAgent, registries
  <2> QED
    BY <1>10, <1>11, <2>1, <2>2, CallOk
<1>14. ASSUME NEW s \in Clients \cup Sockets, NEW at, Advance(s, [runs[s] EXCEPT !.at = at]), runs[s].at # "none",
              at \in {"calling", "failed", "interrupted", "canceled"}, at = "calling" => runs[s].at = "ready"
       PROVE  PipelineInv'
  <2>1. RunFollows([runs[s] EXCEPT !.at = at])
    BY <1>14, RunChanges DEF PipelineInv
  <2> QED
    BY <1>14, <2>1, OneRun DEF Advance, registries
<1>15. ASSUME NEW s \in Clients \cup Sockets, NodeEnds(s) PROVE PipelineInv'
  <2> DEFINE r == runs[s]
             now == r.graph.nodes[r.next]
             asked == PipelineInput(r.state)
             reply == asked \o now.agent
  <2>1. r.at = "calling" /\ RunFollows(r)
    BY <1>15 DEF NodeEnds, PipelineInv
  <2>2. CASE /\ r.graph.owner = "studio"
             /\ Advance(s, AfterNode(r, NodeUpdate(now.id, r.state, reply),
                                     [node |-> now.id, asked |-> asked, reply |-> reply]))
    <3> DEFINE n == AfterNode(r, NodeUpdate(now.id, r.state, reply), [node |-> now.id, asked |-> asked, reply |-> reply])
    <3>1. RunFollows(n)
      <4> HIDE DEF reply
      <4> QED
        BY <2>1, <2>2, NodeCompletes
    <3>2. Advance(s, n)
      BY <2>2
    <3> HIDE DEF n
    <3> QED
      BY <3>1, <3>2, OneRun DEF Advance, registries
  <2>3. CASE /\ r.graph.owner # "studio"
             /\ Advance(s, AfterNode(r, r.state, [node |-> now.id, asked |-> asked, reply |-> reply]))
    <3> DEFINE entry == [node |-> now.id, asked |-> asked, reply |-> reply]
               n == AfterNode(r, r.state, entry)
    <3>1. /\ {"at", "graph", "state", "given", "next", "log"} \subseteq DOMAIN n
          /\ n.graph = r.graph
      <4> HIDE DEF entry
      <4> QED
        BY <2>1 DEF AfterNode, RunFollows
    <3>2. RunFollows(n)
      <4> HIDE DEF n
      <4> QED
        BY <2>3, <3>1 DEF RunFollows, GraphOk
    <3>3. Advance(s, n)
      BY <2>3
    <3> HIDE DEF n
    <3> QED
      BY <3>2, <3>3, OneRun DEF Advance, registries
  <2>4. CASE Advance(s, [r EXCEPT !.at = "interrupted"]) \/ Advance(s, [r EXCEPT !.at = "failed"])
    BY <1>14, <2>1, <2>4
  <2> QED
    BY <1>15, <2>2, <2>3, <2>4 DEF NodeEnds
<1>16. ASSUME NEW s \in Clients \cup Sockets, RunStep(s) PROVE PipelineInv'
  <2>1. ASSUME StartNode(s) PROVE PipelineInv'
    <3> DEFINE at == IF runs[s].graph.owner = "studio" /\ runs[s].graph.nodes[runs[s].next].agent \notin DOMAIN agents
                     THEN "failed" ELSE "calling"
    <3>1. runs[s].at = "ready" /\ Advance(s, [runs[s] EXCEPT !.at = at]) /\ at \in {"failed", "calling"}
      BY <2>1 DEF StartNode
    <3> HIDE DEF at
    <3> QED
      BY <1>14, <3>1
  <2>2. ASSUME RunCanceled(s) PROVE PipelineInv'
    BY <1>14, <2>2 DEF RunCanceled, Ended
  <2> QED
    BY <1>15, <1>16, <2>1, <2>2 DEF RunStep
<1>17. ASSUME NEW obj, runs' = Stopped(obj), UNCHANGED <<graphs, asking, answer>> PROVE PipelineInv'
  <2>1. \A s \in Clients \cup Sockets :
            runs'[s] = runs[s] \/ (runs[s].at \in {"ready", "calling"} /\ runs'[s] = [runs[s] EXCEPT !.at = "canceled"])
    BY <1>0, <1>17 DEF Stopped, Signalled
  <2>2. \A s \in Clients \cup Sockets : RunFollows(runs'[s])
    <3> SUFFICES ASSUME NEW s \in Clients \cup Sockets PROVE RunFollows(runs'[s])
      OBVIOUS
    <3>1. CASE runs'[s] = runs[s]
      BY <3>1 DEF PipelineInv
    <3>2. CASE runs[s].at \in {"ready", "calling"} /\ runs'[s] = [runs[s] EXCEPT !.at = "canceled"]
      BY <3>2, RunChanges DEF PipelineInv
    <3> QED
      BY <2>1, <3>1, <3>2
  <2>3. PipelinesFollowDefinition'
    BY <1>17 DEF PipelineInv, PipelinesFollowDefinition
  <2>4. \A s \in Clients \cup Sockets : RunFollows(runs[s])'
    BY <2>2 DEF RunFollows, GraphOk, LogFollows, PassedOn
  <2> QED
    BY <1>17, <2>3, <2>4 DEF PipelineInv, GraphOk
<1>18. ASSUME NEW c \in Clients, Answer(c) PROVE PipelineInv'
  <2>1. /\ asking[c].at = "running" /\ Ended(runs[c]) /\ answer' = [at |-> Status(runs[c]), run |-> runs[c]]
        /\ asking' = [asking EXCEPT ![c] = NoRequest] /\ runs' = [runs EXCEPT ![c] = NoRun] /\ graphs' = graphs
    BY <1>18 DEF Answer, registries
  <2>2. runs[c].at # "none" /\ RunFollows(runs[c])
    BY <2>1 DEF RequestInv, PipelineInv
  <2>3. answer'.at = Status(runs[c]) /\ answer'.run = runs[c]
    BY <2>1
  <2>4. PipelinesFollowDefinition'
    BY <2>1, <2>2, <2>3, AnswerFollows DEF PipelinesFollowDefinition
  <2>5. \A s \in Clients \cup Sockets : runs'[s] = IF s = c THEN NoRun ELSE runs[s]
    BY <1>0, <2>1
  <2>6. \A s \in Clients \cup Sockets : RunFollows(runs'[s])
    BY <1>a, <2>5 DEF PipelineInv
  <2>7. \A s \in Clients \cup Sockets : RunFollows(runs[s])'
    BY <2>6 DEF RunFollows, GraphOk, LogFollows, PassedOn
  <2>8. \A d \in Clients : asking'[d] = asking[d] \/ asking'[d] = NoRequest
    BY <1>0, <2>1
  <2>9. NoRequest.at # "register"
    BY DEF NoRequest
  <2>10. ASSUME NEW d \in Clients, asking'[d].at = "register" PROVE GraphOk(asking'[d].graph)
    BY <2>8, <2>9, <2>10 DEF PipelineInv
  <2>11. \A d \in Clients : asking'[d].at = "register" => GraphOk(asking[d].graph)'
    BY <2>10 DEF GraphOk
  <2>12. (\A id \in DOMAIN graphs : GraphOk(graphs[id].graph))'
    BY <2>1 DEF PipelineInv, GraphOk
  <2> QED
    BY <2>4, <2>7, <2>11, <2>12 DEF PipelineInv
<1>19. ASSUME NEW c \in Clients, ClientLeaves(c) PROVE PipelineInv'
  <2>1. asking[c].at = "running" /\ asking' = [asking EXCEPT ![c].live = FALSE] /\ UNCHANGED <<graphs, runs, answer>>
    BY <1>19 DEF ClientLeaves, registries
  <2>2. \A d \in Clients : asking'[d] = asking[d] \/ asking'[d].at # "register"
    BY <1>0, <2>1 DEF RequestInv
  <2> QED
    BY <1>1, <2>1, <2>2 DEF PipelineInv
<1>20. ASSUME NEW s \in Sockets, SocketExecutes(s) PROVE PipelineInv'
  <2>1. UNCHANGED <<graphs, asking, answer>>
    BY <1>20 DEF SocketExecutes, registries
  <2>2. \/ \E body : \E found \in LookupGraph(socket[s].id) : runs' = [runs EXCEPT ![s] = NewRun(found, body, "ready")]
        \/ \E body : runs' = [runs EXCEPT ![s] = NewRun(AgentCall(socket[s].id), body, "calling")]
    BY <1>20 DEF SocketExecutes
  <2> QED
    BY <1>10, <2>1, <2>2, GraphFound, CallOk
<1>21. ASSUME NEW s \in Sockets, RunReported(s) PROVE PipelineInv'
  <2> DEFINE r == NoRun
  <2>1. runs' = [runs EXCEPT ![s] = r] /\ UNCHANGED <<graphs, asking, answer>> /\ RunFollows(r)
    BY <1>21, <1>a DEF RunReported, registries
  <2> HIDE DEF r
  <2> QED
    BY <2>1, OneRun
<1>22. ASSUME NEW c \in Clients, ClientStep(c) PROVE PipelineInv'
  <2>1. ASSUME CreateAgent(c) \/ DeleteAgent(c) PROVE PipelineInv'
    BY <1>2, <2>1 DEF CreateAgent, DeleteAgent
  <2>2. ASSUME InterruptGraph(c) PROVE PipelineInv'
    BY <1>17, <2>2 DEF InterruptGraph, registries
  <2> QED
    BY <1>22, <1>4, <1>5, <1>7, <1>8, <1>12, <1>13, <1>18, <1>19, <2>1, <2>2 DEF ClientStep
<1>23. ASSUME NEW s \in Sockets, SocketStep(s) PROVE PipelineInv'
  <2>1. ASSUME SocketInterrupts(s) PROVE PipelineInv'
    BY <1>17, <2>1 DEF SocketInterrupts, registries
  <2>2. ASSUME Upgrade(s) \/ RegisterWSConn(s) \/ SocketBreaks(s) \/ ReadFails(s) \/ UnregisterWSConn(s) PROVE PipelineInv'
    BY <1>2, <2>2 DEF Upgrade, RegisterWSConn, SocketBreaks, ReadFails, UnregisterWSConn, registries
  <2> QED
    BY <1>23, <1>20, <1>21, <2>1, <2>2 DEF SocketStep
<1>24. ASSUME ReplaceAgents \/ Sweep \/ Shutdown \/ UNCHANGED controlVars PROVE PipelineInv'
  BY <1>2, <1>24 DEF ReplaceAgents, Sweep, Shutdown, registries, controlVars
<1> QED
  BY <1>9, <1>16, <1>22, <1>23, <1>24 DEF ControlNext

LEMMA ControlStarts == ControlInit => SocketInv /\ RequestInv /\ ListInv /\ PipelineInv
<1> SUFFICES ASSUME ControlInit PROVE SocketInv /\ RequestInv /\ ListInv /\ PipelineInv
  OBVIOUS
<1>1. /\ socket = [s \in Sockets |-> Unused] /\ wsConnections = <<>> /\ late = {} /\ server = "serving"
      /\ asking = [c \in Clients |-> NoRequest] /\ runs = [s \in Clients \union Sockets |-> NoRun] /\ answer = NoRun
  BY DEF ControlInit
<1>2. SocketInv
  BY <1>1 DEF SocketInv, SocketsAreTracked, Unused
<1>3. RequestInv
  BY <1>1 DEF RequestInv, NoRequest, NoRun
<1>4. \A id \in DOMAIN graphs : graphs[id].graph = AppGraph /\ id = AppId
  BY DEF ControlInit, With
<1>5. PipelineInv
  BY <1>1, <1>4, ControlAssumption
     DEF PipelineInv, GraphOk, RunFollows, PipelinesFollowDefinition, NoRequest, NoRun
<1>6. ListInv
  <2>1. CASE graphs = <<>>
    BY <2>1, EmptySeq DEF ControlInit, ListInv, GraphsAreListedOnce
  <2>2. CASE graphs # <<>>
    <3>1. DOMAIN graphs = {AppId} /\ order = <<AppId>>
      BY <2>2 DEF ControlInit, With
    <3>2. order \in Seq({AppId}) /\ DOMAIN order = {1} /\ order[1] = AppId
      BY <3>1
    <3> QED
      BY <3>1, <3>2 DEF ListInv, GraphsAreListedOnce
  <2> QED
    BY <2>1, <2>2
<1> QED
  BY <1>2, <1>3, <1>5, <1>6

(* server.go, graph_api.go, pipeline_api.go: whatever clients, sockets, the  *)
(* application and a shutdown do at the same time, a pipeline answered as    *)
(* completed went through the agents of its definition, the list names each  *)
(* registered graph once, and every live socket is known to the server until *)
(* it is swept, but those that register after the sweep.                     *)
THEOREM ControlHolds == ControlSpec => []ControlIsSound
<1> DEFINE ControlInv == SocketInv /\ RequestInv /\ ListInv /\ PipelineInv
<1>1. ControlInv /\ [ControlNext]_controlVars => ControlInv'
  BY SocketsKept, RequestsKept, ListKept, PipelinesKept
<1>2. ControlInv => ControlIsSound
  <2> SUFFICES ASSUME ControlInv PROVE ControlIsSound
    OBVIOUS
  <2>1. StopLeavesNothing
    BY DEF SocketInv, RequestInv, StopLeavesNothing, NoRequest
  <2> QED
    BY <2>1 DEF ControlIsSound, GraphsAreKept, ConnectionsAreKnown, ListInv, PipelineInv, SocketInv
<1>3. ControlInit => ControlInv
  BY ControlStarts
<1> HIDE DEF ControlInv
<1> QED
  BY <1>1, <1>2, <1>3, PTL DEF ControlSpec


-------------------------------------------------------------------------------
(* The generated server, for any number of clients, agents and registrations. *)
CONSTANTS Ids, Sorted, Groups, Starters
VARIABLES definitions, instances, routes, layers, todo, stored, started, starter,
          requestCount, metrics, handling, allowed, served

Generated == INSTANCE AutoServing WITH pc <- handling, left <- allowed

(* The executions of an agent that ended and are not in its metrics yet: of   *)
(* its requests, of its errors, and of its errors alone.                      *)
Uncounted(id) == {c \in Clients : handling[c].at = "record" /\ handling[c].id = id}
Unfailed(id) == {c \in Clients : handling[c].at \in {"record", "recordError"} /\ handling[c].id = id /\ handling[c].failed}
HalfCounted(id) == {c \in Clients : handling[c].at = "recordError" /\ handling[c].id = id /\ handling[c].failed}

Handling(it) ==
    \/ it = Generated!Idle
    \/ it \in [id : Ids, streamed : BOOLEAN, failed : BOOLEAN, at : {"executing", "record", "recordError", "done"}]

Counters == [requests : Nat, errors : Nat]

AutoTyped ==
    /\ handling = [c \in Clients |-> handling[c]] /\ \A c \in Clients : Handling(handling[c])
    /\ metrics \in [Ids -> Counters]
    /\ served = [received |-> served.received, ended |-> served.ended, failed |-> served.failed]
    /\ served.ended \in [Ids -> Nat] /\ served.failed \in [Ids -> Nat]

(* What ended and what the metrics say of an agent differ by the calls of    *)
(* recordAgentExecution that are still under way.                            *)
Books(id) ==
    /\ served.ended[id] = metrics[id].requests + Cardinality(Uncounted(id))
    /\ served.failed[id] = metrics[id].errors + Cardinality(Unfailed(id))
    /\ metrics[id].errors + Cardinality(HalfCounted(id)) <= metrics[id].requests

(* An agent gets its routes after it is stored, by whichever call.           *)
AgentsFirst ==
    /\ routes \subseteq instances
    /\ stored = [s \in Starters |-> stored[s]] /\ \A s \in Starters : stored[s] \subseteq instances

AutoInv ==
    /\ IsFiniteSet(Clients) /\ AutoTyped
    /\ AgentsFirst
    /\ \A id \in Ids : Books(id)

LEMMA SetsAreFinite ==
    ASSUME IsFiniteSet(Clients), NEW id
    PROVE  /\ IsFiniteSet(Uncounted(id)) /\ IsFiniteSet(Unfailed(id)) /\ IsFiniteSet(HalfCounted(id))
           /\ Cardinality(Uncounted(id)) \in Nat /\ Cardinality(Unfailed(id)) \in Nat
           /\ Cardinality(HalfCounted(id)) \in Nat
<1>1. Uncounted(id) \in SUBSET Clients /\ Unfailed(id) \in SUBSET Clients /\ HalfCounted(id) \in SUBSET Clients
  BY DEF Uncounted, Unfailed, HalfCounted
<1>2. IsFiniteSet(Uncounted(id)) /\ IsFiniteSet(Unfailed(id)) /\ IsFiniteSet(HalfCounted(id))
  BY <1>1, FS_Subset
<1> QED
  BY <1>2, FS_CardinalityType

(* A member more, or one less. *)
LEMMA OneMore ==
    ASSUME NEW S, IsFiniteSet(S), NEW x, x \notin S, NEW T, \A y : y \in T <=> y \in S \/ y = x
    PROVE  Cardinality(T) = Cardinality(S) + 1
<1>1. T = S \union {x}
  OBVIOUS
<1> QED
  BY <1>1, FS_AddElement

LEMMA OneLess ==
    ASSUME NEW S, IsFiniteSet(S), NEW x \in S, NEW T, \A y : y \in T <=> y \in S /\ y # x
    PROVE  Cardinality(T) = Cardinality(S) - 1
<1>1. T = S \ {x}
  OBVIOUS
<1> QED
  BY <1>1, FS_RemoveElement

(* A client's step that is not about the metrics. *)
LEMMA BooksStay ==
    ASSUME AutoInv, NEW c \in Clients, NEW it, Handling(it), handling' = [handling EXCEPT ![c] = it],
           ~(it.at \in {"record", "recordError"}), ~(handling[c].at \in {"record", "recordError"}),
           UNCHANGED <<metrics, served.ended, served.failed>>,
           served' = [received |-> served'.received, ended |-> served'.ended, failed |-> served'.failed]
    PROVE  AutoTyped' /\ \A id \in Ids : Books(id)'
<1>1. AutoTyped
  BY DEF AutoInv
<1>2. handling'[c] = it /\ handling' = [d \in Clients |-> handling'[d]] /\ \A d \in Clients \ {c} : handling'[d] = handling[d]
  BY <1>1 DEF AutoTyped
<1>3. AutoTyped'
  BY <1>1, <1>2 DEF AutoTyped, Handling, Generated!Idle
<1>4. ASSUME NEW id \in Ids PROVE Books(id)'
  <2>1. Uncounted(id)' = Uncounted(id) /\ Unfailed(id)' = Unfailed(id) /\ HalfCounted(id)' = HalfCounted(id)
    BY <1>2 DEF Uncounted, Unfailed, HalfCounted
  <2>2. Books(id)
    BY DEF AutoInv
  <2> QED
    BY <2>1, <2>2 DEF Books
<1> QED
  BY <1>3, <1>4

LEMMA ExecutedKept ==
    ASSUME AutoInv, NEW c \in Clients, Generated!Executed(c)
    PROVE  AutoTyped' /\ \A id \in Ids : Books(id)'
<1> DEFINE own == handling[c].id
<1>1. AutoTyped /\ handling[c].at = "executing" /\ metrics' = metrics /\ IsFiniteSet(Clients)
  BY DEF AutoInv, Generated!Executed
<1>2. PICK failed \in BOOLEAN :
          /\ handling' = [handling EXCEPT ![c].at = "record", ![c].failed = failed]
          /\ served' = [served EXCEPT !.ended[own] = @ + 1, !.failed[own] = @ + (IF failed THEN 1 ELSE 0)]
  BY DEF Generated!Executed
<1>3. handling[c] \in [id : Ids, streamed : BOOLEAN, failed : BOOLEAN, at : {"executing", "record", "recordError", "done"}]
  BY <1>1 DEF AutoTyped, Handling, Generated!Idle
<1>4. own \in Ids
  BY <1>3
<1> DEFINE it == [handling[c] EXCEPT !.at = "record", !.failed = failed]
<1>5. handling' = [handling EXCEPT ![c] = it]
  BY <1>1, <1>2 DEF AutoTyped
<1>6. it \in [id : Ids, streamed : BOOLEAN, failed : BOOLEAN, at : {"executing", "record", "recordError", "done"}]
      /\ it.at = "record" /\ it.failed = failed /\ it.id = own
  BY <1>3
<1> HIDE DEF it
<1>7. handling'[c] = it /\ handling' = [d \in Clients |-> handling'[d]] /\ \A d \in Clients \ {c} : handling'[d] = handling[d]
  BY <1>1, <1>5 DEF AutoTyped
<1>8. /\ served'.ended = [served.ended EXCEPT ![own] = @ + 1]
      /\ served'.failed = [served.failed EXCEPT ![own] = @ + (IF failed THEN 1 ELSE 0)]
      /\ served' = [received |-> served.received, ended |-> served'.ended, failed |-> served'.failed]
  BY <1>1, <1>2 DEF AutoTyped
<1>9. /\ served'.ended \in [Ids -> Nat] /\ served'.ended[own] = served.ended[own] + 1
      /\ \A id \in Ids \ {own} : served'.ended[id] = served.ended[id] /\ served'.failed[id] = served.failed[id]
      /\ served'.failed \in [Ids -> Nat]
      /\ served'.failed[own] = served.failed[own] + (IF failed THEN 1 ELSE 0)
  BY <1>1, <1>4, <1>8 DEF AutoTyped
<1>10. AutoTyped'
  <2>1. \A d \in Clients : Handling(handling[d])'
    BY <1>1, <1>6, <1>7 DEF AutoTyped, Handling
  <2> QED
    BY <1>1, <1>7, <1>8, <1>9, <2>1 DEF AutoTyped
<1>11. ASSUME NEW id \in Ids PROVE Books(id)'
  <2>1. Books(id)
    BY DEF AutoInv
  <2>2. HalfCounted(id)' = HalfCounted(id)
    BY <1>1, <1>6, <1>7 DEF HalfCounted
  <2>3. CASE id # own
    <3>1. Uncounted(id)' = Uncounted(id) /\ Unfailed(id)' = Unfailed(id)
      BY <1>1, <1>6, <1>7, <2>3 DEF Uncounted, Unfailed
    <3> QED
      BY <1>1, <1>9, <2>1, <2>2, <2>3, <3>1 DEF Books
  <2>4. CASE id = own
    <3>1. Cardinality(Uncounted(id)') = Cardinality(Uncounted(id)) + 1
      <4>1. c \notin Uncounted(id) /\ \A y : y \in Uncounted(id)' <=> y \in Uncounted(id) \/ y = c
        BY <1>1, <1>6, <1>7, <2>4 DEF Uncounted
      <4> QED
        BY <1>1, <4>1, SetsAreFinite, OneMore
    <3>2. Cardinality(Unfailed(id)') = Cardinality(Unfailed(id)) + (IF failed THEN 1 ELSE 0)
      <4>1. CASE failed
        <5>1. c \notin Unfailed(id) /\ \A y : y \in Unfailed(id)' <=> y \in Unfailed(id) \/ y = c
          BY <1>1, <1>6, <1>7, <2>4, <4>1 DEF Unfailed
        <5> QED
          BY <1>1, <4>1, <5>1, SetsAreFinite, OneMore
      <4>2. CASE ~failed
        <5>1. Unfailed(id)' = Unfailed(id)
          BY <1>1, <1>6, <1>7, <2>4, <4>2 DEF Unfailed
        <5> QED
          BY <1>1, <4>2, <5>1, SetsAreFinite
      <4> QED
        BY <4>1, <4>2
    <3>3. /\ metrics[id].requests \in Nat /\ metrics[id].errors \in Nat
          /\ Cardinality(Uncounted(id)) \in Nat /\ Cardinality(Unfailed(id)) \in Nat
      BY <1>1, SetsAreFinite DEF AutoTyped, Counters
    <3>4. served'.failed[id] = metrics'[id].errors + Cardinality(Unfailed(id)')
      BY <1>1, <1>9, <2>1, <2>4, <3>2, <3>3 DEF Books
    <3> QED
      BY <1>1, <1>9, <2>1, <2>2, <2>4, <3>1, <3>3, <3>4 DEF Books
  <2> QED
    BY <2>3, <2>4
<1> QED
  BY <1>10, <1>11

(* The two counts of recordAgentExecution. *)
LEMMA RecordKept ==
    ASSUME AutoInv, NEW c \in Clients, Generated!RecordAgentExecution(c)
    PROVE  AutoTyped' /\ \A id \in Ids : Books(id)'
<1> DEFINE own == handling[c].id
           shape == [id : Ids, streamed : BOOLEAN, failed : BOOLEAN, at : {"executing", "record", "recordError", "done"}]
           first == handling[c].at = "record"
           it == [handling[c] EXCEPT !.at = IF first THEN "recordError" ELSE "done"]
           more == IF handling[c].failed THEN 1 ELSE 0
<1>1. AutoTyped /\ handling[c].at \in {"record", "recordError"} /\ served' = served /\ IsFiniteSet(Clients)
  BY DEF AutoInv, Generated!RecordAgentExecution
<1>2. handling[c] \in shape
  BY <1>1 DEF AutoTyped, Handling, Generated!Idle
<1>3. own \in Ids /\ handling[c].failed \in BOOLEAN
  BY <1>2
<1>4. it \in shape /\ it.at = (IF first THEN "recordError" ELSE "done") /\ it.id = own /\ it.failed = handling[c].failed
  BY <1>2
<1>5. /\ first => Generated!Count(c, 1, "recordError")
      /\ ~first => Generated!Count(c, 2, "done")
  BY DEF Generated!RecordAgentExecution
<1>6. Generated!Counting[1] = "requests" /\ Generated!Counting[2] = "errors"
  BY DEF Generated!Counting
<1>7. first => metrics' = [metrics EXCEPT ![own]["requests"] = @ + 1] /\ handling' = [handling EXCEPT ![c].at = "recordError"]
  BY <1>5, <1>6 DEF Generated!Count
<1>8. ~first => metrics' = [metrics EXCEPT ![own]["errors"] = @ + more] /\ handling' = [handling EXCEPT ![c].at = "done"]
  BY <1>5, <1>6 DEF Generated!Count
<1>9. handling' = [handling EXCEPT ![c] = it]
  BY <1>1, <1>7, <1>8 DEF AutoTyped
<1>10. handling'[c] = it /\ handling' = [d \in Clients |-> handling'[d]] /\ \A d \in Clients \ {c} : handling'[d] = handling[d]
  BY <1>1, <1>9 DEF AutoTyped
<1>11. metrics[own] \in Counters
  BY <1>1, <1>3 DEF AutoTyped
<1>12. /\ metrics' \in [Ids -> Counters] /\ \A id \in Ids \ {own} : metrics'[id] = metrics[id]
       /\ first => metrics'[own].requests = metrics[own].requests + 1 /\ metrics'[own].errors = metrics[own].errors
       /\ ~first => metrics'[own].requests = metrics[own].requests /\ metrics'[own].errors = metrics[own].errors + more
  <2>1. CASE first
    <3>1. metrics' = [metrics EXCEPT ![own] = [requests |-> metrics[own].requests + 1, errors |-> metrics[own].errors]]
      BY <1>1, <1>3, <1>7, <1>11, <2>1 DEF AutoTyped, Counters
    <3>2. [requests |-> metrics[own].requests + 1, errors |-> metrics[own].errors] \in Counters
      BY <1>11 DEF Counters
    <3> QED
      BY <1>1, <1>3, <2>1, <3>1, <3>2 DEF AutoTyped
  <2>2. CASE ~first
    <3>1. metrics' = [metrics EXCEPT ![own] = [requests |-> metrics[own].requests, errors |-> metrics[own].errors + more]]
      BY <1>1, <1>3, <1>8, <1>11, <2>2 DEF AutoTyped, Counters
    <3>2. [requests |-> metrics[own].requests, errors |-> metrics[own].errors + more] \in Counters
      BY <1>11 DEF Counters
    <3> QED
      BY <1>1, <1>3, <2>2, <3>1, <3>2 DEF AutoTyped
  <2> QED
    BY <2>1, <2>2
<1>13. AutoTyped'
  <2>1. \A d \in Clients : Handling(handling[d])'
    BY <1>1, <1>4, <1>10 DEF AutoTyped, Handling
  <2> QED
    BY <1>1, <1>10, <1>12, <2>1 DEF AutoTyped
<1> HIDE DEF it, shape
<1>14. ASSUME NEW id \in Ids PROVE Books(id)'
  <2>1. Books(id)
    BY DEF AutoInv
  <2>2. /\ metrics[id].requests \in Nat /\ metrics[id].errors \in Nat
        /\ Cardinality(Uncounted(id)) \in Nat /\ Cardinality(Unfailed(id)) \in Nat /\ Cardinality(HalfCounted(id)) \in Nat
    BY <1>1, SetsAreFinite DEF AutoTyped, Counters
  <2>3. CASE id # own
    <3>1. Uncounted(id)' = Uncounted(id) /\ Unfailed(id)' = Unfailed(id) /\ HalfCounted(id)' = HalfCounted(id)
      BY <1>4, <1>10, <2>3 DEF Uncounted, Unfailed, HalfCounted
    <3> QED
      BY <1>1, <1>12, <2>1, <2>3, <3>1 DEF Books
  <2>4. CASE id = own /\ first
    <3>1. Cardinality(Uncounted(id)') = Cardinality(Uncounted(id)) - 1
      <4>1. c \in Uncounted(id) /\ \A y : y \in Uncounted(id)' <=> y \in Uncounted(id) /\ y # c
        BY <1>4, <1>10, <2>4 DEF Uncounted
      <4> QED
        BY <1>1, <4>1, SetsAreFinite, OneLess
    <3>2. Unfailed(id)' = Unfailed(id)
      BY <1>4, <1>10, <2>4 DEF Unfailed
    <3>3. Cardinality(HalfCounted(id)') = Cardinality(HalfCounted(id)) + more
      <4>1. CASE handling[c].failed
        <5>1. c \notin HalfCounted(id) /\ \A y : y \in HalfCounted(id)' <=> y \in HalfCounted(id) \/ y = c
          BY <1>4, <1>10, <2>4, <4>1 DEF HalfCounted
        <5> QED
          BY <1>1, <4>1, <5>1, SetsAreFinite, OneMore
      <4>2. CASE ~handling[c].failed
        <5>1. HalfCounted(id)' = HalfCounted(id)
          BY <1>4, <1>10, <2>4, <4>2 DEF HalfCounted
        <5> QED
          BY <2>2, <4>2, <5>1
      <4> QED
        BY <4>1, <4>2
    <3>4. more \in {0, 1}
      OBVIOUS
    <3> HIDE DEF more, own, first
    <3> QED
      <4>1. /\ served.ended[id] = metrics[id].requests + Cardinality(Uncounted(id))
            /\ served.failed[id] = metrics[id].errors + Cardinality(Unfailed(id))
            /\ metrics[id].errors + Cardinality(HalfCounted(id)) <= metrics[id].requests
        BY <2>1 DEF Books
      <4>2. metrics'[id].requests = metrics[id].requests + 1 /\ metrics'[id].errors = metrics[id].errors
        BY <1>12, <2>4
      <4>3. served'.ended[id] = metrics'[id].requests + Cardinality(Uncounted(id)')
        BY <1>1, <2>2, <3>1, <4>1, <4>2
      <4>4. metrics'[id].errors + Cardinality(HalfCounted(id)') <= metrics'[id].requests
        BY <2>2, <3>3, <3>4, <4>1, <4>2
      <4> QED
        BY <1>1, <3>2, <4>1, <4>2, <4>3, <4>4 DEF Books
  <2>5. CASE id = own /\ ~first
    <3>1. Uncounted(id)' = Uncounted(id)
      BY <1>4, <1>10, <2>5 DEF Uncounted
    <3>2. CASE handling[c].failed
      <4>1. Cardinality(Unfailed(id)') = Cardinality(Unfailed(id)) - 1
        <5>1. c \in Unfailed(id) /\ \A y : y \in Unfailed(id)' <=> y \in Unfailed(id) /\ y # c
          BY <1>1, <1>4, <1>10, <2>5, <3>2 DEF Unfailed
        <5> QED
          BY <1>1, <5>1, SetsAreFinite, OneLess
      <4>2. Cardinality(HalfCounted(id)') = Cardinality(HalfCounted(id)) - 1
        <5>1. c \in HalfCounted(id) /\ \A y : y \in HalfCounted(id)' <=> y \in HalfCounted(id) /\ y # c
          BY <1>1, <1>4, <1>10, <2>5, <3>2 DEF HalfCounted
        <5> QED
          BY <1>1, <5>1, SetsAreFinite, OneLess
      <4>3. more = 1
        BY <3>2
      <4> HIDE DEF more, own, first
      <4> QED
        BY <1>1, <1>12, <2>1, <2>2, <2>5, <3>1, <4>1, <4>2, <4>3 DEF Books
    <3>3. CASE ~handling[c].failed
      <4>1. Unfailed(id)' = Unfailed(id) /\ HalfCounted(id)' = HalfCounted(id)
        BY <1>4, <1>10, <2>5, <3>3 DEF Unfailed, HalfCounted
      <4>2. more = 0
        BY <3>3
      <4> HIDE DEF more, own, first
      <4> QED
        BY <1>1, <1>12, <2>1, <2>2, <2>5, <3>1, <4>1, <4>2 DEF Books
    <3> QED
      BY <3>2, <3>3
  <2> QED
    BY <2>3, <2>4, <2>5
<1> QED
  BY <1>13, <1>14

LEMMA AgentsFirstStay == AgentsFirst /\ UNCHANGED <<routes, instances, stored>> => AgentsFirst'
BY DEF AgentsFirst

LEMMA GeneratingKeeps ==
    ASSUME AgentsFirst, NEW s \in Starters, Generated!CreateAgent(s) \/ Generated!RouteAgent(s)
    PROVE  AgentsFirst'
<1>1. CASE Generated!CreateAgent(s)
  <2> DEFINE new == Generated!Creates(Head(todo[s]))
  <2>1. instances' = instances \union new /\ stored' = [stored EXCEPT ![s] = new] /\ routes' = routes
    BY <1>1 DEF Generated!CreateAgent, Generated!Routed
  <2> HIDE DEF new
  <2> QED
    BY <2>1 DEF AgentsFirst
<1>2. CASE Generated!RouteAgent(s)
  <2>1. routes' = routes \union stored[s] /\ stored' = [stored EXCEPT ![s] = {}] /\ instances' = instances
    BY <1>2 DEF Generated!RouteAgent
  <2> QED
    BY <2>1 DEF AgentsFirst
<1> QED
  BY <1>1, <1>2

LEMMA AutoKept == AutoInv /\ [Generated!Next]_(Generated!vars) => AutoInv'
<1> SUFFICES ASSUME AutoInv, [Generated!Next]_(Generated!vars) PROVE AutoInv'
  OBVIOUS
<1>0. AutoTyped /\ IsFiniteSet(Clients) /\ AgentsFirst /\ \A id \in Ids : Books(id)
  BY DEF AutoInv
<1>1. CASE UNCHANGED <<metrics, handling, served>>
  <2>1. AutoTyped'
    BY <1>0, <1>1 DEF AutoTyped, Handling
  <2>2. \A id \in Ids : Books(id)'
    BY <1>0, <1>1 DEF Books, Uncounted, Unfailed, HalfCounted
  <2>3. AgentsFirst'
    <3>1. CASE UNCHANGED <<routes, instances, stored>>
      BY <1>0, <3>1, AgentsFirstStay
    <3>2. CASE \E s \in Starters : Generated!CreateAgent(s) \/ Generated!RouteAgent(s)
      BY <1>0, <3>2, GeneratingKeeps
    <3>3. \/ UNCHANGED <<routes, instances, stored>>
          \/ \E s \in Starters : Generated!CreateAgent(s) \/ Generated!RouteAgent(s)
      <4>1. CASE \E group \in Groups : \/ Generated!RegisterDefinitions(group) \/ Generated!LoadAgentsFromConfig(group)
                                       \/ Generated!LoadFromPlugin(group)
        BY <4>1 DEF Generated!RegisterDefinitions, Generated!LoadAgentsFromConfig, Generated!LoadFromPlugin, Generated!Registering, Generated!router
      <4>2. CASE \E s \in Starters : Generated!GenerateEndpoints(s) \/ Generated!StartLooks(s) \/ Generated!EndpointsGenerated(s)
        BY <4>2 DEF Generated!GenerateEndpoints, Generated!StartLooks, Generated!EndpointsGenerated, Generated!Begin, Generated!router
      <4>3. CASE \E s \in Starters : Generated!StartMarks(s) \/ Generated!Bind(s) \/ Generated!Stop(s)
        BY <4>3 DEF Generated!StartMarks, Generated!Bind, Generated!Stop, Generated!router
      <4>4. CASE \E c \in Clients, id \in Ids, streamed \in BOOLEAN : Generated!Receive(c, id, streamed)
        BY <4>4 DEF Generated!Receive, Generated!router
      <4>5. CASE \E c \in Clients : \/ Generated!Executed(c) \/ Generated!Stream(c) \/ Generated!RecordAgentExecution(c)
                                    \/ Generated!Respond(c)
        BY <4>5 DEF Generated!Executed, Generated!Stream, Generated!RecordAgentExecution, Generated!Respond, Generated!router
      <4>6. CASE UNCHANGED Generated!vars
        BY <4>6 DEF Generated!vars
      <4> QED
        BY <4>1, <4>2, <4>3, <4>4, <4>5, <4>6 DEF Generated!Next
    <3> QED
      BY <3>1, <3>2, <3>3
  <2> QED
    BY <1>0, <2>1, <2>2, <2>3 DEF AutoInv
<1>2. ASSUME NEW c \in Clients, NEW id \in Ids, NEW streamed \in BOOLEAN, Generated!Receive(c, id, streamed) PROVE AutoInv'
  <2> DEFINE it == [id |-> id, streamed |-> streamed, failed |-> TRUE, at |-> "executing"]
  <2>1. id \in instances
    BY <1>0, <1>2 DEF Generated!Receive, AgentsFirst
  <2>2. handling' = [handling EXCEPT ![c] = it]
    BY <1>2, <2>1 DEF Generated!Receive
  <2>3. handling[c].at = "idle" /\ it.at = "executing" /\ Handling(it)
    BY <1>2 DEF Generated!Receive, Generated!Idle, Handling
  <2>4. served' = [served EXCEPT !.received = @ + 1] /\ UNCHANGED <<metrics, routes, instances, stored>>
    BY <1>2 DEF Generated!Receive, Generated!router
  <2>5. UNCHANGED <<served.ended, served.failed>>
        /\ served' = [received |-> served'.received, ended |-> served'.ended, failed |-> served'.failed]
    BY <1>0, <2>4 DEF AutoTyped
  <2> HIDE DEF it
  <2>6. AutoTyped' /\ \A x \in Ids : Books(x)'
    BY <2>2, <2>3, <2>4, <2>5, BooksStay
  <2> QED
    BY <1>0, <2>4, <2>6, AgentsFirstStay DEF AutoInv
<1>3. ASSUME NEW c \in Clients, Generated!Stream(c) \/ Generated!Respond(c) PROVE AutoInv'
  <2>1. ~(handling[c].at \in {"record", "recordError"}) /\ UNCHANGED <<metrics, served, routes, instances, stored>>
    BY <1>3 DEF Generated!Stream, Generated!Respond, Generated!router
  <2>2. PICK it : handling' = [handling EXCEPT ![c] = it] /\ Handling(it) /\ it.at \in {"done", "idle"}
    <3>1. CASE Generated!Stream(c)
      <4>1. handling[c] \in [id : Ids, streamed : BOOLEAN, failed : BOOLEAN, at : {"executing", "record", "recordError", "done"}]
        BY <1>0, <3>1 DEF AutoTyped, Handling, Generated!Stream, Generated!Idle
      <4> DEFINE it == [handling[c] EXCEPT !.at = "done"]
      <4>2. Handling(it) /\ it.at = "done"
        BY <4>1 DEF Handling
      <4>3. handling' = [handling EXCEPT ![c] = it]
        BY <1>0, <3>1 DEF Generated!Stream, AutoTyped
      <4> QED
        BY <4>2, <4>3
    <3>2. CASE Generated!Respond(c)
      <4>1. Handling(Generated!Idle) /\ Generated!Idle.at = "idle"
        BY DEF Handling, Generated!Idle
      <4> QED
        BY <3>2, <4>1 DEF Generated!Respond
    <3> QED
      BY <1>3, <3>1, <3>2
  <2>3. UNCHANGED <<served.ended, served.failed>>
        /\ served' = [received |-> served'.received, ended |-> served'.ended, failed |-> served'.failed]
    BY <1>0, <2>1 DEF AutoTyped
  <2>4. AutoTyped' /\ \A x \in Ids : Books(x)'
    BY <2>1, <2>2, <2>3, BooksStay
  <2> QED
    BY <1>0, <2>1, <2>4, AgentsFirstStay DEF AutoInv
<1>4. ASSUME NEW c \in Clients, Generated!Executed(c) \/ Generated!RecordAgentExecution(c) PROVE AutoInv'
  <2>1. UNCHANGED <<routes, instances, stored>>
    BY <1>4 DEF Generated!Executed, Generated!RecordAgentExecution, Generated!router
  <2>2. AutoTyped' /\ \A x \in Ids : Books(x)'
    BY <1>4, ExecutedKept, RecordKept
  <2> QED
    BY <1>0, <2>1, <2>2, AgentsFirstStay DEF AutoInv
<1>5. UNCHANGED <<metrics, handling, served>>
      \/ (\E c \in Clients, id \in Ids, streamed \in BOOLEAN : Generated!Receive(c, id, streamed))
      \/ (\E c \in Clients : Generated!Executed(c) \/ Generated!Stream(c) \/ Generated!RecordAgentExecution(c) \/ Generated!Respond(c))
  BY DEF Generated!Next, Generated!vars, Generated!counters, Generated!RegisterDefinitions, Generated!LoadAgentsFromConfig, Generated!LoadFromPlugin,
     Generated!Registering, Generated!GenerateEndpoints, Generated!StartLooks, Generated!CreateAgent, Generated!RouteAgent,
     Generated!EndpointsGenerated, Generated!StartMarks, Generated!Bind, Generated!Stop
<1> QED
  BY <1>1, <1>2, <1>3, <1>4, <1>5

(* auto_server.go, auto_handlers.go: whatever is registered, however often    *)
(* endpoints are generated, agent by agent and by any number of calls at     *)
(* once, and whoever calls them, an agent that has a route has an instance,  *)
(* so no generated endpoint answers "not found"; no reader sees more errors  *)
(* than requests; and when nothing is under way, an agent's metrics are the  *)
(* executions that ended, without those that were streamed.                  *)
THEOREM MetricsAreTrue ==
    ASSUME IsFiniteSet(Clients)
    PROVE  Generated!Init /\ [][Generated!Next]_(Generated!vars) => []Generated!EndpointsAreTrue
<1>1. Generated!Init => AutoInv
  <2> SUFFICES ASSUME Generated!Init PROVE AutoInv
    OBVIOUS
  <2>1. \A c \in Clients : handling[c] = Generated!Idle /\ handling[c].at = "idle"
    BY DEF Generated!Init, Generated!Idle
  <2>2. AutoTyped
    BY <2>1 DEF Generated!Init, AutoTyped, Handling, Generated!NoMetrics, Counters
  <2>3. ASSUME NEW id \in Ids PROVE Books(id)
    <3>1. Uncounted(id) = {} /\ Unfailed(id) = {} /\ HalfCounted(id) = {}
      BY <2>1 DEF Uncounted, Unfailed, HalfCounted
    <3>2. metrics[id].requests = 0 /\ metrics[id].errors = 0 /\ served.ended[id] = 0 /\ served.failed[id] = 0
      BY DEF Generated!Init, Generated!NoMetrics
    <3> QED
      BY <3>1, <3>2, FS_EmptySet DEF Books
  <2>4. AgentsFirst
    BY DEF Generated!Init, AgentsFirst
  <2> QED
    BY <2>2, <2>3, <2>4 DEF AutoInv
<1>2. AutoInv => Generated!EndpointsAreTrue
  <2> SUFFICES ASSUME AutoInv PROVE Generated!EndpointsAreTrue
    OBVIOUS
  <2>1. AutoTyped /\ IsFiniteSet(Clients) /\ routes \subseteq instances /\ \A id \in Ids : Books(id)
    BY DEF AutoInv, AgentsFirst
  <2>2. \A c \in Clients : handling[c].at # "notFound"
    BY <2>1 DEF AutoTyped, Handling, Generated!Idle
  <2>3. ASSUME NEW id \in Ids
        PROVE  /\ metrics[id].errors <= metrics[id].requests
               /\ (\A c \in Clients : handling[c] = Generated!Idle) =>
                     metrics[id] = [requests |-> served.ended[id], errors |-> served.failed[id]]
    <3>1. /\ metrics[id] \in Counters /\ metrics[id].requests \in Nat /\ metrics[id].errors \in Nat
          /\ Cardinality(HalfCounted(id)) \in Nat
      BY <2>1, SetsAreFinite DEF AutoTyped, Counters
    <3>2. metrics[id].errors <= metrics[id].requests
      BY <2>1, <3>1 DEF Books
    <3>3. ASSUME \A c \in Clients : handling[c] = Generated!Idle
          PROVE  metrics[id] = [requests |-> served.ended[id], errors |-> served.failed[id]]
      <4>1. Uncounted(id) = {} /\ Unfailed(id) = {}
        BY <3>3 DEF Uncounted, Unfailed, Generated!Idle
      <4>2. served.ended[id] = metrics[id].requests /\ served.failed[id] = metrics[id].errors
        <5>1. Cardinality(Uncounted(id)) = 0 /\ Cardinality(Unfailed(id)) = 0
          BY <4>1, FS_EmptySet
        <5>2. /\ served.ended[id] = metrics[id].requests + Cardinality(Uncounted(id))
              /\ served.failed[id] = metrics[id].errors + Cardinality(Unfailed(id))
          BY <2>1 DEF Books
        <5> QED
          BY <3>1, <5>1, <5>2
      <4> QED
        BY <3>1, <4>2 DEF Counters
    <3> QED
      BY <3>2, <3>3
  <2> QED
    BY <2>1, <2>2, <2>3 DEF Generated!EndpointsAreTrue, Generated!RoutesHaveAgents, Generated!AgentMetricsAddUp
<1> QED
  BY <1>1, <1>2, AutoKept, PTL

===============================================================================
