----------------------------- MODULE Checkpointer -----------------------------
(***************************************************************************)
(* The checkpoint stores of pkg/persistence: MemoryCheckpointer,           *)
(* FileCheckpointer, PostgresCheckpointer and RedisCheckpointer behind the *)
(* Checkpointer interface, used by several clients at once: goroutines of  *)
(* one process for the memory store, processes that share a directory or a *)
(* server for the others.                                                  *)
(*                                                                         *)
(* Under the mutex of the memory store and in a transaction or a statement *)
(* of Postgres an operation is one action. In the other two every system   *)
(* call on the directory and every Redis command is one, so that other     *)
(* clients, a crash or an expiry may come between.                         *)
(***************************************************************************)
EXTENDS Latest, FiniteSets

CONSTANTS
    Configs,    \* the stores considered: [backend, naming, ttl] records
    Threads, Clients,
    Steps,      \* step numbers that are saved
    MaxSaves, MaxDeletes, MaxTime,      \* bounds of the exploration
    NoCheckpoint

Backends == {"memory", "file", "postgres", "redis"}
Namings  == {"unique", "nodeStep"}      \* CheckpointSaver, CheckpointManager

ASSUME StoreAssumption ==
    /\ Configs \subseteq [backend : Backends, naming : Namings, ttl : Nat]
    /\ Steps \subseteq Nat
    /\ MaxSaves \in Nat /\ MaxDeletes \in Nat /\ MaxTime \in Nat

VARIABLES
    config,     \* the store in use
    rows,       \* the checkpoints stored: map entries, files, table rows, payload keys
    index,      \* Redis: thread -> the set of checkpoint IDs, and when it expires (0: never)
    now, clock, deletes,    \* time, saves begun, deletions begun
    op,         \* client -> the operation it is in, or what Latest answered last
    acked,      \* history: checkpoints whose Save returned nil
    lost        \* history: stamps of those deleted, expired or saved over

store == <<rows, index>>
vars  == <<config, store, now, clock, deletes, op, acked, lost>>

Backend == config.backend
Expires == config.ttl > 0      \* Redis keys, unless CheckpointTTL is 0

(* A checkpoint: the thread it is filed under, the thread whose state it   *)
(* holds, its ID, step and creation time, and its expiry in Redis.         *)
Checkpoints ==
    [thread : Threads, owner : Threads, id : Nat, step : Nat, stamp : Nat, until : Nat]

Idle == [pc |-> "idle", cp |-> NoCheckpoint, asked |-> NoCheckpoint,
         left |-> {}, found |-> {}, due |-> {}]

Become(c, o) == op' = [op EXCEPT ![c] = o]
Goto(c, label) == op' = [op EXCEPT ![c].pc = label]

Free(c) == op[c].pc \in {"idle", "answered"}

Init ==
    /\ config \in Configs
    /\ rows = {}
    /\ index = [t \in Threads |-> [ids |-> {}, until |-> 0]]
    /\ now = 0 /\ clock = 0 /\ deletes = 0
    /\ op = [c \in Clients |-> Idle]
    /\ acked = {} /\ lost = {}

-----------------------------------------------------------------------------
(* Operators named Bug_... are defects the properties must catch; nothing  *)
(* of the model uses them.                                                 *)
Bug_KeyWithoutThread(cp) == {r \in rows : r.id = cp.id}

(* The row a save replaces: the primary key of the table is the ID alone,  *)
(* every other store keys a checkpoint by thread and ID.                   *)
SameKey(cp) ==
    {r \in rows : r.id = cp.id /\ (Backend = "postgres" \/ r.thread = cp.thread)}

(* ON CONFLICT (id) DO UPDATE leaves thread_id as it was.                  *)
Filed(cp) ==
    IF Backend = "postgres" /\ SameKey(cp) # {}
    THEN [cp EXCEPT !.thread = (CHOOSE r \in SameKey(cp) : TRUE).thread]
    ELSE cp

(* What is saved over is lost, when it was a checkpoint of the same thread. *)
Put(cp) ==
    /\ rows' = (rows \ SameKey(cp)) \cup {Filed(cp)}
    /\ lost' = lost \cup {r.stamp : r \in {r \in SameKey(cp) : r.owner = cp.owner}}

(* CheckpointSaver numbers its checkpoints and makes the numbers unique    *)
(* across processes; CheckpointManager names them after node and step.     *)
UniqueID == clock + 1
NodeStepID(s) == s

BeginSave(c, t, s) ==
    /\ Free(c) /\ clock < MaxSaves
    /\ clock' = clock + 1
    /\ Become(c, [Idle EXCEPT !.pc = "write",
         !.cp = [thread |-> t, owner |-> t, step |-> s, stamp |-> clock + 1, until |-> 0,
                 id |-> IF config.naming = "unique" THEN UniqueID ELSE NodeStepID(s)]])
    /\ UNCHANGED <<config, store, now, deletes, acked, lost>>

(* MemoryCheckpointer.Save and PostgresCheckpointer.Save, whose commit may *)
(* succeed although its caller is told that it failed.                     *)
Save(c) ==
    /\ op[c].pc = "write" /\ Backend \in {"memory", "postgres"}
    /\ Put(op[c].cp)
    /\ acked' = acked \cup {op[c].cp} \/ (Backend = "postgres" /\ acked' = acked)
    /\ Become(c, Idle)
    /\ UNCHANGED <<config, index, now, clock, deletes>>

Bug_WriteInPlace(c) ==
    /\ op[c].pc = "write" /\ Backend = "file"
    /\ rows' = rows \ SameKey(op[c].cp)
    /\ Goto(c, "rename")
    /\ UNCHANGED <<config, index, now, clock, deletes, acked, lost>>

(* FileCheckpointer.Save: a temporary file, then a rename over the path.   *)
WriteTemp(c) ==
    /\ op[c].pc = "write" /\ Backend = "file"
    /\ Goto(c, "rename")
    /\ UNCHANGED <<config, rows, index, now, clock, deletes, acked, lost>>

Rename(c) ==
    /\ op[c].pc = "rename"
    /\ Put(op[c].cp)
    /\ acked' = acked \cup {op[c].cp}
    /\ Become(c, Idle)
    /\ UNCHANGED <<config, index, now, clock, deletes>>

(* RedisCheckpointer.Save: SET with a TTL, SADD, EXPIRE of the index.      *)
SetPayload(c) ==
    /\ op[c].pc = "write" /\ Backend = "redis"
    /\ LET cp == [op[c].cp EXCEPT !.until = IF Expires THEN now + config.ttl ELSE 0]
       IN  Put(cp) /\ Become(c, [op[c] EXCEPT !.pc = "sadd", !.cp = cp])
    /\ UNCHANGED <<config, index, now, clock, deletes, acked>>

AddToIndex(c) ==
    /\ op[c].pc = "sadd"
    /\ index' = [index EXCEPT ![op[c].cp.thread].ids = @ \cup {op[c].cp.id}]
    /\ Goto(c, "expire")
    /\ UNCHANGED <<config, rows, now, clock, deletes, acked, lost>>

(* EXPIRE of a key that does not exist answers 0, which is no error, so an *)
(* index that expired since the SADD stays away.                           *)
RefreshIndex(c) ==
    /\ op[c].pc = "expire"
    /\ index' = IF ~Expires \/ index[op[c].cp.thread].ids = {} THEN index
                ELSE [index EXCEPT ![op[c].cp.thread].until = now + config.ttl]
    /\ acked' = acked \cup {op[c].cp}
    /\ Become(c, Idle)
    /\ UNCHANGED <<config, rows, now, clock, deletes, lost>>

(* A save fails, or its process dies: the transaction rolls back, what     *)
(* Redis was told already stays, and a temporary file left behind is never *)
(* listed, its extension being another. (The memory store cannot fail, and *)
(* does not outlive its process.)                                          *)
SaveFails(c) ==
    /\ op[c].pc \in {"write", "rename", "sadd", "expire"} /\ Backend # "memory"
    /\ Become(c, Idle)
    /\ UNCHANGED <<config, store, now, clock, deletes, acked, lost>>

-----------------------------------------------------------------------------
Bug_RowOfAnyThread(t, id) == {r \in rows : r.id = id}
Row(t, id) == {r \in rows : r.thread = t /\ r.id = id}

(* Delete, of a checkpoint that is there: one statement, or Redis DEL and  *)
(* SREM. A missing one is an error that changes nothing.                   *)
Delete(c, t, id) ==
    /\ Free(c) /\ deletes < MaxDeletes
    /\ Row(t, id) # {}
    /\ deletes' = deletes + 1
    /\ rows' = rows \ Row(t, id)
    /\ lost' = lost \cup {r.stamp : r \in Row(t, id)}
    /\ IF Backend = "redis"
       THEN Become(c, [Idle EXCEPT !.pc = "srem", !.cp = CHOOSE r \in Row(t, id) : TRUE])
       ELSE UNCHANGED op
    /\ UNCHANGED <<config, index, now, clock, acked>>

RemoveFromIndex(c) ==
    /\ op[c].pc = "srem"
    /\ \/ index' = [index EXCEPT ![op[c].cp.thread].ids = @ \ {op[c].cp.id}]
       \/ UNCHANGED index       \* it failed, or the process died
    /\ Become(c, Idle)
    /\ UNCHANGED <<config, rows, now, clock, deletes, acked, lost>>

-----------------------------------------------------------------------------
Owned(t) == {r \in rows : r.thread = t}

(* The names List starts from: the files, the index. The other two stores  *)
(* return everything at once.                                              *)
FileNames(t)  == {r.id : r \in Owned(t)}
IndexNames(t) == index[t].ids

BeginLatest(c, t) ==
    /\ Free(c)
    /\ Become(c, [Idle EXCEPT !.pc = "read", !.asked = t,
         !.left  = IF Backend = "redis" THEN IndexNames(t)
                   ELSE IF Backend = "file" THEN FileNames(t) ELSE {},
         !.found = IF Backend \in {"memory", "postgres"} THEN Owned(t) ELSE {},
         !.due   = {cp \in acked : cp.owner = t /\ cp.stamp \notin lost}])
    /\ UNCHANGED <<config, store, now, clock, deletes, acked, lost>>

(* List skips a name whose checkpoint is gone; Redis hands over only what  *)
(* is filed under the thread asked for.                                    *)
ReadOne(c, id) ==
    /\ op[c].pc = "read" /\ id \in op[c].left
    /\ Become(c, [op[c] EXCEPT !.left = @ \ {id}, !.found = @ \cup Row(op[c].asked, id)])
    /\ UNCHANGED <<config, store, now, clock, deletes, acked, lost>>

(* Latest chooses, then loads; the checkpoint may be gone by then, and     *)
(* then the call fails and promises nothing.                               *)
LoadLatest(c) ==
    /\ op[c].pc = "read" /\ op[c].left = {}
    /\ LET best  == Latest(op[c].found)
           found == IF op[c].found = {} THEN {} ELSE Row(op[c].asked, best.id)
       IN  Become(c, IF op[c].found # {} /\ found = {} THEN Idle
                     ELSE [op[c] EXCEPT !.pc = "answered", !.found = found])
    /\ UNCHANGED <<config, store, now, clock, deletes, acked, lost>>

-----------------------------------------------------------------------------
(* Time passes in Redis: payloads expire, and so does an index.            *)
Tick ==
    /\ Backend = "redis" /\ Expires /\ now < MaxTime
    /\ now' = now + 1
    /\ LET dead == {r \in rows : r.until # 0 /\ r.until <= now + 1}
       IN  rows' = rows \ dead /\ lost' = lost \cup {r.stamp : r \in dead}
    /\ index' = [t \in Threads |->
         IF index[t].until # 0 /\ index[t].until <= now + 1
         THEN [ids |-> {}, until |-> 0] ELSE index[t]]
    /\ UNCHANGED <<config, clock, deletes, op, acked>>

SaveStep(c) ==
    \/ Save(c) \/ WriteTemp(c) \/ Rename(c)
    \/ SetPayload(c) \/ AddToIndex(c) \/ RefreshIndex(c) \/ SaveFails(c)

Next ==
    \/ \E c \in Clients :
         \/ \E t \in Threads, s \in Steps : BeginSave(c, t, s)
         \/ SaveStep(c)
         \/ \E r \in rows : Delete(c, r.thread, r.id)
         \/ RemoveFromIndex(c)
         \/ \E t \in Threads : BeginLatest(c, t)
         \/ \E id \in op[c].left : ReadOne(c, id)
         \/ LoadLatest(c)
    \/ Tick

Spec == Init /\ [][Next]_vars

-----------------------------------------------------------------------------
Labels == {"idle", "write", "rename", "sadd", "expire", "srem", "read", "answered"}

Ops == [pc : Labels, cp : Checkpoints \cup {NoCheckpoint}, asked : Threads \cup {NoCheckpoint},
        left : SUBSET Nat, found : SUBSET Checkpoints, due : SUBSET Checkpoints]

TypeOK ==
    /\ config \in Configs
    /\ rows \subseteq Checkpoints
    /\ index \in [Threads -> [ids : SUBSET Nat, until : Nat]]
    /\ now \in Nat /\ clock \in Nat /\ deletes \in Nat
    /\ op \in [Clients -> Ops]
    /\ acked \subseteq Checkpoints /\ lost \subseteq Nat

(* What List would return for a thread if nothing moved meanwhile. *)
Listed(t) == {r \in Owned(t) : Backend = "redis" => r.id \in IndexNames(t)}

(* "Threads do not see each other's checkpoints": what is filed under a    *)
(* thread, and what Latest answers for it, is state of that thread.        *)
ThreadsIsolated ==
    /\ \A r \in rows : r.owner = r.thread
    /\ \A c \in Clients : op[c].pc = "answered" =>
         \A r \in op[c].found : r.owner = op[c].asked

(* A checkpoint whose Save returned nil can be loaded by thread and ID, as *)
(* it was saved, until it is deleted, expired or saved over by its own     *)
(* thread, whatever the other threads and clients do.                      *)
AcknowledgedLoads ==
    \A cp \in acked : cp.stamp \notin lost => Row(cp.owner, cp.id) = {cp}

(* "Listing must report every checkpoint of a thread": in every store that *)
(* does not expire, and whatever crashes, failures and clients, a          *)
(* checkpoint whose Save returned nil is listed under its thread until it  *)
(* is deleted or saved over by its own thread. (An index that expires      *)
(* between SADD and EXPIRE takes the new ID with it, and Save returns nil; *)
(* and in Redis the SREM of a deletion takes the entry of a checkpoint     *)
(* saved meanwhile when a name is reused, so there names must be unique.)   *)
AcknowledgedIsListed ==
    ~Expires => \A cp \in acked : cp.stamp \notin lost => cp \in Listed(cp.owner)

(* And in such a store Latest never answers with a step below a checkpoint *)
(* that was already acknowledged when the call began and is still there,   *)
(* however the reads of List interleave with saves and deletions.          *)
AcknowledgedIsFound ==
    /\ AcknowledgedIsListed
    /\ \A c \in Clients : ~Expires /\ op[c].pc = "answered" =>
          \A cp \in op[c].due :
              cp.stamp \notin lost => \E r \in op[c].found : r.step >= cp.step
==============================================================================
