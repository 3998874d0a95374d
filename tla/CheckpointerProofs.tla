-------------------------- MODULE CheckpointerProofs --------------------------
(***************************************************************************)
(* Theorems about the checkpoint stores, for any number of threads,        *)
(* clients, saves, deletions and ticks: a thread sees only its own state,  *)
(* and what was acknowledged can be loaded and is found.                   *)
(*                                                                         *)
(* They hold of every store but one: Postgres keys its table by the ID     *)
(* alone, so two threads must not use the same IDs (NoSharedKeys). That    *)
(* checkpoints are found needs more of Redis, whose deletions take the     *)
(* payload and the index entry in two commands (NoReusedNames).            *)
(***************************************************************************)
EXTENDS Checkpointer, FiniteSetTheorems, TLAPS

NoSharedKeys == \A s \in Configs : ~(s.backend = "postgres" /\ s.naming = "nodeStep")

Saving  == {"write", "rename", "sadd", "expire"}
Pending == {"write", "rename"}     \* nothing of the checkpoint is stored yet

(* What an operation in progress carries, and Latest answered. *)
Carries ==
    \A c \in Clients :
        /\ op[c].pc \in Saving \cup {"srem"} => op[c].cp \in Checkpoints
        /\ op[c].pc \in Saving => op[c].cp.owner = op[c].cp.thread
        /\ op[c].pc \in {"read", "answered"} =>
             /\ op[c].asked \in Threads
             /\ \A r \in op[c].found : r.owner = op[c].asked

OwnRows == \A r \in rows : r.owner = r.thread

(* A checkpoint is filed under its thread and ID once. *)
OneRowPerKey == \A r, s \in rows : r.thread = s.thread /\ r.id = s.id => r = s

(* Unique IDs: no row and no other save has the ID of a save that has not  *)
(* written yet.                                                            *)
FreshIDs ==
    config.naming = "unique" =>
        /\ \A r \in rows : r.id <= clock
        /\ \A c \in Clients : op[c].pc \in Pending =>
             /\ op[c].cp.id <= clock
             /\ \A r \in rows : r.id # op[c].cp.id
             /\ \A d \in Clients : op[d].pc \in Pending /\ op[d].cp.id = op[c].cp.id => d = c

(* What was acknowledged, or written by a save that is still indexing it,  *)
(* is in the store or accounted for.                                       *)
Kept ==
    /\ \A cp \in acked : cp \in Checkpoints /\ (cp \in rows \/ cp.stamp \in lost)
    /\ \A c \in Clients : op[c].pc \in {"sadd", "expire"} =>
         op[c].cp \in rows \/ op[c].cp.stamp \in lost

Inv == TypeOK /\ Carries /\ OwnRows /\ OneRowPerKey /\ FreshIDs /\ Kept

LEMMA IdleType == Idle \in Ops
BY DEF Idle, Ops, Labels

LEMMA InitInv == Init => Inv
<1> SUFFICES ASSUME Init PROVE Inv
    OBVIOUS
<1>1. TypeOK
    BY IdleType DEF Init, TypeOK, Checkpoints
<1>2. Carries
    BY DEF Init, Carries, Idle, Saving
<1>3. OwnRows /\ OneRowPerKey /\ FreshIDs /\ Kept
    BY DEF Init, OwnRows, OneRowPerKey, FreshIDs, Kept, Idle, Pending
<1> QED BY <1>1, <1>2, <1>3 DEF Inv

-----------------------------------------------------------------------------
(* Replacing the row of a checkpoint touches no other key and accounts for *)
(* what it replaced. In Postgres there is nothing to replace.              *)
LEMMA PutKeeps ==
    ASSUME NoSharedKeys, TypeOK, OwnRows, OneRowPerKey,
           NEW cp \in Checkpoints, cp.owner = cp.thread, Put(cp),
           config.naming = "unique" => \A r \in rows : r.id # cp.id
    PROVE  /\ rows' \subseteq rows \cup {cp} /\ cp \in rows'
           /\ lost' \subseteq Nat /\ lost \subseteq lost'
           /\ \A r \in rows : r \in rows' \/ r.stamp \in lost'
           /\ \A r \in rows', s \in rows' : r.thread = s.thread /\ r.id = s.id => r = s
<1>1. Filed(cp) = cp
    <2>1. CASE Backend = "postgres"
        <3>1. config.naming = "unique"
            BY <2>1, StoreAssumption DEF TypeOK, NoSharedKeys, Backend, Namings
        <3>2. SameKey(cp) = {}
            BY <3>1 DEF SameKey
        <3> QED BY <3>2 DEF Filed
    <2>2. CASE Backend # "postgres"
        BY <2>2 DEF Filed
    <2> QED BY <2>1, <2>2
<1>2. rows' = (rows \ SameKey(cp)) \cup {cp}
    BY <1>1 DEF Put
<1>3. \A r \in rows : r.thread = cp.thread /\ r.id = cp.id => r \in SameKey(cp)
    BY DEF SameKey
<1>4. \A r \in SameKey(cp) : r.owner = cp.owner
    <2>1. CASE Backend = "postgres"
        <3>1. config.naming = "unique"
            BY <2>1, StoreAssumption DEF TypeOK, NoSharedKeys, Backend, Namings
        <3> QED BY <3>1 DEF SameKey
    <2>2. CASE Backend # "postgres"
        BY <2>2 DEF SameKey, OwnRows
    <2> QED BY <2>1, <2>2
<1>5. lost' = lost \cup {r.stamp : r \in SameKey(cp)}
    BY <1>4 DEF Put
<1>6. \A r \in rows : r \in rows' \/ r.stamp \in lost'
    BY <1>2, <1>5
<1>7. lost' \subseteq Nat
    BY <1>5 DEF TypeOK, SameKey, Checkpoints
<1>8. ASSUME NEW r \in rows', NEW s \in rows', r.thread = s.thread, r.id = s.id PROVE r = s
    <2>1. CASE r # cp /\ s # cp
        BY <1>2, <1>8, <2>1 DEF OneRowPerKey
    <2>2. CASE r = cp \/ s = cp
        BY <1>2, <1>3, <1>8, <2>2
    <2> QED BY <2>1, <2>2
<1> QED BY <1>2, <1>5, <1>6, <1>7, <1>8

(* A save that completes in one action: the locked ones and the rename.    *)
LEMMA WholeSaveKeeps ==
    ASSUME NoSharedKeys, Inv, NEW c \in Clients, op[c].pc \in Pending,
           Put(op[c].cp), acked' \subseteq acked \cup {op[c].cp}, Become(c, Idle),
           UNCHANGED <<config, index, now, clock, deletes>>
    PROVE  Inv'
<1> DEFINE cp == op[c].cp
<1>1. cp \in Checkpoints /\ cp.owner = cp.thread
    BY DEF Inv, Carries, Saving, Pending
<1>2. /\ rows' \subseteq rows \cup {cp} /\ cp \in rows'
      /\ lost' \subseteq Nat /\ lost \subseteq lost'
      /\ \A r \in rows : r \in rows' \/ r.stamp \in lost'
      /\ \A r \in rows', s \in rows' : r.thread = s.thread /\ r.id = s.id => r = s
    BY <1>1, PutKeeps DEF Inv, FreshIDs
<1>3. op' = [op EXCEPT ![c] = Idle] /\ op \in [Clients -> Ops]
    BY DEF Become, Inv, TypeOK
<1>4. TypeOK'
    BY <1>1, <1>2, <1>3, IdleType DEF Inv, TypeOK
<1>5. \A d \in Clients : op'[d] = (IF d = c THEN Idle ELSE op[d])
    BY <1>3
<1>6. Carries'
    BY <1>5 DEF Inv, Carries, Idle, Saving
<1>7. OwnRows' /\ OneRowPerKey'
    BY <1>1, <1>2 DEF Inv, OwnRows, OneRowPerKey
<1>8. FreshIDs'
    <2> SUFFICES ASSUME config.naming = "unique"
                 PROVE  /\ \A r \in rows' : r.id <= clock
                        /\ \A d \in Clients : op'[d].pc \in Pending =>
                             /\ op'[d].cp.id <= clock
                             /\ \A r \in rows' : r.id # op'[d].cp.id
                             /\ \A e \in Clients :
                                  op'[e].pc \in Pending /\ op'[e].cp.id = op'[d].cp.id => e = d
        BY DEF FreshIDs
    <2>1. \A d \in Clients : op'[d].pc \in Pending => d # c /\ op'[d] = op[d]
        BY <1>5 DEF Idle, Pending
    <2> QED BY <1>2, <2>1 DEF Inv, FreshIDs
<1>9. Kept'
    <2>1. ASSUME NEW x \in acked' PROVE x \in Checkpoints /\ (x \in rows' \/ x.stamp \in lost')
        <3>1. CASE x \in acked
            BY <1>2, <3>1 DEF Inv, Kept
        <3>2. CASE x = cp
            BY <1>1, <1>2, <3>2
        <3> QED BY <3>1, <3>2
    <2>2. ASSUME NEW d \in Clients, op'[d].pc \in {"sadd", "expire"}
          PROVE  op'[d].cp \in rows' \/ op'[d].cp.stamp \in lost'
        <3>1. d # c /\ op'[d] = op[d]
            BY <1>5, <2>2 DEF Idle
        <3> QED BY <1>2, <2>2, <3>1 DEF Inv, Kept
    <2> QED BY <2>1, <2>2 DEF Kept
<1> QED BY <1>4, <1>6, <1>7, <1>8, <1>9 DEF Inv

-----------------------------------------------------------------------------
LEMMA BeginSaveKeeps ==
    ASSUME Inv, NEW c \in Clients, NEW t \in Threads, NEW s \in Steps, BeginSave(c, t, s)
    PROVE  Inv'
<1> DEFINE cp == [thread |-> t, owner |-> t, step |-> s, stamp |-> clock + 1, until |-> 0,
                  id |-> IF config.naming = "unique" THEN UniqueID ELSE NodeStepID(s)]
           o  == [Idle EXCEPT !.pc = "write", !.cp = cp]
<1>1. /\ op' = [op EXCEPT ![c] = o] /\ clock' = clock + 1
      /\ UNCHANGED <<config, rows, index, now, deletes, acked, lost>>
    BY DEF BeginSave, Become, store
<1>2. cp \in Checkpoints
    BY StoreAssumption DEF Inv, TypeOK, Checkpoints, UniqueID, NodeStepID
<1>3. o \in Ops /\ o.pc = "write" /\ o.cp = cp
    BY <1>2 DEF Idle, Ops, Labels
<1>4. \A d \in Clients : op'[d] = (IF d = c THEN o ELSE op[d])
    BY <1>1 DEF Inv, TypeOK
<1>5. TypeOK'
    <2> HIDE DEF o
    <2> QED BY <1>1, <1>3 DEF Inv, TypeOK
<1>6. Carries'
    <2>1. cp.owner = cp.thread
        OBVIOUS
    <2> HIDE DEF o, cp
    <2> QED BY <1>2, <1>3, <1>4, <2>1 DEF Inv, Carries, Saving
<1>7. OwnRows' /\ OneRowPerKey'
    BY <1>1 DEF Inv, OwnRows, OneRowPerKey
<1>8. FreshIDs'
    <2>1. config.naming = "unique" => cp.id = clock + 1
        BY DEF UniqueID
    <2>2. clock \in Nat /\ clock' = clock + 1 /\ \A r \in rows : r.id \in Nat
        BY <1>1 DEF Inv, TypeOK, Checkpoints
    <2>3. \A d \in Clients : op[d].pc \in Pending => op[d].cp.id \in Nat
        BY DEF Inv, Carries, Pending, Saving, Checkpoints
    <2> HIDE DEF o, cp
    <2> QED BY <1>1, <1>3, <1>4, <2>1, <2>2, <2>3 DEF Inv, FreshIDs, Pending
<1>9. Kept'
    <2> HIDE DEF o
    <2> QED BY <1>1, <1>3, <1>4 DEF Inv, Kept
<1> QED BY <1>5, <1>6, <1>7, <1>8, <1>9 DEF Inv

(* An operation ends without touching the store: a failure, the last call  *)
(* of a deletion, the end of a listing.                                    *)
LEMMA EndKeeps ==
    ASSUME Inv, NEW c \in Clients, Become(c, Idle),
           index' \in [Threads -> [ids : SUBSET Nat, until : Nat]],
           UNCHANGED <<config, rows, now, clock, deletes, acked, lost>>
    PROVE  Inv'
<1>1. op' = [op EXCEPT ![c] = Idle] /\ op \in [Clients -> Ops]
    BY DEF Become, Inv, TypeOK
<1>2. \A d \in Clients : op'[d] = (IF d = c THEN Idle ELSE op[d])
    BY <1>1
<1>3. TypeOK'
    BY <1>1, IdleType DEF Inv, TypeOK
<1>4. Carries' /\ Kept'
    BY <1>2 DEF Inv, Carries, Kept, Idle, Saving
<1>5. OwnRows' /\ OneRowPerKey'
    BY DEF Inv, OwnRows, OneRowPerKey
<1>6. FreshIDs'
    BY <1>2 DEF Inv, FreshIDs, Idle, Pending
<1> QED BY <1>3, <1>4, <1>5, <1>6 DEF Inv

(* An operation moves on to another label with the same checkpoint. *)
LEMMA MoveKeeps ==
    ASSUME Inv, NEW c \in Clients, NEW label \in Saving, Goto(c, label),
           op[c].pc \in Saving,
           label \in Pending => op[c].pc \in Pending,
           label \in {"sadd", "expire"} => op[c].pc \in {"sadd", "expire"},
           index' \in [Threads -> [ids : SUBSET Nat, until : Nat]],
           UNCHANGED <<config, rows, now, clock, deletes, acked, lost>>
    PROVE  Inv'
<1> DEFINE o == [op[c] EXCEPT !.pc = label]
<1>1. op' = [op EXCEPT ![c] = o] /\ op \in [Clients -> Ops]
    BY DEF Goto, Inv, TypeOK
<1>2. o \in Ops /\ o.pc = label /\ o.cp = op[c].cp
    BY <1>1 DEF Ops, Labels, Saving
<1>3. \A d \in Clients : op'[d] = (IF d = c THEN o ELSE op[d])
    BY <1>1
<1> HIDE DEF o
<1>4. TypeOK'
    BY <1>1, <1>2 DEF Inv, TypeOK
<1>5. Carries' /\ Kept'
    BY <1>2, <1>3 DEF Inv, Carries, Kept, Saving
<1>6. OwnRows' /\ OneRowPerKey'
    BY DEF Inv, OwnRows, OneRowPerKey
<1>7. FreshIDs'
    BY <1>2, <1>3 DEF Inv, FreshIDs
<1> QED BY <1>4, <1>5, <1>6, <1>7 DEF Inv

LEMMA SetPayloadKeeps ==
    ASSUME NoSharedKeys, Inv, NEW c \in Clients, SetPayload(c)
    PROVE  Inv'
<1> DEFINE cp == [op[c].cp EXCEPT !.until = IF Expires THEN now + config.ttl ELSE 0]
           o  == [op[c] EXCEPT !.pc = "sadd", !.cp = cp]
<1>1. /\ op[c].pc = "write" /\ Put(cp)
      /\ op' = [op EXCEPT ![c] = o] /\ op \in [Clients -> Ops]
      /\ UNCHANGED <<config, index, now, clock, deletes, acked>>
    BY DEF SetPayload, Become, Inv, TypeOK
<1>2. op[c].cp \in Checkpoints /\ op[c].cp.owner = op[c].cp.thread
    BY <1>1 DEF Inv, Carries, Saving
<1>3. /\ cp \in Checkpoints /\ cp.owner = cp.thread
      /\ cp.id = op[c].cp.id /\ cp.stamp = op[c].cp.stamp
    BY <1>2, StoreAssumption DEF Inv, TypeOK, Checkpoints
<1>4. o \in Ops /\ o.pc = "sadd" /\ o.cp = cp
    BY ZenonT(40), <1>1, <1>3 DEF Ops, Labels
<1>5. \A d \in Clients : op'[d] = (IF d = c THEN o ELSE op[d])
    BY <1>1
<1> HIDE DEF cp, o
<1>6. config.naming = "unique" => \A r \in rows : r.id # cp.id
    BY <1>1, <1>3 DEF Inv, FreshIDs, Pending
<1>7. /\ rows' \subseteq rows \cup {cp} /\ cp \in rows'
      /\ lost' \subseteq Nat /\ lost \subseteq lost'
      /\ \A r \in rows : r \in rows' \/ r.stamp \in lost'
      /\ \A r \in rows', s \in rows' : r.thread = s.thread /\ r.id = s.id => r = s
    BY <1>1, <1>3, <1>6, PutKeeps DEF Inv
<1>8. TypeOK'
    BY <1>1, <1>3, <1>4, <1>7 DEF Inv, TypeOK
<1>9. Carries'
    BY <1>3, <1>4, <1>5 DEF Inv, Carries, Saving
<1>10. OwnRows' /\ OneRowPerKey'
    BY <1>1, <1>3, <1>7 DEF Inv, OwnRows, OneRowPerKey
<1>11. FreshIDs'
    <2> SUFFICES ASSUME config.naming = "unique"
                 PROVE  /\ \A r \in rows' : r.id <= clock
                        /\ \A d \in Clients : op'[d].pc \in Pending =>
                             /\ op'[d].cp.id <= clock
                             /\ \A r \in rows' : r.id # op'[d].cp.id
                             /\ \A e \in Clients :
                                  op'[e].pc \in Pending /\ op'[e].cp.id = op'[d].cp.id => e = d
        BY <1>1 DEF FreshIDs
    <2>1. \A d \in Clients : op'[d].pc \in Pending => d # c /\ op'[d] = op[d]
        BY <1>4, <1>5 DEF Pending
    <2>2. op[c].pc \in Pending
        BY <1>1 DEF Pending
    <2> QED BY <1>3, <1>7, <2>1, <2>2 DEF Inv, FreshIDs
<1>12. Kept'
    <2>1. \A x \in acked' : x \in Checkpoints /\ (x \in rows' \/ x.stamp \in lost')
        BY <1>1, <1>7 DEF Inv, Kept
    <2>2. ASSUME NEW d \in Clients, op'[d].pc \in {"sadd", "expire"}
          PROVE  op'[d].cp \in rows' \/ op'[d].cp.stamp \in lost'
        <3>1. CASE d = c
            BY <1>4, <1>5, <1>7, <3>1
        <3>2. CASE d # c
            BY <1>5, <1>7, <2>2, <3>2 DEF Inv, Kept
        <3> QED BY <3>1, <3>2
    <2> QED BY <2>1, <2>2 DEF Kept
<1> QED BY <1>8, <1>9, <1>10, <1>11, <1>12 DEF Inv

(* EXPIRE ends a save of Redis: its checkpoint was written before.         *)
LEMMA RefreshIndexKeeps ==
    ASSUME Inv, NEW c \in Clients, RefreshIndex(c)
    PROVE  Inv'
<1> DEFINE cp == op[c].cp
<1>1. /\ op[c].pc = "expire" /\ acked' = acked \cup {cp}
      /\ op' = [op EXCEPT ![c] = Idle] /\ op \in [Clients -> Ops]
      /\ UNCHANGED <<config, rows, now, clock, deletes, lost>>
    BY DEF RefreshIndex, Become, Inv, TypeOK
<1>2. cp \in Checkpoints /\ (cp \in rows \/ cp.stamp \in lost)
    BY <1>1 DEF Inv, Carries, Saving, Kept
<1>3. index' \in [Threads -> [ids : SUBSET Nat, until : Nat]]
    <2>1. cp.thread \in Threads /\ now + config.ttl \in Nat
        BY <1>2, StoreAssumption DEF Checkpoints, Inv, TypeOK
    <2>2. index \in [Threads -> [ids : SUBSET Nat, until : Nat]]
        BY DEF Inv, TypeOK
    <2>3. index' = IF ~Expires \/ index[cp.thread].ids = {} THEN index
                   ELSE [index EXCEPT ![cp.thread].until = now + config.ttl]
        BY DEF RefreshIndex
    <2> HIDE DEF cp
    <2> QED BY <2>1, <2>2, <2>3
<1>4. \A d \in Clients : op'[d] = (IF d = c THEN Idle ELSE op[d])
    BY <1>1
<1> HIDE DEF cp
<1>5. TypeOK'
    BY <1>1, <1>2, <1>3, IdleType DEF Inv, TypeOK
<1>6. Carries' /\ Kept'
    BY <1>1, <1>2, <1>4 DEF Inv, Carries, Kept, Idle, Saving
<1>7. OwnRows' /\ OneRowPerKey'
    BY <1>1 DEF Inv, OwnRows, OneRowPerKey
<1>8. FreshIDs'
    BY <1>1, <1>4 DEF Inv, FreshIDs, Idle, Pending
<1> QED BY <1>5, <1>6, <1>7, <1>8 DEF Inv

(* Rows that go are accounted for; nothing else of them matters.           *)
LEMMA RemovalKeeps ==
    ASSUME Inv, NEW gone \in SUBSET rows, rows' = rows \ gone,
           lost' = lost \cup {r.stamp : r \in gone},
           now' \in Nat, deletes' \in Nat,
           index' \in [Threads -> [ids : SUBSET Nat, until : Nat]],
           op' \in [Clients -> Ops], Carries',
           \A d \in Clients : op'[d].pc \in Pending \cup {"sadd", "expire"} => op'[d] = op[d],
           UNCHANGED <<config, clock, acked>>
    PROVE  Inv'
<1>1. /\ rows' \subseteq rows /\ lost \subseteq lost'
      /\ \A r \in rows : r \in rows' \/ r.stamp \in lost'
    OBVIOUS
<1>2. TypeOK'
    <2>1. {r.stamp : r \in gone} \subseteq Nat
        <3>1. \A r \in gone : r \in Checkpoints
            BY DEF Inv, TypeOK
        <3> QED BY <3>1 DEF Checkpoints
    <2>2. lost' \subseteq Nat
        BY <2>1 DEF Inv, TypeOK
    <2> QED BY <1>1, <2>2 DEF Inv, TypeOK
<1>3. OwnRows' /\ OneRowPerKey'
    BY <1>1 DEF Inv, OwnRows, OneRowPerKey
<1>4. FreshIDs'
    BY <1>1 DEF Inv, FreshIDs
<1>5. Kept'
    BY <1>1 DEF Inv, Kept
<1> QED BY <1>2, <1>3, <1>4, <1>5 DEF Inv

LEMMA DeleteKeeps ==
    ASSUME Inv, NEW c \in Clients, NEW r \in rows, Delete(c, r.thread, r.id)
    PROVE  Inv'
<1> DEFINE gone == Row(r.thread, r.id)
           cp   == CHOOSE x \in gone : TRUE
           o    == [Idle EXCEPT !.pc = "srem", !.cp = cp]
<1>1. /\ rows' = rows \ gone /\ lost' = lost \cup {x.stamp : x \in gone}
      /\ deletes' = deletes + 1
      /\ IF Backend = "redis" THEN op' = [op EXCEPT ![c] = o] ELSE op' = op
      /\ UNCHANGED <<config, index, now, clock, acked>>
    BY DEF Delete, Become
<1>2. gone \in SUBSET rows /\ cp \in gone
    BY DEF Delete, Row
<1>3. cp \in Checkpoints
    BY <1>2 DEF Inv, TypeOK
<1>4. o \in Ops /\ o.pc = "srem" /\ o.cp = cp
    BY <1>3 DEF Idle, Ops, Labels
<1> HIDE DEF gone, cp, o
<1>5. /\ op' \in [Clients -> Ops]
      /\ \A d \in Clients : op'[d] = op[d] \/ op'[d] = o
    BY <1>1, <1>4 DEF Inv, TypeOK
<1>6. Carries'
    BY <1>3, <1>4, <1>5 DEF Inv, Carries, Saving
<1>7. \A d \in Clients : op'[d].pc \in Pending \cup {"sadd", "expire"} => op'[d] = op[d]
    BY <1>4, <1>5 DEF Pending
<1>8. now' \in Nat /\ deletes' \in Nat /\ index' \in [Threads -> [ids : SUBSET Nat, until : Nat]]
    BY <1>1 DEF Inv, TypeOK
<1> QED BY <1>1, <1>2, <1>5, <1>6, <1>7, <1>8, RemovalKeeps

LEMMA TickKeeps ==
    ASSUME Inv, Tick
    PROVE  Inv'
<1> DEFINE dead == {r \in rows : r.until # 0 /\ r.until <= now + 1}
<1>1. /\ rows' = rows \ dead /\ lost' = lost \cup {r.stamp : r \in dead}
      /\ now' = now + 1
      /\ UNCHANGED <<config, clock, deletes, op, acked>>
    BY DEF Tick
<1>2. dead \in SUBSET rows
    OBVIOUS
<1>3. index' \in [Threads -> [ids : SUBSET Nat, until : Nat]]
    BY DEF Tick, Inv, TypeOK
<1>4. now' \in Nat /\ deletes' \in Nat /\ op' \in [Clients -> Ops]
    BY <1>1 DEF Inv, TypeOK
<1>5. Carries'
    BY <1>1 DEF Inv, Carries
<1> HIDE DEF dead
<1> QED BY <1>1, <1>2, <1>3, <1>4, <1>5, RemovalKeeps

-----------------------------------------------------------------------------
(* A listing collects rows of the thread it was asked for.                 *)
LEMMA ListingKeeps ==
    ASSUME Inv, NEW c \in Clients, NEW o \in Ops, Become(c, o), o.pc \in {"read", "answered"},
           o.asked \in Threads, \A r \in o.found : r.owner = o.asked,
           UNCHANGED <<config, store, now, clock, deletes, acked, lost>>
    PROVE  Inv'
<1>1. op' = [op EXCEPT ![c] = o] /\ op \in [Clients -> Ops] /\ UNCHANGED <<rows, index>>
    BY DEF Become, Inv, TypeOK, store
<1>2. \A d \in Clients : op'[d] = (IF d = c THEN o ELSE op[d])
    BY <1>1
<1>3. TypeOK'
    BY <1>1 DEF Inv, TypeOK
<1>4. Carries' /\ Kept'
    BY <1>1, <1>2 DEF Inv, Carries, Kept, Saving
<1>5. OwnRows' /\ OneRowPerKey'
    BY <1>1 DEF Inv, OwnRows, OneRowPerKey
<1>6. FreshIDs'
    BY <1>1, <1>2 DEF Inv, FreshIDs, Pending
<1> QED BY <1>3, <1>4, <1>5, <1>6 DEF Inv

LEMMA RowsOfThread ==
    ASSUME Inv, NEW t \in Threads, NEW id
    PROVE  /\ Row(t, id) \subseteq Checkpoints /\ \A r \in Row(t, id) : r.owner = t
           /\ Owned(t) \subseteq Checkpoints /\ \A r \in Owned(t) : r.owner = t
BY DEF Row, Owned, Inv, TypeOK, OwnRows

LEMMA BeginLatestKeeps ==
    ASSUME Inv, NEW c \in Clients, NEW t \in Threads, BeginLatest(c, t)
    PROVE  Inv'
<1> DEFINE names  == IF Backend = "redis" THEN IndexNames(t)
                     ELSE IF Backend = "file" THEN FileNames(t) ELSE {}
           found  == IF Backend \in {"memory", "postgres"} THEN Owned(t) ELSE {}
           due    == {cp \in acked : cp.owner = t /\ cp.stamp \notin lost}
           o == [Idle EXCEPT !.pc = "read", !.asked = t, !.left = names,
                             !.found = found, !.due = due]
<1>1. /\ Become(c, o)
      /\ UNCHANGED <<config, store, now, clock, deletes, acked, lost>>
    BY DEF BeginLatest
<1>2. names \in SUBSET Nat
    <2>1. IndexNames(t) \in SUBSET Nat
        BY DEF IndexNames, Inv, TypeOK
    <2>2. FileNames(t) \in SUBSET Nat
        BY DEF FileNames, Owned, Inv, TypeOK, Checkpoints
    <2> QED BY <2>1, <2>2
<1>3. found \in SUBSET Checkpoints /\ \A r \in found : r.owner = t
    BY RowsOfThread
<1>4. due \in SUBSET Checkpoints
    BY DEF Inv, TypeOK
<1> HIDE DEF names, found, due
<1>5. o \in Ops /\ o.pc = "read" /\ o.asked = t /\ o.found = found
    BY <1>2, <1>3, <1>4 DEF Idle, Ops, Labels
<1> HIDE DEF o
<1> QED BY <1>1, <1>3, <1>5, ListingKeeps

LEMMA ReadOneKeeps ==
    ASSUME Inv, NEW c \in Clients, NEW id, ReadOne(c, id)
    PROVE  Inv'
<1> DEFINE o == [op[c] EXCEPT !.left = @ \ {id}, !.found = @ \cup Row(op[c].asked, id)]
<1>1. /\ op[c].pc = "read" /\ Become(c, o)
      /\ UNCHANGED <<config, store, now, clock, deletes, acked, lost>>
    BY DEF ReadOne
<1>2. op[c] \in Ops /\ op[c].asked \in Threads /\ \A r \in op[c].found : r.owner = op[c].asked
    BY <1>1 DEF Inv, TypeOK, Carries
<1>3. /\ Row(op[c].asked, id) \subseteq Checkpoints
      /\ \A r \in Row(op[c].asked, id) : r.owner = op[c].asked
    BY <1>2, RowsOfThread
<1>4. /\ o \in Ops /\ o.pc = "read" /\ o.asked = op[c].asked
      /\ o.found = op[c].found \cup Row(op[c].asked, id)
    BY <1>1, <1>2, <1>3 DEF Ops
<1> HIDE DEF o
<1> QED BY <1>1, <1>2, <1>3, <1>4, ListingKeeps

LEMMA LoadLatestKeeps ==
    ASSUME Inv, NEW c \in Clients, LoadLatest(c)
    PROVE  Inv'
<1> DEFINE best  == Latest(op[c].found)
           found == IF op[c].found = {} THEN {} ELSE Row(op[c].asked, best.id)
           o     == [op[c] EXCEPT !.pc = "answered", !.found = found]
<1>1. /\ op[c].pc = "read" /\ (Become(c, Idle) \/ Become(c, o))
      /\ UNCHANGED <<config, store, now, clock, deletes, acked, lost>>
    BY DEF LoadLatest
<1>2. op[c] \in Ops /\ op[c].asked \in Threads
    BY <1>1 DEF Inv, TypeOK, Carries
<1>3. found \in SUBSET Checkpoints /\ \A r \in found : r.owner = op[c].asked
    BY <1>2, RowsOfThread
<1> HIDE DEF found
<1>4. o \in Ops /\ o.pc = "answered" /\ o.asked = op[c].asked /\ o.found = found
    BY <1>2, <1>3 DEF Ops, Labels
<1> HIDE DEF o
<1>5. index' \in [Threads -> [ids : SUBSET Nat, until : Nat]]
    BY <1>1 DEF store, Inv, TypeOK
<1>6. CASE Become(c, Idle)
    BY <1>1, <1>5, <1>6, EndKeeps DEF store
<1>7. CASE Become(c, o)
    BY <1>1, <1>2, <1>3, <1>4, <1>7, ListingKeeps
<1> QED BY <1>1, <1>6, <1>7

-----------------------------------------------------------------------------
LEMMA SaveStepKeeps ==
    ASSUME NoSharedKeys, Inv, NEW c \in Clients, SaveStep(c)
    PROVE  Inv'
<1>0. index \in [Threads -> [ids : SUBSET Nat, until : Nat]]
    BY DEF Inv, TypeOK
<1>1. CASE Save(c)
    BY <1>1, WholeSaveKeeps DEF Save, Pending
<1>2. CASE WriteTemp(c)
    BY <1>0, <1>2, MoveKeeps DEF WriteTemp, Saving, Pending
<1>3. CASE Rename(c)
    BY <1>3, WholeSaveKeeps DEF Rename, Pending
<1>4. CASE SetPayload(c)
    BY <1>4, SetPayloadKeeps
<1>5. CASE AddToIndex(c)
    <2>1. op[c].cp \in Checkpoints
        BY <1>5 DEF AddToIndex, Inv, Carries, Saving
    <2>2. index' \in [Threads -> [ids : SUBSET Nat, until : Nat]]
        BY <1>0, <1>5, <2>1 DEF AddToIndex, Checkpoints
    <2> QED BY <1>5, <2>2, MoveKeeps DEF AddToIndex, Saving, Pending
<1>6. CASE RefreshIndex(c)
    BY <1>6, RefreshIndexKeeps
<1>7. CASE SaveFails(c)
    BY <1>0, <1>7, EndKeeps DEF SaveFails, store
<1> QED BY <1>1, <1>2, <1>3, <1>4, <1>5, <1>6, <1>7 DEF SaveStep

LEMMA NextInv == ASSUME NoSharedKeys, Inv, [Next]_vars PROVE Inv'
<1>1. CASE UNCHANGED vars
    BY <1>1 DEF vars, store, Inv, TypeOK, Carries, OwnRows, OneRowPerKey,
                FreshIDs, Kept, Backend
<1>2. ASSUME NEW c \in Clients, NEW t \in Threads, NEW s \in Steps, BeginSave(c, t, s)
      PROVE  Inv'
    BY <1>2, BeginSaveKeeps
<1>3. ASSUME NEW c \in Clients, SaveStep(c) PROVE Inv'
    BY <1>3, SaveStepKeeps
<1>4. ASSUME NEW c \in Clients, NEW r \in rows, Delete(c, r.thread, r.id) PROVE Inv'
    BY <1>4, DeleteKeeps
<1>5. ASSUME NEW c \in Clients, RemoveFromIndex(c) PROVE Inv'
    <2>1. op[c].cp \in Checkpoints
        BY <1>5 DEF RemoveFromIndex, Inv, Carries
    <2>2. index' \in [Threads -> [ids : SUBSET Nat, until : Nat]]
        BY <1>5, <2>1 DEF RemoveFromIndex, Checkpoints, Inv, TypeOK
    <2> QED BY <1>5, <2>2, EndKeeps DEF RemoveFromIndex
<1>6. ASSUME NEW c \in Clients, NEW t \in Threads, BeginLatest(c, t) PROVE Inv'
    BY <1>6, BeginLatestKeeps
<1>7. ASSUME NEW c \in Clients, NEW id, ReadOne(c, id) PROVE Inv'
    BY <1>7, ReadOneKeeps
<1>8. ASSUME NEW c \in Clients, LoadLatest(c) PROVE Inv'
    BY <1>8, LoadLatestKeeps
<1>9. CASE Tick
    BY <1>9, TickKeeps
<1> QED BY <1>1, <1>2, <1>3, <1>4, <1>5, <1>6, <1>7, <1>8, <1>9 DEF Next

-----------------------------------------------------------------------------
(* The types, in every store whose threads share no key.                   *)
THEOREM TypeCorrect == ASSUME NoSharedKeys PROVE Spec => []TypeOK
<1>1. Inv => TypeOK
    BY DEF Inv
<1> QED BY <1>1, InitInv, NextInv, PTL DEF Spec

(* "Threads do not see each other's checkpoints", in every store whose     *)
(* threads share no key: what is filed under a thread, and what Latest     *)
(* answers for it, is state of that thread.                                *)
THEOREM ThreadsStayIsolated == ASSUME NoSharedKeys PROVE Spec => []ThreadsIsolated
<1>1. Inv => ThreadsIsolated
    BY DEF Inv, OwnRows, Carries, ThreadsIsolated
<1> QED BY <1>1, InitInv, NextInv, PTL DEF Spec

(* What Save acknowledged can be loaded by thread and ID, as it was saved, *)
(* until it is deleted, expired or saved over by its own thread.           *)
THEOREM AcknowledgedStays == ASSUME NoSharedKeys PROVE Spec => []AcknowledgedLoads
<1>1. Inv => AcknowledgedLoads
    <2> SUFFICES ASSUME Inv, NEW cp \in acked, cp.stamp \notin lost
                 PROVE  Row(cp.owner, cp.id) = {cp}
        BY DEF AcknowledgedLoads
    <2>1. cp \in rows /\ cp.owner = cp.thread
        BY DEF Inv, Kept, OwnRows
    <2>2. \A r \in Row(cp.owner, cp.id) : r = cp
        BY <2>1 DEF Row, Inv, OneRowPerKey
    <2> QED BY <2>1, <2>2 DEF Row
<1> QED BY <1>1, InitInv, NextInv, PTL DEF Spec

-----------------------------------------------------------------------------
(* What was acknowledged is listed, and Latest finds nothing below it. A   *)
(* save that uses the name of a checkpoint being deleted may have its new  *)
(* index entry removed by the SREM, so Redis needs names of its own.       *)
NoReusedNames ==
    /\ NoSharedKeys
    /\ \A s \in Configs : s.backend = "redis" /\ s.ttl = 0 => s.naming = "unique"

(* Every checkpoint that the store or an operation still knows.            *)
Holding == {c \in Clients : op[c].pc \in Saving \cup {"srem"}}
Known == rows \cup acked \cup {op[c].cp : c \in Holding} \cup UNION {op[c].found : c \in Clients}

(* A stamp tells a checkpoint, an ID its stamp or its step.                *)
Named(S, naming, last) ==
    /\ S \subseteq Checkpoints
    /\ \A x \in S : x.stamp <= last
    /\ \A x, y \in S : x.stamp = y.stamp => x.step = y.step
    /\ naming = "unique" => \A x \in S : x.id = x.stamp
    /\ naming = "nodeStep" => \A x \in S : x.id = x.step

BoundedSteps(S) == \E b \in Nat : \A x \in S : x.step <= b

(* An index names what was acknowledged; a deletion has let go of its row. *)
Indexed ==
    Backend = "redis" /\ ~Expires =>
        /\ \A cp \in acked : cp.stamp \notin lost => cp.id \in index[cp.thread].ids
        /\ \A c \in Clients : op[c].pc = "expire" /\ op[c].cp.stamp \notin lost =>
              op[c].cp.id \in index[op[c].cp.thread].ids
        /\ \A c \in Clients : op[c].pc = "srem" => op[c].cp.stamp \in lost

(* What a listing owes its caller is in what it found or has yet to read.  *)
Repays(o) ==
    o.pc \in {"read", "answered"} =>
        \A cp \in o.due : cp.stamp \notin lost =>
            /\ cp \in acked /\ cp.owner = o.asked
            /\ \/ o.pc = "read" /\ cp.id \in o.left
               \/ \E r \in o.found : r.step >= cp.step

Owes == ~Expires => \A c \in Clients : Repays(op[c])

(* Temporary files are those of the file store. *)
Places == \A c \in Clients : op[c].pc = "rename" => Backend = "file"

KnownInv == Named(Known, config.naming, clock) /\ BoundedSteps(Known)
FoundInv == KnownInv /\ Places /\ Indexed /\ Owes

-----------------------------------------------------------------------------
LEMMA LeastOf ==
    ASSUME NEW S \in SUBSET Nat, S # {}
    PROVE  \E i \in S : \A j \in S : i <= j
<1> DEFINE below == {0 .. i : i \in S}
<1>1. below \subseteq FiniteSubsetsOf(Nat)
    <2>1. ASSUME NEW i \in S PROVE 0 .. i \in SUBSET Nat /\ IsFiniteSet(0 .. i)
        BY FS_Interval
    <2> QED BY <2>1 DEF FiniteSubsetsOf
<1>2. PICK x \in below : \A y \in below : ~(<<y, x>> \in StrictSubsetOrdering(Nat))
    <2>1. below # {}
        OBVIOUS
    <2> HIDE DEF below
    <2> QED BY <1>1, <2>1, FS_StrictSubsetOrderingWellFounded, WFMin
<1>3. PICK i \in S : x = 0 .. i
    OBVIOUS
<1>4. ASSUME NEW j \in S, j < i PROVE FALSE
    <2>1. 0 .. j \subseteq 0 .. i /\ 0 .. j # 0 .. i
        BY <1>4, i \in Nat, j \in Nat, i \in 0 .. i
    <2>2. <<0 .. j, 0 .. i>> \in StrictSubsetOrdering(Nat)
        BY <2>1 DEF StrictSubsetOrdering
    <2> QED BY <1>2, <1>3, <2>2
<1> QED BY <1>4

LEMMA GreatestOf ==
    ASSUME NEW S \in SUBSET Nat, S # {}, NEW b \in Nat, \A n \in S : n <= b
    PROVE  \E m \in S : \A n \in S : n <= m
<1> DEFINE above == {u \in Nat : \A n \in S : n <= u}
<1>1. PICK m \in above : \A u \in above : m <= u
    <2>1. above \in SUBSET Nat /\ above # {}
        OBVIOUS
    <2> HIDE DEF above
    <2> QED BY <2>1, LeastOf
<1>2. CASE m \in S
    BY <1>2
<1>3. CASE m \notin S
    <2>0. m \in Nat /\ \A n \in S : n \in Nat /\ n <= m /\ n # m
        BY <1>3
    <2>1. \A n \in S : n <= m - 1
        BY <2>0
    <2>2. m - 1 \in Nat
        <3>1. PICK n \in S : TRUE
            OBVIOUS
        <3> QED BY <2>0, <3>1
    <2>3. m - 1 \in above
        BY <2>1, <2>2
    <2> QED BY <1>1, <2>3
<1> QED BY <1>2, <1>3

(* Latest of what was listed is one of its highest steps. *)
LEMMA LatestIsHighest ==
    ASSUME NEW S \in SUBSET Checkpoints, S # {}, BoundedSteps(S), NEW last \in Nat,
           \A x \in S : x.stamp <= last
    PROVE  Latest(S) \in S /\ \A x \in S : x.step <= Latest(S).step
<1> DEFINE steps == {x.step : x \in S}
<1>0. \A x \in S : x.step \in Nat /\ x.stamp \in Nat
    BY DEF Checkpoints
<1>1. PICK k \in steps : \A n \in steps : n <= k
    <2>1. steps \in SUBSET Nat /\ steps # {}
        BY <1>0
    <2>2. PICK b \in Nat : \A n \in steps : n <= b
        BY DEF BoundedSteps
    <2> HIDE DEF steps
    <2> QED BY <2>1, <2>2, GreatestOf
<1> DEFINE stamps == {x.stamp : x \in {y \in S : y.step = k}}
<1>2. PICK t \in stamps : \A n \in stamps : n <= t
    <2>1. stamps \in SUBSET Nat /\ stamps # {} /\ \A n \in stamps : n <= last
        BY <1>0
    <2> HIDE DEF stamps
    <2> QED BY <2>1, GreatestOf
<1>3. PICK best \in S : best.step = k /\ best.stamp = t
    OBVIOUS
<1>4. \A x \in S : x.step <= k /\ (x.step = k => x.stamp <= t)
    BY <1>1, <1>2
<1>5. \A x \in S : ~Beats(x, best)
    <2> HIDE DEF steps, stamps
    <2> QED BY <1>0, <1>3, <1>4 DEF Beats
<1>6. Latest(S) \in S /\ \A x \in S : ~Beats(x, Latest(S))
    BY <1>5 DEF Latest
<1>7. \A x \in S : ~(x.step > Latest(S).step)
    BY <1>6 DEF Beats
<1> QED BY <1>0, <1>6, <1>7

(* Fewer checkpoints, and one more under another expiry, are still named. *)
LEMMA NamedLess ==
    ASSUME NEW S, NEW T, NEW naming, NEW last \in Nat, NEW next \in Nat, last <= next,
           Named(S, naming, last), BoundedSteps(S), T \subseteq S
    PROVE  Named(T, naming, next) /\ BoundedSteps(T)
<1>1. \A x \in S : x.stamp \in Nat
    BY DEF Named, Checkpoints
<1> QED BY <1>1 DEF Named, BoundedSteps

LEMMA NamedAgain ==
    ASSUME NEW S, NEW naming, NEW last \in Nat, Named(S, naming, last), BoundedSteps(S),
           NEW x \in S, NEW y \in Checkpoints, y.id = x.id, y.step = x.step, y.stamp = x.stamp
    PROVE  Named(S \cup {y}, naming, last) /\ BoundedSteps(S \cup {y})
BY DEF Named, BoundedSteps

LEMMA NamedNew ==
    ASSUME NEW S, NEW naming, NEW last \in Nat, Named(S, naming, last), BoundedSteps(S),
           NEW y \in Checkpoints, y.stamp = last + 1,
           naming = "unique" => y.id = y.stamp, naming = "nodeStep" => y.id = y.step
    PROVE  Named(S \cup {y}, naming, last + 1) /\ BoundedSteps(S \cup {y})
<1>1. \A x \in S : x.stamp \in Nat /\ x.step \in Nat /\ x.stamp <= last
    BY DEF Named, Checkpoints
<1>2. y.step \in Nat /\ y.stamp \in Nat
    BY DEF Checkpoints
<1>3. Named(S \cup {y}, naming, last + 1)
    BY <1>1, <1>2 DEF Named
<1>4. BoundedSteps(S \cup {y})
    <2>1. PICK b \in Nat : \A x \in S : x.step <= b
        BY DEF BoundedSteps
    <2> DEFINE d == IF b <= y.step THEN y.step ELSE b
    <2>2. d \in Nat /\ \A x \in S \cup {y} : x.step <= d
        BY <1>1, <1>2, <2>1
    <2> QED BY <2>2 DEF BoundedSteps
<1> QED BY <1>3, <1>4

(* One ID of one thread is one step, and unique IDs are one stamp. *)
LEMMA SameName ==
    ASSUME NEW S, NEW naming \in Namings, NEW last, Named(S, naming, last), NEW x \in S, NEW y \in S, x.id = y.id
    PROVE  x.step = y.step /\ (naming = "unique" => x.stamp = y.stamp)
BY DEF Named, Namings

-----------------------------------------------------------------------------
(* What an operation of one client may come to know. *)
LEMMA Knows ==
    ASSUME op \in [Clients -> Ops], NEW c \in Clients, NEW o, op' = [op EXCEPT ![c] = o],
           NEW S, Known \subseteq S, rows' \subseteq S, acked' \subseteq S,
           o.pc \in Saving \cup {"srem"} => o.cp \in S, o.found \subseteq S
    PROVE  Known' \subseteq S
<1>1. \A d \in Clients : op'[d] = (IF d = c THEN o ELSE op[d])
    OBVIOUS
<1>2. ASSUME NEW d \in Clients
      PROVE  /\ op'[d].pc \in Saving \cup {"srem"} => op'[d].cp \in S
             /\ op'[d].found \subseteq S
    <2>1. CASE d = c
        BY <1>1, <2>1
    <2>2. CASE d # c
        BY <1>1, <2>2 DEF Known, Holding
    <2> QED BY <2>1, <2>2
<1> QED BY <1>2 DEF Known, Holding

LEMMA KnowsNoMore ==
    ASSUME Inv, KnownInv, Known' \subseteq Known, UNCHANGED <<config, clock>>
    PROVE  KnownInv'
BY NamedLess DEF KnownInv, Inv, TypeOK

(* An operation moves on, or ends, with what it had. *)
LEMMA KnowsStill ==
    ASSUME Inv, KnownInv, NEW c \in Clients, NEW o, op' = [op EXCEPT ![c] = o],
           rows' \subseteq Known, acked' \subseteq Known,
           o.pc \in Saving \cup {"srem"} => o.cp \in Known, o.found \subseteq Known,
           UNCHANGED <<config, clock>>
    PROVE  KnownInv'
<1>1. Known' \subseteq Known
    BY Knows DEF Inv, TypeOK
<1> QED BY <1>1, KnowsNoMore

LEMMA KnownBasics ==
    /\ rows \subseteq Known /\ acked \subseteq Known
    /\ \A c \in Clients : op[c].found \subseteq Known
    /\ \A c \in Clients : op[c].pc \in Saving \cup {"srem"} => op[c].cp \in Known
    /\ Idle.pc = "idle" /\ Idle.found = {}
BY DEF Known, Holding, Idle

LEMMA SaveStepKnows ==
    ASSUME NoSharedKeys, Inv, KnownInv, NEW c \in Clients, SaveStep(c)
    PROVE  KnownInv'
<1> DEFINE cp == op[c].cp
<1>0. op \in [Clients -> Ops] /\ (op[c].pc \in Saving => cp \in Known /\ cp \in Checkpoints /\ cp.owner = cp.thread)
    BY KnownBasics DEF Inv, TypeOK, Carries
<1>1. CASE Save(c) \/ Rename(c)
    <2>1. op[c].pc \in Pending /\ Put(cp) /\ acked' \subseteq acked \cup {cp}
          /\ op' = [op EXCEPT ![c] = Idle] /\ UNCHANGED <<config, clock>>
        BY <1>1 DEF Save, Rename, Pending, Become
    <2>2. cp \in Known /\ rows' \subseteq rows \cup {cp}
        BY <1>0, <2>1, PutKeeps DEF Inv, FreshIDs, Pending, Saving
    <2> HIDE DEF cp
    <2> QED BY <2>1, <2>2, KnowsStill, KnownBasics DEF Saving
<1>2. CASE WriteTemp(c) \/ AddToIndex(c)
    <2>1. PICK label \in {"rename", "expire"} : op' = [op EXCEPT ![c] = [op[c] EXCEPT !.pc = label]]
        BY <1>2 DEF WriteTemp, AddToIndex, Goto
    <2>2. op[c].pc \in Saving /\ UNCHANGED <<rows, acked, config, clock>>
        BY <1>2 DEF WriteTemp, AddToIndex, Saving
    <2> DEFINE o == [op[c] EXCEPT !.pc = label]
    <2>3. o.cp = cp /\ o.found = op[c].found
        BY <1>0 DEF Ops
    <2> HIDE DEF o, cp
    <2> QED BY <1>0, <2>1, <2>2, <2>3, KnowsStill, KnownBasics DEF o
<1>3. CASE SetPayload(c)
    <2> DEFINE new == [cp EXCEPT !.until = IF Expires THEN now + config.ttl ELSE 0]
               o   == [op[c] EXCEPT !.pc = "sadd", !.cp = new]
    <2>1. op[c].pc = "write" /\ Put(new) /\ op' = [op EXCEPT ![c] = o] /\ UNCHANGED <<config, clock, acked>>
        BY <1>3 DEF SetPayload, Become
    <2>2. cp \in Known /\ cp \in Checkpoints /\ cp.owner = cp.thread
        BY <1>0, <2>1 DEF Saving
    <2>3. /\ new \in Checkpoints /\ new.owner = new.thread
          /\ new.id = cp.id /\ new.step = cp.step /\ new.stamp = cp.stamp
        BY <2>2, StoreAssumption DEF Inv, TypeOK, Checkpoints
    <2>4. o.cp = new /\ o.found = op[c].found
        BY <1>0 DEF Ops
    <2> HIDE DEF new, o
    <2>5. config.naming = "unique" => \A r \in rows : r.id # new.id
        BY <2>1, <2>3 DEF Inv, FreshIDs, Pending
    <2>6. rows' \subseteq rows \cup {new}
        BY <2>1, <2>3, <2>5, PutKeeps DEF Inv
    <2> HIDE DEF cp
    <2>7. Named(Known \cup {new}, config.naming, clock) /\ BoundedSteps(Known \cup {new})
        BY <2>2, <2>3, NamedAgain DEF KnownInv, Inv, TypeOK
    <2>8. Known' \subseteq Known \cup {new}
        <3> DEFINE S == Known \cup {new}
        <3>1. rows' \subseteq S /\ acked' \subseteq S /\ o.cp \in S /\ o.found \subseteq S /\ Known \subseteq S
            BY <2>1, <2>4, <2>6, KnownBasics
        <3> HIDE DEF S
        <3>2. Known' \subseteq S
            BY <1>0, <2>1, <3>1, Knows
        <3> QED BY <3>2 DEF S
    <2> QED BY <2>1, <2>7, <2>8, NamedLess DEF KnownInv, Inv, TypeOK
<1>4. CASE RefreshIndex(c)
    <2>1. /\ op[c].pc = "expire" /\ acked' = acked \cup {cp}
          /\ op' = [op EXCEPT ![c] = Idle] /\ UNCHANGED <<rows, config, clock>>
        BY <1>4 DEF RefreshIndex, Become
    <2>2. cp \in Known
        BY <1>0, <2>1 DEF Saving
    <2> HIDE DEF cp
    <2> QED BY <2>1, <2>2, KnowsStill, KnownBasics DEF Saving
<1>5. CASE SaveFails(c)
    <2>1. op' = [op EXCEPT ![c] = Idle] /\ UNCHANGED <<rows, acked, config, clock>>
        BY <1>5 DEF SaveFails, Become, store
    <2> QED BY <2>1, KnowsStill, KnownBasics DEF Saving
<1> QED BY <1>1, <1>2, <1>3, <1>4, <1>5 DEF SaveStep

LEMMA KnownStep ==
    ASSUME NoSharedKeys, Inv, KnownInv, [Next]_vars
    PROVE  KnownInv'
<1>0. op \in [Clients -> Ops]
    BY DEF Inv, TypeOK
<1>1. CASE UNCHANGED vars
    <2>1. Known' = Known /\ UNCHANGED <<config, clock>>
        BY <1>1 DEF vars, store, Known, Holding
    <2> QED BY <2>1, KnowsNoMore
<1>2. ASSUME NEW c \in Clients, NEW t \in Threads, NEW s \in Steps, BeginSave(c, t, s)
      PROVE  KnownInv'
    <2> DEFINE cp == [thread |-> t, owner |-> t, step |-> s, stamp |-> clock + 1, until |-> 0,
                      id |-> IF config.naming = "unique" THEN UniqueID ELSE NodeStepID(s)]
               o  == [Idle EXCEPT !.pc = "write", !.cp = cp]
    <2>1. /\ op' = [op EXCEPT ![c] = o] /\ clock' = clock + 1
          /\ UNCHANGED <<config, rows, acked>>
        BY <1>2 DEF BeginSave, Become, store
    <2>2. cp \in Checkpoints
        BY StoreAssumption DEF Inv, TypeOK, Checkpoints, UniqueID, NodeStepID
    <2>3. /\ cp.stamp = clock + 1 /\ (config.naming = "unique" => cp.id = cp.stamp)
          /\ config.naming = "nodeStep" => cp.id = cp.step
        BY DEF UniqueID, NodeStepID
    <2>4. o.cp = cp /\ o.found = {}
        BY DEF Idle
    <2> HIDE DEF cp, o
    <2>5. Named(Known \cup {cp}, config.naming, clock + 1) /\ BoundedSteps(Known \cup {cp})
        BY <2>2, <2>3, NamedNew DEF KnownInv, Inv, TypeOK
    <2> DEFINE S == Known \cup {cp}
    <2>6. rows' \subseteq S /\ acked' \subseteq S /\ o.cp \in S /\ o.found \subseteq S /\ Known \subseteq S
        BY <2>1, <2>4, KnownBasics
    <2> HIDE DEF S
    <2>7. Known' \subseteq S
        BY <1>0, <2>1, <2>6, Knows
    <2>8. Named(S, config.naming, clock + 1) /\ BoundedSteps(S) /\ clock + 1 \in Nat
        BY <2>5 DEF S, Inv, TypeOK
    <2> QED BY <2>1, <2>7, <2>8, NamedLess DEF KnownInv
<1>3. ASSUME NEW c \in Clients, SaveStep(c) PROVE KnownInv'
    BY <1>3, SaveStepKnows
<1>4. ASSUME NEW c \in Clients, NEW r \in rows, Delete(c, r.thread, r.id) PROVE KnownInv'
    <2> DEFINE gone == Row(r.thread, r.id)
               cp   == CHOOSE x \in gone : TRUE
               o    == IF Backend = "redis" THEN [Idle EXCEPT !.pc = "srem", !.cp = cp] ELSE op[c]
    <2>1. /\ rows' \subseteq rows /\ op' = [op EXCEPT ![c] = o] /\ UNCHANGED <<config, clock, acked>>
        BY <1>0, <1>4 DEF Delete, Become
    <2>2. cp \in rows
        BY <1>4 DEF Delete, Row
    <2>3. /\ o.pc \in Saving \cup {"srem"} => o.cp = cp \/ (o = op[c])
          /\ o.found = {} \/ o = op[c]
        BY DEF Idle
    <2> HIDE DEF gone, cp, o
    <2>4. /\ o.pc \in Saving \cup {"srem"} => o.cp \in Known
          /\ o.found \subseteq Known /\ rows' \subseteq Known /\ acked' \subseteq Known
        BY <2>1, <2>2, <2>3, KnownBasics
    <2> QED BY <2>1, <2>4, KnowsStill
<1>5. ASSUME NEW c \in Clients, RemoveFromIndex(c) PROVE KnownInv'
    <2>1. op' = [op EXCEPT ![c] = Idle] /\ UNCHANGED <<rows, acked, config, clock>>
        BY <1>5 DEF RemoveFromIndex, Become
    <2> QED BY <2>1, KnowsStill, KnownBasics DEF Saving
<1>6. ASSUME NEW c \in Clients, NEW t \in Threads, BeginLatest(c, t) PROVE KnownInv'
    <2> DEFINE o == [Idle EXCEPT !.pc = "read", !.asked = t,
                       !.left  = IF Backend = "redis" THEN IndexNames(t)
                                 ELSE IF Backend = "file" THEN FileNames(t) ELSE {},
                       !.found = IF Backend \in {"memory", "postgres"} THEN Owned(t) ELSE {},
                       !.due   = {cp \in acked : cp.owner = t /\ cp.stamp \notin lost}]
    <2>1. op' = [op EXCEPT ![c] = o] /\ UNCHANGED <<rows, acked, config, clock>>
        BY <1>6 DEF BeginLatest, Become, store
    <2>2. o.pc = "read" /\ o.found \subseteq rows
        BY DEF Idle, Owned
    <2> HIDE DEF o
    <2> QED BY <2>1, <2>2, KnowsStill, KnownBasics DEF Saving
<1>7. ASSUME NEW c \in Clients, NEW id, ReadOne(c, id) PROVE KnownInv'
    <2> DEFINE o == [op[c] EXCEPT !.left = @ \ {id}, !.found = @ \cup Row(op[c].asked, id)]
    <2>1. op' = [op EXCEPT ![c] = o] /\ UNCHANGED <<rows, acked, config, clock>>
        BY <1>7 DEF ReadOne, Become, store
    <2>2. o.pc = "read" /\ o.found = op[c].found \cup Row(op[c].asked, id)
        BY <1>0, <1>7 DEF ReadOne, Ops
    <2>3. o.found \subseteq Known
        BY <2>2, KnownBasics DEF Row
    <2> HIDE DEF o
    <2> QED BY <2>1, <2>2, <2>3, KnowsStill, KnownBasics DEF Saving
<1>8. ASSUME NEW c \in Clients, LoadLatest(c) PROVE KnownInv'
    <2> DEFINE found == IF op[c].found = {} THEN {} ELSE Row(op[c].asked, Latest(op[c].found).id)
               o     == [op[c] EXCEPT !.pc = "answered", !.found = found]
    <2>1. /\ op' = [op EXCEPT ![c] = Idle] \/ op' = [op EXCEPT ![c] = o]
          /\ UNCHANGED <<rows, acked, config, clock>>
        BY <1>8 DEF LoadLatest, Become, store
    <2>2. o.pc = "answered" /\ o.found = found /\ found \subseteq rows
        BY <1>0 DEF Ops, Row
    <2> HIDE DEF o, found
    <2> QED BY <2>1, <2>2, KnowsStill, KnownBasics DEF Saving
<1>9. CASE Tick
    <2>1. rows' \subseteq rows /\ UNCHANGED <<config, clock, acked, op>>
        BY <1>9 DEF Tick
    <2>2. Known' \subseteq Known
        BY <2>1 DEF Known, Holding
    <2> QED BY <2>1, <2>2, KnowsNoMore
<1> QED BY <1>1, <1>2, <1>3, <1>4, <1>5, <1>6, <1>7, <1>8, <1>9 DEF Next

-----------------------------------------------------------------------------
LEMMA HistoryGrows ==
    ASSUME [Next]_vars
    PROVE  lost \subseteq lost' /\ acked \subseteq acked' /\ config' = config
BY ZenonT(40) DEF Next, vars, store, BeginSave, SaveStep, Save, WriteTemp, Rename, SetPayload, AddToIndex,
       RefreshIndex, SaveFails, Delete, RemoveFromIndex, BeginLatest, ReadOne, LoadLatest, Tick,
       Put

(* Only a deletion takes a name from an index that does not expire. *)
LEMMA IndexedFrame ==
    ASSUME Inv, Indexed, config' = config, lost \subseteq lost',
           \A t \in Threads : index[t].ids \subseteq index'[t].ids,
           \A cp \in acked' :
               cp \in acked \/ \E c \in Clients : op[c].pc = "expire" /\ op[c].cp = cp,
           \A c \in Clients :
               /\ op'[c].pc = "expire" =>
                    op'[c] = op[c] \/ op'[c].cp.id \in index'[op'[c].cp.thread].ids
               /\ op'[c].pc = "srem" => op'[c] = op[c] \/ op'[c].cp.stamp \in lost'
    PROVE  Indexed'
<1> SUFFICES ASSUME Backend = "redis", ~Expires PROVE Indexed'
    BY DEF Indexed, Backend, Expires
<1>1. /\ \A cp \in acked : cp.thread \in Threads
      /\ \A c \in Clients : op[c].pc = "expire" => op[c].cp.thread \in Threads
    BY DEF Inv, Kept, Carries, Saving, Checkpoints
<1>2. ASSUME NEW cp \in acked', cp.stamp \notin lost' PROVE cp.id \in index'[cp.thread].ids
    <2>1. CASE cp \in acked
        BY <1>1, <1>2, <2>1 DEF Indexed
    <2>2. ASSUME NEW c \in Clients, op[c].pc = "expire", op[c].cp = cp
          PROVE  cp.id \in index'[cp.thread].ids
        BY <1>1, <1>2, <2>2 DEF Indexed
    <2> QED BY <2>1, <2>2
<1>3. ASSUME NEW c \in Clients, op'[c].pc = "expire", op'[c].cp.stamp \notin lost'
      PROVE  op'[c].cp.id \in index'[op'[c].cp.thread].ids
    BY <1>1, <1>3 DEF Indexed
<1>4. ASSUME NEW c \in Clients, op'[c].pc = "srem" PROVE op'[c].cp.stamp \in lost'
    BY <1>4 DEF Indexed
<1> QED BY <1>2, <1>3, <1>4 DEF Indexed

(* The SREM of a deletion finds no other checkpoint under its name. *)
LEMMA RemovalIndexed ==
    ASSUME NoReusedNames, Inv, KnownInv, Indexed, NEW c \in Clients, RemoveFromIndex(c)
    PROVE  Indexed'
<1> SUFFICES ASSUME Backend = "redis", ~Expires PROVE Indexed'
    BY DEF Indexed, Backend, Expires, RemoveFromIndex
<1> DEFINE gone == op[c].cp
<1>1. /\ op[c].pc = "srem" /\ op' = [op EXCEPT ![c] = Idle] /\ UNCHANGED <<acked, lost>>
      /\ \/ index' = [index EXCEPT ![gone.thread].ids = @ \ {gone.id}]
         \/ index' = index
    BY DEF RemoveFromIndex, Become
<1>2. gone \in Known /\ gone \in Checkpoints /\ gone.stamp \in lost
    BY <1>1, KnownBasics DEF Inv, Carries, Indexed
<1>3. config.naming = "unique" /\ config.naming \in Namings
    BY StoreAssumption DEF NoReusedNames, Backend, Expires, Inv, TypeOK
<1>4. ASSUME NEW cp \in Known, cp.stamp \notin lost, cp.id \in index[cp.thread].ids,
             cp \in Checkpoints
      PROVE  cp.id \in index'[cp.thread].ids
    <2>1. cp.id # gone.id
        BY <1>2, <1>3, <1>4, SameName DEF KnownInv
    <2>2. cp.thread \in Threads /\ index \in [Threads -> [ids : SUBSET Nat, until : Nat]]
        BY <1>4 DEF Inv, TypeOK, Checkpoints
    <2> HIDE DEF gone
    <2> QED BY <1>1, <1>4, <2>1, <2>2
<1>5. \A d \in Clients : op'[d] = (IF d = c THEN Idle ELSE op[d])
    BY <1>1 DEF Inv, TypeOK
<1> HIDE DEF gone
<1>6. ASSUME NEW cp \in acked', cp.stamp \notin lost' PROVE cp.id \in index'[cp.thread].ids
    <2>1. cp \in Known /\ cp \in Checkpoints /\ cp \in acked
        BY <1>1, <1>6, KnownBasics DEF Inv, Kept
    <2> QED BY <1>1, <1>4, <1>6, <2>1 DEF Indexed
<1>7. ASSUME NEW d \in Clients, op'[d].pc = "expire", op'[d].cp.stamp \notin lost'
      PROVE  op'[d].cp.id \in index'[op'[d].cp.thread].ids
    <2>1. op'[d] = op[d]
        BY <1>5, <1>7 DEF Idle
    <2>2. op[d].cp \in Known /\ op[d].cp \in Checkpoints
        BY <1>7, <2>1, KnownBasics DEF Inv, Carries, Saving
    <2> QED BY <1>1, <1>4, <1>7, <2>1, <2>2 DEF Indexed
<1>8. ASSUME NEW d \in Clients, op'[d].pc = "srem" PROVE op'[d].cp.stamp \in lost'
    BY <1>1, <1>5, <1>8 DEF Idle, Indexed
<1> QED BY <1>6, <1>7, <1>8 DEF Indexed

(* The labels a new operation starts at. *)
LEMMA Begins ==
    ASSUME NEW c, NEW t
    PROVE  /\ \A s : BeginSave(c, t, s) => \E o : o.pc = "write" /\ op' = [op EXCEPT ![c] = o]
           /\ BeginLatest(c, t) => \E o : o.pc = "read" /\ op' = [op EXCEPT ![c] = o]
<1>1. ASSUME NEW s, BeginSave(c, t, s)
      PROVE  \E o : o.pc = "write" /\ op' = [op EXCEPT ![c] = o]
    <2> DEFINE o == [Idle EXCEPT !.pc = "write",
                       !.cp = [thread |-> t, owner |-> t, step |-> s, stamp |-> clock + 1,
                               until |-> 0, id |-> IF config.naming = "unique" THEN UniqueID
                                                   ELSE NodeStepID(s)]]
    <2>1. o.pc = "write" /\ op' = [op EXCEPT ![c] = o]
        BY <1>1 DEF BeginSave, Become, Idle
    <2> HIDE DEF o
    <2> QED BY <2>1
<1>2. ASSUME BeginLatest(c, t)
      PROVE  \E o : o.pc = "read" /\ op' = [op EXCEPT ![c] = o]
    <2> DEFINE o == [Idle EXCEPT !.pc = "read", !.asked = t,
                       !.left  = IF Backend = "redis" THEN IndexNames(t)
                                 ELSE IF Backend = "file" THEN FileNames(t) ELSE {},
                       !.found = IF Backend \in {"memory", "postgres"} THEN Owned(t) ELSE {},
                       !.due   = {cp \in acked : cp.owner = t /\ cp.stamp \notin lost}]
    <2>1. o.pc = "read" /\ op' = [op EXCEPT ![c] = o]
        BY <1>2 DEF BeginLatest, Become, Idle
    <2> HIDE DEF o
    <2> QED BY <2>1
<1> QED BY <1>1, <1>2

LEMMA IndexedStep ==
    ASSUME NoReusedNames, Inv, FoundInv, [Next]_vars
    PROVE  Indexed'
<1> SUFFICES ASSUME Backend = "redis", ~Expires PROVE Indexed'
    BY HistoryGrows DEF Indexed, Backend, Expires
<1>0. /\ lost \subseteq lost' /\ acked \subseteq acked' /\ config' = config
      /\ op \in [Clients -> Ops] /\ Indexed /\ KnownInv
      /\ index \in [Threads -> [ids : SUBSET Nat, until : Nat]]
    BY HistoryGrows DEF Inv, TypeOK, FoundInv
<1>1. ASSUME NEW c \in Clients, op' = [op EXCEPT ![c] = Idle], UNCHANGED index,
             \A cp \in acked' : cp \in acked \/ (op[c].pc = "expire" /\ op[c].cp = cp)
      PROVE  Indexed'
    BY <1>0, <1>1, IndexedFrame DEF Idle
<1>2. CASE UNCHANGED vars
    BY <1>0, <1>2, IndexedFrame DEF vars, store
<1>3. ASSUME NEW c \in Clients, NEW o, op' = [op EXCEPT ![c] = o],
             o.pc \notin {"expire", "srem"}, UNCHANGED <<index, acked>>
      PROVE  Indexed'
    BY <1>0, <1>3, IndexedFrame
<1>4. ASSUME NEW c \in Clients, NEW t \in Threads, NEW s \in Steps, BeginSave(c, t, s)
      PROVE  Indexed'
    <2>1. \E o : o.pc = "write" /\ op' = [op EXCEPT ![c] = o]
        BY <1>4, Begins
    <2>2. UNCHANGED <<index, acked>>
        BY <1>4 DEF BeginSave, store
    <2> QED BY <1>3, <2>1, <2>2
<1>5. ASSUME NEW c \in Clients, SaveStep(c) PROVE Indexed'
    <2>1. ~Save(c) /\ ~WriteTemp(c) /\ ~Rename(c)
        BY DEF Save, WriteTemp, Rename, FoundInv, Places
    <2>2. CASE SetPayload(c)
        <3> DEFINE cp == [op[c].cp EXCEPT !.until = IF Expires THEN now + config.ttl ELSE 0]
                   o  == [op[c] EXCEPT !.pc = "sadd", !.cp = cp]
        <3>1. o.pc = "sadd" /\ op' = [op EXCEPT ![c] = o] /\ UNCHANGED <<index, acked>>
            BY <1>0, <2>2 DEF SetPayload, Become, Ops
        <3> HIDE DEF o
        <3> QED BY <1>3, <3>1
    <2>3. CASE AddToIndex(c)
        <3> DEFINE cp == op[c].cp
                   o  == [op[c] EXCEPT !.pc = "expire"]
        <3>1. /\ op[c].pc = "sadd" /\ UNCHANGED acked
              /\ index' = [index EXCEPT ![cp.thread].ids = @ \cup {cp.id}]
              /\ op' = [op EXCEPT ![c] = o] /\ o.pc = "expire" /\ o.cp = cp
            BY <1>0, <2>3 DEF AddToIndex, Goto, Ops
        <3>2. cp \in Checkpoints
            BY <3>1 DEF Inv, Carries, Saving
        <3>3. cp.thread \in Threads
            BY <3>2 DEF Checkpoints
        <3> HIDE DEF cp, o
        <3>4. cp.id \in index'[cp.thread].ids
              /\ \A t \in Threads : index[t].ids \subseteq index'[t].ids
            BY <1>0, <3>1, <3>3
        <3>5. \A d \in Clients : op'[d] = (IF d = c THEN o ELSE op[d])
            BY <1>0, <3>1
        <3> QED BY <1>0, <3>1, <3>4, <3>5, IndexedFrame
    <2>4. CASE RefreshIndex(c)
        BY <1>1, <2>4 DEF RefreshIndex, Become
    <2>5. CASE SaveFails(c)
        BY <1>1, <2>5 DEF SaveFails, Become, store
    <2> QED BY <1>5, <2>1, <2>2, <2>3, <2>4, <2>5 DEF SaveStep
<1>6. ASSUME NEW c \in Clients, NEW r \in rows, Delete(c, r.thread, r.id) PROVE Indexed'
    <2> DEFINE gone == Row(r.thread, r.id)
               cp   == CHOOSE x \in gone : TRUE
               o    == [Idle EXCEPT !.pc = "srem", !.cp = cp]
    <2>1. /\ lost' = lost \cup {x.stamp : x \in gone} /\ gone # {}
          /\ op' = [op EXCEPT ![c] = o] /\ UNCHANGED <<index, acked>>
        BY <1>6 DEF Delete, Become
    <2>2. o.pc = "srem" /\ o.cp = cp /\ cp \in gone
        BY <2>1 DEF Idle
    <2> HIDE DEF o, cp, gone
    <2>3. \A d \in Clients : op'[d] = (IF d = c THEN o ELSE op[d])
        BY <1>0, <2>1
    <2>4. o.cp.stamp \in lost'
        BY <2>1, <2>2
    <2> QED BY <1>0, <2>1, <2>2, <2>3, <2>4, IndexedFrame
<1>7. ASSUME NEW c \in Clients, RemoveFromIndex(c) PROVE Indexed'
    BY <1>0, <1>7, RemovalIndexed
<1>8. ASSUME NEW c \in Clients, NEW t \in Threads, BeginLatest(c, t) PROVE Indexed'
    <2>1. \E o : o.pc = "read" /\ op' = [op EXCEPT ![c] = o]
        BY <1>8, Begins
    <2>2. UNCHANGED <<index, acked>>
        BY <1>8 DEF BeginLatest, store
    <2> QED BY <1>3, <2>1, <2>2
<1>9. ASSUME NEW c \in Clients, NEW id, ReadOne(c, id) PROVE Indexed'
    <2> DEFINE o == [op[c] EXCEPT !.left = @ \ {id}, !.found = @ \cup Row(op[c].asked, id)]
    <2>1. o.pc = "read" /\ op' = [op EXCEPT ![c] = o] /\ UNCHANGED <<index, acked>>
        BY <1>0, <1>9 DEF ReadOne, Become, store, Ops
    <2> HIDE DEF o
    <2> QED BY <1>3, <2>1
<1>10. ASSUME NEW c \in Clients, LoadLatest(c) PROVE Indexed'
    <2> DEFINE found == IF op[c].found = {} THEN {} ELSE Row(op[c].asked, Latest(op[c].found).id)
               o     == [op[c] EXCEPT !.pc = "answered", !.found = found]
    <2>1. /\ op' = [op EXCEPT ![c] = Idle] \/ op' = [op EXCEPT ![c] = o]
          /\ o.pc = "answered" /\ UNCHANGED <<index, acked>>
        BY <1>0, <1>10 DEF LoadLatest, Become, store, Ops
    <2> HIDE DEF o
    <2> QED BY <1>1, <1>3, <2>1
<1>11. ~Tick
    BY DEF Tick
<1> QED BY <1>2, <1>4, <1>5, <1>6, <1>7, <1>8, <1>9, <1>10, <1>11 DEF Next

LEMMA PlacesStep ==
    ASSUME Inv, Places, [Next]_vars
    PROVE  Places'
<1>0. op \in [Clients -> Ops] /\ config' = config
    BY HistoryGrows DEF Inv, TypeOK
<1>1. ASSUME NEW c \in Clients, NEW d \in Clients, op'[d].pc = "rename", op[d].pc # "rename",
             SaveStep(c) \/ RemoveFromIndex(c) \/ LoadLatest(c)
      PROVE  Backend = "file"
    <2>1. CASE Save(c) \/ Rename(c) \/ RefreshIndex(c) \/ SaveFails(c) \/ RemoveFromIndex(c)
        <3>1. op' = [op EXCEPT ![c] = Idle]
            BY <2>1 DEF Save, Rename, RefreshIndex, SaveFails, RemoveFromIndex, Become
        <3> QED BY <1>0, <1>1, <3>1 DEF Idle
    <2>2. CASE WriteTemp(c)
        BY <2>2 DEF WriteTemp
    <2>3. CASE AddToIndex(c)
        BY <1>0, <1>1, <2>3 DEF AddToIndex, Goto, Ops
    <2>4. CASE SetPayload(c)
        BY <1>0, <1>1, <2>4 DEF SetPayload, Become, Ops
    <2>5. CASE LoadLatest(c)
        <3> DEFINE found == IF op[c].found = {} THEN {}
                            ELSE Row(op[c].asked, Latest(op[c].found).id)
        <3> DEFINE o == [op[c] EXCEPT !.pc = "answered", !.found = found]
        <3>1. /\ op' = [op EXCEPT ![c] = Idle] \/ op' = [op EXCEPT ![c] = o]
              /\ o.pc = "answered"
            BY <1>0, <2>5 DEF LoadLatest, Become, Ops
        <3> HIDE DEF o
        <3> QED BY <1>0, <1>1, <3>1 DEF Idle
    <2> QED BY <1>1, <2>1, <2>2, <2>3, <2>4, <2>5 DEF SaveStep
<1>2. ASSUME NEW c \in Clients, NEW d \in Clients, op'[d].pc = "rename", op[d].pc # "rename"
      PROVE  /\ \A t \in Threads, s \in Steps : ~BeginSave(c, t, s)
             /\ \A r \in rows : ~Delete(c, r.thread, r.id)
             /\ \A t \in Threads : ~BeginLatest(c, t)
             /\ \A id \in op[c].left : ~ReadOne(c, id)
    <2>1. ASSUME NEW t \in Threads, NEW s \in Steps, BeginSave(c, t, s) PROVE FALSE
        <3>1. \E o : o.pc = "write" /\ op' = [op EXCEPT ![c] = o]
            BY <2>1, Begins
        <3> QED BY <1>0, <1>2, <3>1
    <2>2. ASSUME NEW r \in rows, Delete(c, r.thread, r.id) PROVE FALSE
        <3>1. op' = op \/ \E o : o.pc = "srem" /\ op' = [op EXCEPT ![c] = o]
            BY <2>2 DEF Delete, Become, Idle
        <3> QED BY <1>0, <1>2, <3>1
    <2>3. ASSUME NEW t \in Threads, BeginLatest(c, t) PROVE FALSE
        <3>1. \E o : o.pc = "read" /\ op' = [op EXCEPT ![c] = o]
            BY <2>3, Begins
        <3> QED BY <1>0, <1>2, <3>1
    <2>4. ASSUME NEW id \in op[c].left, ReadOne(c, id) PROVE FALSE
        <3>1. \E o : o.pc = "read" /\ op' = [op EXCEPT ![c] = o]
            BY <1>0, <2>4 DEF ReadOne, Become, Ops
        <3> QED BY <1>0, <1>2, <3>1
    <2> QED BY <2>1, <2>2, <2>3, <2>4
<1>3. ASSUME NEW d \in Clients, op'[d].pc = "rename", op[d].pc # "rename" PROVE Backend = "file"
    <2>1. Next /\ ~Tick
        BY <1>3 DEF vars, Tick
    <2>2. PICK c \in Clients : SaveStep(c) \/ RemoveFromIndex(c) \/ LoadLatest(c)
        BY <1>2, <1>3, <2>1 DEF Next
    <2> QED BY <1>1, <1>3, <2>2
<1> QED BY <1>0, <1>3 DEF Places, Backend

-----------------------------------------------------------------------------
LEMMA OwesFrame ==
    ASSUME Owes, config' = config, lost \subseteq lost', acked \subseteq acked',
           \A c \in Clients : op'[c].pc \in {"read", "answered"} => op'[c] = op[c]
    PROVE  Owes'
BY DEF Owes, Repays, Expires

(* One client lists on; nothing is saved or lost meanwhile. *)
LEMMA OwesListing ==
    ASSUME Inv, Owes, NEW c \in Clients, NEW o, op' = [op EXCEPT ![c] = o],
           UNCHANGED <<config, lost, acked>>, ~Expires => Repays(o)
    PROVE  Owes'
<1> SUFFICES ASSUME ~Expires, NEW d \in Clients PROVE Repays(op[d])'
    BY DEF Owes, Expires
<1>1. op'[d] = (IF d = c THEN o ELSE op[d])
    BY DEF Inv, TypeOK
<1>2. Repays(op'[d])
    BY <1>1 DEF Owes
<1>3. lost' = lost /\ acked' = acked
    OBVIOUS
<1> QED BY <1>2, <1>3 DEF Repays

(* A checkpoint that is owed is a row of the thread asked for. *)
LEMMA OwedIsRow ==
    ASSUME Inv, NEW cp \in acked, cp.stamp \notin lost
    PROVE  cp \in Row(cp.owner, cp.id) /\ cp \in Owned(cp.owner)
BY DEF Inv, Kept, OwnRows, Row, Owned

LEMMA BeginLatestRepays ==
    ASSUME Inv, FoundInv, NEW c \in Clients, NEW t \in Threads, BeginLatest(c, t)
    PROVE  Owes'
<1> DEFINE names == IF Backend = "redis" THEN IndexNames(t)
                    ELSE IF Backend = "file" THEN FileNames(t) ELSE {}
           found == IF Backend \in {"memory", "postgres"} THEN Owned(t) ELSE {}
           due   == {cp \in acked : cp.owner = t /\ cp.stamp \notin lost}
           o     == [Idle EXCEPT !.pc = "read", !.asked = t, !.left = names,
                                 !.found = found, !.due = due]
<1>1. /\ o.pc = "read" /\ o.asked = t /\ o.left = names /\ o.found = found /\ o.due = due
      /\ op' = [op EXCEPT ![c] = o] /\ UNCHANGED <<config, lost, acked>>
    BY DEF BeginLatest, Become, Idle
<1>2. Backend \in Backends
    BY StoreAssumption DEF Backend, Inv, TypeOK
<1>3. ASSUME ~Expires, NEW cp \in due
      PROVE  cp.id \in names \/ (cp \in found /\ cp.step >= cp.step)
    <2>1. cp \in Owned(t) /\ cp.thread = t /\ cp.step \in Nat
        BY OwedIsRow DEF Owned, Inv, Kept, Checkpoints
    <2>2. Backend = "redis" => cp.id \in IndexNames(t)
        BY <1>3, <2>1 DEF IndexNames, FoundInv, Indexed
    <2>3. cp.id \in FileNames(t)
        BY <2>1 DEF FileNames
    <2> QED BY <1>2, <2>1, <2>2, <2>3 DEF Backends
<1>4. ~Expires => Repays(o)
    <2>1. \A cp \in due : cp \in acked /\ cp.owner = t
        OBVIOUS
    <2> HIDE DEF o, due, names, found
    <2> QED BY <1>1, <1>3, <2>1 DEF Repays
<1> HIDE DEF o
<1> QED BY <1>1, <1>4, OwesListing DEF FoundInv

LEMMA ReadOneRepays ==
    ASSUME Inv, FoundInv, NEW c \in Clients, NEW id, ReadOne(c, id)
    PROVE  Owes'
<1> DEFINE o == [op[c] EXCEPT !.left = @ \ {id}, !.found = @ \cup Row(op[c].asked, id)]
<1>0. op[c] \in Ops /\ op[c].pc = "read" /\ (~Expires => Repays(op[c]))
    BY DEF ReadOne, Inv, TypeOK, FoundInv, Owes
<1>1. /\ o.pc = "read" /\ o.asked = op[c].asked /\ o.left = op[c].left \ {id}
      /\ o.found = op[c].found \cup Row(op[c].asked, id) /\ o.due = op[c].due
      /\ op' = [op EXCEPT ![c] = o] /\ UNCHANGED <<config, lost, acked>>
    BY <1>0 DEF ReadOne, Become, Ops
<1> HIDE DEF o
<1>2. ASSUME ~Expires, NEW cp \in o.due, cp.stamp \notin lost
      PROVE  /\ cp \in acked /\ cp.owner = o.asked
             /\ cp.id \in o.left \/ \E r \in o.found : r.step >= cp.step
    <2>1. /\ cp \in acked /\ cp.owner = op[c].asked
          /\ cp.id \in op[c].left \/ \E r \in op[c].found : r.step >= cp.step
        BY <1>0, <1>1, <1>2 DEF Repays
    <2>2. cp \in Row(op[c].asked, cp.id) /\ cp.step >= cp.step
        <3>1. cp.step \in Nat
            BY <2>1 DEF Inv, Kept, Checkpoints
        <3> QED BY <1>2, <2>1, <3>1, OwedIsRow
    <2> QED BY <1>1, <2>1, <2>2
<1> QED BY <1>1, <1>2, OwesListing DEF Repays, FoundInv

LEMMA LoadLatestRepays ==
    ASSUME Inv, FoundInv, NEW c \in Clients, LoadLatest(c)
    PROVE  Owes'
<1> DEFINE listed == op[c].found
           best   == Latest(listed)
           found  == IF listed = {} THEN {} ELSE Row(op[c].asked, best.id)
           o      == [op[c] EXCEPT !.pc = "answered", !.found = found]
<1>0. op[c] \in Ops /\ op[c].pc = "read" /\ op[c].left = {} /\ (~Expires => Repays(op[c]))
    BY DEF LoadLatest, Inv, TypeOK, FoundInv, Owes
<1>1. /\ o.pc = "answered" /\ o.asked = op[c].asked /\ o.found = found /\ o.due = op[c].due
      /\ \/ op' = [op EXCEPT ![c] = Idle]
         \/ op' = [op EXCEPT ![c] = o] /\ (listed # {} => found # {})
      /\ UNCHANGED <<config, lost, acked>>
    BY <1>0 DEF LoadLatest, Become, Ops
<1>2. /\ listed \in SUBSET Checkpoints /\ listed \subseteq Known /\ rows \subseteq Known
      /\ Named(Known, config.naming, clock) /\ BoundedSteps(Known)
      /\ config.naming \in Namings /\ clock \in Nat
    BY <1>0, KnownBasics, StoreAssumption DEF FoundInv, KnownInv, Inv, TypeOK, Ops
<1>3. ASSUME listed # {} PROVE best \in listed /\ \A x \in listed : x.step <= best.step
    <2>1. BoundedSteps(listed) /\ \A x \in listed : x.stamp <= clock
        BY <1>2 DEF BoundedSteps, Named
    <2> HIDE DEF listed
    <2> QED BY <1>2, <1>3, <2>1, LatestIsHighest
<1>4. \A r \in found : r \in rows /\ r.id = best.id /\ listed # {}
    BY DEF Row
<1>5. Repays(Idle)
    BY DEF Repays, Idle
<1> HIDE DEF o, found, best
<1>6. ASSUME ~Expires, listed # {} => found # {}, NEW cp \in o.due, cp.stamp \notin lost
      PROVE  /\ cp \in acked /\ cp.owner = o.asked
             /\ \E r \in o.found : r.step >= cp.step
    <2>1. cp \in acked /\ cp.owner = op[c].asked
        BY <1>0, <1>1, <1>6 DEF Repays
    <2>2. PICK x \in listed : x.step >= cp.step
        BY <1>0, <1>1, <1>6 DEF Repays
    <2>3. PICK r \in found : TRUE
        BY <1>6, <2>2
    <2>4. r.step = best.step /\ x.step <= best.step
        BY <1>2, <1>3, <1>4, <2>2, <2>3, SameName
    <2>5. r.step \in Nat /\ x.step \in Nat /\ best.step \in Nat /\ cp.step \in Nat
        <3>1. r \in Checkpoints /\ x \in Checkpoints /\ best \in Checkpoints /\ cp \in Checkpoints
            BY <1>2, <1>3, <1>4, <2>1, <2>2, <2>3 DEF Inv, Kept, TypeOK
        <3> QED BY <3>1 DEF Checkpoints
    <2> QED BY <1>1, <2>1, <2>2, <2>3, <2>4, <2>5
<1>7. (listed # {} => found # {}) /\ ~Expires => Repays(o)
    BY <1>1, <1>6 DEF Repays
<1> HIDE DEF listed
<1> QED BY <1>1, <1>5, <1>7, OwesListing DEF FoundInv

LEMMA OwesStep ==
    ASSUME Inv, FoundInv, [Next]_vars
    PROVE  Owes'
<1>0. /\ lost \subseteq lost' /\ acked \subseteq acked' /\ config' = config
      /\ op \in [Clients -> Ops] /\ Owes
    BY HistoryGrows DEF Inv, TypeOK, FoundInv
<1>1. CASE UNCHANGED vars
    BY <1>0, <1>1, OwesFrame DEF vars
<1>2. ASSUME NEW c \in Clients, NEW o, op' = [op EXCEPT ![c] = o],
             o.pc \notin {"read", "answered"}
      PROVE  Owes'
    BY <1>0, <1>2, OwesFrame
<1>3. ASSUME NEW c \in Clients, NEW t \in Threads, NEW s \in Steps, BeginSave(c, t, s)
      PROVE  Owes'
    <2>1. \E o : o.pc = "write" /\ op' = [op EXCEPT ![c] = o]
        BY <1>3, Begins
    <2> QED BY <1>2, <2>1
<1>4. ASSUME NEW c \in Clients, SaveStep(c) PROVE Owes'
    <2>1. CASE Save(c) \/ Rename(c) \/ RefreshIndex(c) \/ SaveFails(c)
        <3>1. op' = [op EXCEPT ![c] = Idle]
            BY <2>1 DEF Save, Rename, RefreshIndex, SaveFails, Become
        <3> QED BY <1>2, <3>1 DEF Idle
    <2>2. CASE WriteTemp(c) \/ AddToIndex(c)
        <3>1. \E o : o.pc \in {"rename", "expire"} /\ op' = [op EXCEPT ![c] = o]
            BY <1>0, <2>2 DEF WriteTemp, AddToIndex, Goto, Ops
        <3> QED BY <1>2, <3>1
    <2>3. CASE SetPayload(c)
        <3>1. \E o : o.pc = "sadd" /\ op' = [op EXCEPT ![c] = o]
            BY <1>0, <2>3 DEF SetPayload, Become, Ops
        <3> QED BY <1>2, <3>1
    <2> QED BY <1>4, <2>1, <2>2, <2>3 DEF SaveStep
<1>5. ASSUME NEW c \in Clients, NEW r \in rows, Delete(c, r.thread, r.id) PROVE Owes'
    <2>1. op' = op \/ \E o : o.pc = "srem" /\ op' = [op EXCEPT ![c] = o]
        BY <1>5 DEF Delete, Become, Idle
    <2> QED BY <1>0, <1>2, <2>1, OwesFrame
<1>6. ASSUME NEW c \in Clients, RemoveFromIndex(c) PROVE Owes'
    BY <1>2, <1>6 DEF RemoveFromIndex, Become, Idle
<1>7. ASSUME NEW c \in Clients, NEW t \in Threads, BeginLatest(c, t) PROVE Owes'
    BY <1>7, BeginLatestRepays
<1>8. ASSUME NEW c \in Clients, NEW id, ReadOne(c, id) PROVE Owes'
    BY <1>8, ReadOneRepays
<1>9. ASSUME NEW c \in Clients, LoadLatest(c) PROVE Owes'
    BY <1>9, LoadLatestRepays
<1>10. CASE Tick
    BY <1>0, <1>10, OwesFrame DEF Tick
<1> QED BY <1>1, <1>3, <1>4, <1>5, <1>6, <1>7, <1>8, <1>9, <1>10 DEF Next

-----------------------------------------------------------------------------
LEMMA InitFound == Init => FoundInv
<1> SUFFICES ASSUME Init PROVE FoundInv
    OBVIOUS
<1>1. Known = {}
    BY DEF Init, Known, Holding, Idle, Saving
<1>2. KnownInv
    BY <1>1 DEF KnownInv, Named, BoundedSteps
<1>3. Places /\ Indexed /\ Owes
    BY DEF Init, Places, Indexed, Owes, Repays, Idle
<1> QED BY <1>2, <1>3 DEF FoundInv

LEMMA NextFound ==
    ASSUME NoReusedNames, Inv, FoundInv, [Next]_vars
    PROVE  FoundInv'
BY KnownStep, PlacesStep, IndexedStep, OwesStep DEF FoundInv, NoReusedNames

(* What Save acknowledged is listed until it is deleted or saved over, and *)
(* Latest never answers with a step below one that was acknowledged when   *)
(* the call began and is still there, in every store that does not expire: *)
(* however many clients save, delete and list at once, and whichever fail. *)
THEOREM AcknowledgedFound == ASSUME NoReusedNames PROVE Spec => []AcknowledgedIsFound
<1>1. Inv /\ FoundInv => AcknowledgedIsFound
    <2> SUFFICES ASSUME Inv, FoundInv PROVE AcknowledgedIsFound
        OBVIOUS
    <2>1. AcknowledgedIsListed
        <3> SUFFICES ASSUME ~Expires, NEW cp \in acked, cp.stamp \notin lost
                     PROVE  cp \in Listed(cp.owner)
            BY DEF AcknowledgedIsListed
        <3>1. cp \in Owned(cp.owner) /\ cp.thread = cp.owner
            BY OwedIsRow DEF Owned
        <3>2. Backend = "redis" => cp.id \in IndexNames(cp.owner)
            BY <3>1 DEF FoundInv, Indexed, IndexNames
        <3> QED BY <3>1, <3>2 DEF Listed
    <2>2. ASSUME NEW c \in Clients, ~Expires, op[c].pc = "answered", NEW cp \in op[c].due,
                 cp.stamp \notin lost
          PROVE  \E r \in op[c].found : r.step >= cp.step
        BY <2>2 DEF FoundInv, Owes, Repays
    <2> QED BY <2>1, <2>2 DEF AcknowledgedIsFound
<1>2. NoSharedKeys
    BY DEF NoReusedNames
<1>3. Inv /\ FoundInv /\ [Next]_vars => (Inv /\ FoundInv)'
    BY <1>2, NextInv, NextFound
<1>4. Init => Inv /\ FoundInv
    BY InitInv, InitFound
<1> QED BY <1>1, <1>3, <1>4, PTL DEF Spec

==============================================================================
