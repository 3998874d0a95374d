--------------------------- MODULE DatabaseService ---------------------------
(* Connections to Postgres and the rows they reach (database.go of           *)
(* pkg/persistence): DatabaseConnectionManager, whose pools are opened,      *)
(* replaced and closed by several goroutines, PostgresCheckpointer with its  *)
(* documents, and SessionManager. Checkpoints are in module Checkpointer.    *)
(*                                                                           *)
(* The database is external: a statement is one step, the rows of a          *)
(* transaction are locked until it ends and foreign keys are checked.        *)
EXTENDS Naturals, Sequences, FiniteSets

CONSTANTS
    Clients,    \* goroutines
    ConnectionNames,      \* names of connections
    Configs,    \* configurations of a checkpointer: [vector, rag]
    Documents, Threads,     \* their IDs
    MaxPools    \* bound: pools opened

VARIABLES
    pools,          \* the sql.DBs made so far: "open" or "closed"
    connections,    \* DatabaseConnectionManager.connections: name -> pool
    checkpointers,  \* PostgresCheckpointers in use: [pool, config]
    client,         \* what each goroutine is in the middle of
    schema,         \* the documents table: "none", "plain", or "vector" with embeddings
    threads,        \* table threads: id -> "named" or "unnamed" (a NULL name)
    documents,      \* table documents: id -> its thread
    sessions,       \* table sessions: the threads that have one
    named           \* ghost: threads that a document was saved for

poolVars == <<pools, connections, checkpointers>>
tableVars == <<schema, threads, documents, sessions, named>>
databaseVars == <<poolVars, client, tableVars>>

(* A row or an entry, written over the one there may be.                     *)
WithAll(table, keys, v) == [k \in DOMAIN table \union keys |-> IF k \in keys THEN v ELSE table[k]]
With(table, key, v) == WithAll(table, {key}, v)

Idle == [at |-> "idle"]
NoThread == ""
Free(c) == client[c] = Idle
Become(c, activity) == client' = [client EXCEPT ![c] = activity]
Finish(c) == Become(c, Idle)

DatabaseInit ==
    /\ pools = <<>> /\ connections = <<>> /\ checkpointers = {}
    /\ client = [c \in Clients |-> Idle]
    /\ schema = "none" /\ threads = <<>> /\ documents = <<>> /\ sessions = {} /\ named = {}

-----------------------------------------------------------------------------
(* PostgresConnection.Connect: sql.Open makes the pool, of which Close is    *)
(* idempotent. Other types of databases are refused before anything is done. *)
Open(c, purpose) ==
    /\ Free(c) /\ Len(pools) < MaxPools
    /\ pools' = Append(pools, "open")
    /\ Become(c, [at |-> "connect", pool |-> Len(pools) + 1, purpose |-> purpose])
    /\ UNCHANGED <<connections, checkpointers, tableVars>>

Close(p) == pools' = [pools EXCEPT ![p] = "closed"]

(* Its max_lifetime is a duration, and Ping gets an answer in five seconds.  *)
Connect(c) ==
    /\ client[c].at = "connect"
    /\ \/ Close(client[c].pool) /\ Finish(c)
       \/ /\ Become(c, [client[c] EXCEPT !.at = IF client[c].purpose \in ConnectionNames THEN "register" ELSE "schema"])
          /\ UNCHANGED pools
    /\ UNCHANGED <<connections, checkpointers, tableVars>>

Bug_ReplacedStaysOpen(c) ==
    /\ client[c].at = "register"
    /\ connections' = With(connections, client[c].purpose, client[c].pool)
    /\ Finish(c)
    /\ UNCHANGED <<pools, checkpointers, tableVars>>

(* The end of AddConnection, in two steps: the entry is written under the    *)
(* mutex, and the pool it replaces is closed after that.                     *)
AddConnection(c) ==
    /\ client[c].at = "register"
    /\ LET name == client[c].purpose IN
       /\ connections' = With(connections, name, client[c].pool)
       /\ IF name \in DOMAIN connections THEN Become(c, [at |-> "close", left |-> {connections[name]}])
          ELSE Finish(c)
    /\ UNCHANGED <<pools, checkpointers, tableVars>>

(* CloseAll takes the whole map and closes one pool after the other.         *)
CloseAll(c) ==
    /\ Free(c) /\ DOMAIN connections # {}
    /\ connections' = <<>>
    /\ Become(c, [at |-> "close", left |-> {connections[n] : n \in DOMAIN connections}])
    /\ UNCHANGED <<pools, checkpointers, tableVars>>

CloseNext(c) ==
    /\ client[c].at = "close"
    /\ \E p \in client[c].left :
          /\ Close(p)
          /\ IF client[c].left = {p} THEN Finish(c)
             ELSE Become(c, [client[c] EXCEPT !.left = @ \ {p}])
    /\ UNCHANGED <<connections, checkpointers, tableVars>>

(* initSchema. A documents table made without embeddings is left as it is,   *)
(* and the index on the column it lacks is refused with all the rest.        *)
InitSchema(c) ==
    /\ client[c].at = "schema"
    /\ LET config == client[c].purpose
           fits   == ~(config.rag /\ config.vector /\ schema = "plain")
       IN  \/ Close(client[c].pool) /\ UNCHANGED <<checkpointers, schema>>
           \/ /\ fits
              /\ checkpointers' = checkpointers \union {[pool |-> client[c].pool, config |-> config]}
              /\ schema' = IF ~config.rag \/ schema # "none" THEN schema
                           ELSE IF config.vector THEN "vector" ELSE "plain"
              /\ UNCHANGED pools
    /\ Finish(c)
    /\ UNCHANGED <<connections, threads, documents, sessions, named>>

CloseCheckpointer(c) ==
    /\ Free(c)
    /\ \E k \in checkpointers : Close(k.pool) /\ checkpointers' = checkpointers \ {k}
    /\ UNCHANGED <<connections, client, tableVars>>

-----------------------------------------------------------------------------
(* SaveDocument, up to BeginTx: a closed pool starts no transaction, and one *)
(* begun goes on when its pool is closed.                                    *)
SaveDocument(c) ==
    /\ Free(c)
    /\ \E k \in checkpointers, d \in Documents, t \in Threads \union {NoThread} :
          /\ k.config.rag /\ pools[k.pool] = "open"
          /\ Become(c, [at |-> IF t = NoThread THEN "document" ELSE "thread", doc |-> d, thread |-> t,
                        threads |-> {}, documents |-> {}])
    /\ UNCHANGED <<poolVars, tableVars>>

Transactions == {c \in Clients : client[c].at \in {"thread", "document", "commit"}}

(* A row another transaction has inserted is waited for.                     *)
InsertThread(c) ==
    /\ client[c].at = "thread"
    /\ \A o \in Transactions \ {c} : client[c].thread \notin client[o].threads
    /\ Become(c, [client[c] EXCEPT !.at = "document", !.threads = {client[c].thread} \ DOMAIN threads])
    /\ UNCHANGED <<poolVars, tableVars>>

(* A new row must name a thread there is, "" being none.                     *)
UpsertDocument(c) ==
    /\ client[c].at = "document"
    /\ \A o \in Transactions \ {c} : client[c].doc \notin client[o].documents
    /\ client[c].doc \in DOMAIN documents \/ client[c].thread \in DOMAIN threads \union client[c].threads
    /\ Become(c, [client[c] EXCEPT !.at = "commit", !.documents = {client[c].doc}])
    /\ UNCHANGED <<poolVars, tableVars>>

(* The thread of a row there is stays; its embedding stays too when the new  *)
(* content comes without one.                                                *)
Written(c) ==
    IF client[c].doc \in DOMAIN documents THEN documents[client[c].doc] ELSE client[c].thread

Commit(c) ==
    /\ client[c].at = "commit"
    /\ threads' = WithAll(threads, client[c].threads, "unnamed")
    /\ documents' = With(documents, client[c].doc, Written(c))
    /\ named' = named \union {client[c].thread}
    /\ Finish(c)
    /\ UNCHANGED <<poolVars, schema, sessions>>

Bug_NoRollback(c) ==
    /\ c \in Transactions
    /\ threads' = WithAll(threads, client[c].threads, "unnamed")
    /\ Finish(c)
    /\ UNCHANGED <<poolVars, schema, documents, sessions, named>>

(* A statement is refused, fails or panics, or the context ends.             *)
Rollback(c) ==
    /\ c \in Transactions
    /\ Finish(c)
    /\ UNCHANGED <<poolVars, tableVars>>

-----------------------------------------------------------------------------
(* GetConnection, for a SessionManager that keeps what it got.               *)
GetConnection(c) ==
    /\ Free(c)
    /\ \E n \in DOMAIN connections : Become(c, [at |-> "sessions", pool |-> connections[n]])
    /\ UNCHANGED <<poolVars, tableVars>>

Usable(c) == client[c].at = "sessions" /\ pools[client[c].pool] = "open"

CreateThread(c) ==
    /\ Usable(c)
    /\ \E t \in Threads \ DOMAIN threads :
          /\ \A o \in Transactions : t \notin client[o].threads
          /\ threads' = With(threads, t, "named")
    /\ UNCHANGED <<poolVars, client, schema, documents, sessions, named>>

(* CreateSession. The one of POST /sessions names no thread, and is refused. *)
CreateSession(c) ==
    /\ Usable(c)
    /\ \E t \in Threads \union {NoThread} : t \in DOMAIN threads /\ sessions' = sessions \union {t}
    /\ UNCHANGED <<poolVars, client, schema, threads, documents, named>>

Leave(c) ==
    /\ client[c].at = "sessions"
    /\ Finish(c)
    /\ UNCHANGED <<poolVars, tableVars>>

DatabaseNext ==
    \E c \in Clients :
        \/ \E purpose \in ConnectionNames \union Configs : Open(c, purpose)
        \/ Connect(c) \/ AddConnection(c) \/ CloseAll(c) \/ CloseNext(c)
        \/ InitSchema(c) \/ CloseCheckpointer(c)
        \/ SaveDocument(c) \/ InsertThread(c) \/ UpsertDocument(c) \/ Commit(c) \/ Rollback(c)
        \/ GetConnection(c) \/ CreateThread(c) \/ CreateSession(c) \/ Leave(c)

DatabaseSpec == DatabaseInit /\ [][DatabaseNext]_databaseVars

-----------------------------------------------------------------------------
(* The pools a goroutine is still going to register or close.                *)
InHand(c) ==
    CASE client[c].at \in {"connect", "register", "schema"} -> {client[c].pool}
      [] client[c].at = "close" -> client[c].left
      [] OTHER -> {}

(* Failures and replacements leave nothing behind: an open pool is known to  *)
(* the manager, to a checkpointer or to the goroutine that is about to       *)
(* register or close it, the manager hands out no closed one, and a thread   *)
(* nobody created is there because a document was saved for it.              *)
NothingIsLeaked ==
    /\ \A p \in DOMAIN pools : pools[p] = "open" =>
          \/ \E n \in DOMAIN connections : connections[n] = p
          \/ \E k \in checkpointers : k.pool = p
          \/ \E c \in Clients : p \in InHand(c)
    /\ \A n \in DOMAIN connections : pools[connections[n]] = "open"
    /\ \A t \in DOMAIN threads : threads[t] = "unnamed" => t \in named
==============================================================================
