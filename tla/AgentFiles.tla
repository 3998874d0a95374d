------------------------------ MODULE AgentFiles ------------------------------
(* Files of agents (pkg/agent/backends, FilesystemMiddleware): a             *)
(* CompositeBackend that routes paths to StoreBackends, each a namespace of  *)
(* one persistence.Store, and to a StateBackend; and the map that the tools  *)
(* of the middleware keep under a lock.                                      *)
(*                                                                           *)
(* A path is split at "/": "/m/f" is <<"", "m", "f">> and the root is        *)
(* <<"">>. A content is a sequence of words. Namespaces contain no ":".      *)
EXTENDS Naturals, Sequences, SequencesExt, FiniteSets

CONSTANTS
    Clients,
    Namespaces,     \* of the StoreBackends
    Routes,         \* what AddRoute may be called with: [prefix, backend]
    Paths, Directories, Contents, Edits,    \* what the other operations may be called with
    MaxRoutes, MaxChanges   \* bounds

VARIABLES
    routes,     \* CompositeBackend.routes: [prefix, backend]
    added,      \* ghost: the calls of AddRoute in their order
    held,       \* "store", "state", "files" -> key -> content
    client,     \* what each client is in the middle of
    changes,    \* writes, edits and deletions so far
    serial,     \* ghost: contents if each operation happened when it ended
    torn        \* ghost: where an edit ended that another change overlapped

vars == <<routes, added, held, client, changes, serial, torn>>

Idle == [at |-> "idle"]
Become(c, activity) == client' = [client EXCEPT ![c] = activity]
Finish(c) == Become(c, Idle)

Init ==
    /\ routes = <<>> /\ added = <<>>
    /\ held = [place \in {"store", "state", "files"} |-> <<>>]
    /\ client = [c \in Clients |-> Idle]
    /\ changes = 0 /\ serial = <<>> /\ torn = {}

-----------------------------------------------------------------------------
Bug_RoutesInOrderOfCalls(prefix) == Len(routes) + 1

(* Before the first route that is shorter, behind those of the same length.  *)
PlaceOfRoute(prefix) ==
    CHOOSE i \in 1 .. Len(routes) + 1 :
        /\ \A j \in 1 .. i - 1 : Len(routes[j].prefix) >= Len(prefix)
        /\ i <= Len(routes) => Len(routes[i].prefix) < Len(prefix)

(* Routes are added without a lock, before the backend is in use.            *)
AddRoute(route) ==
    /\ changes = 0 /\ \A c \in Clients : client[c] = Idle
    /\ Len(routes) < MaxRoutes
    /\ routes' = InsertAt(routes, PlaceOfRoute(route.prefix), route)
    /\ added' = Append(added, route)
    /\ UNCHANGED <<held, client, changes, serial, torn>>

Covering(path) == {i \in DOMAIN routes : IsPrefix(routes[i].prefix, path)}

GetBackend(path) ==
    IF Covering(path) = {} THEN "state"
    ELSE routes[CHOOSE i \in Covering(path) : \A j \in Covering(path) : i <= j].backend

(* Backends a call may reach: that of the path, or the middleware's own map, *)
(* which no route leads to.                                                  *)
Reached(path) == {GetBackend(path), "files"}

-----------------------------------------------------------------------------
Place(b) == IF b \in {"state", "files"} THEN b ELSE "store"

Bug_KeyWithoutNamespace(b, path) == IF Place(b) = "store" THEN <<CHOOSE n \in Namespaces : TRUE>> \o path ELSE path

(* getKey, "files:" with the namespace and the path.                         *)
Key(b, path) == IF Place(b) = "store" THEN <<b>> \o path ELSE path

Has(b, path) == Key(b, path) \in DOMAIN held[Place(b)]
Content(b, path) == held[Place(b)][Key(b, path)]

FilePaths(b) ==
    IF Place(b) # "store" THEN DOMAIN held[b]
    ELSE {Tail(k) : k \in {k \in DOMAIN held["store"] : k[1] = b}}

Change(b, path, content) ==
    held' = [held EXCEPT ![Place(b)] = [k \in {Key(b, path)} |-> content] @@ @]

Put(f, k, v) == [x \in DOMAIN f \union {k} |-> IF x = k THEN v ELSE f[x]]

Counted == changes < MaxChanges /\ changes' = changes + 1

-----------------------------------------------------------------------------
(* Write. A StateBackend returns what the caller is to put into the state.   *)
Write(c, b, path, content) ==
    /\ client[c] = Idle /\ Counted
    /\ IF b = "state"
       THEN /\ Become(c, [at |-> "update", path |-> path, content |-> content])
            /\ UNCHANGED <<held, serial>>
       ELSE /\ Change(b, path, content)
            /\ serial' = Put(serial, <<b, path>>, content)
            /\ UNCHANGED client
    /\ UNCHANGED <<routes, added, torn>>

Occurrences(content, old) == {i \in DOMAIN content : content[i] = old}

(* One occurrence, or all of them if asked to; anything else is refused.     *)
Editable(content, e) == Occurrences(content, e.old) # {} /\ (e.all \/ Cardinality(Occurrences(content, e.old)) = 1)
Edited(content, e) == [i \in DOMAIN content |-> IF content[i] = e.old THEN e.new ELSE content[i]]

Bug_NothingAtomic(b) == FALSE

(* The middleware edits under its lock; the backends read and then save.     *)
Atomic(b) == b = "files"

Edit(c, b, path, e) ==
    /\ client[c] = Idle /\ Counted
    /\ Has(b, path) /\ Editable(Content(b, path), e)
    /\ LET new == Edited(Content(b, path), e) IN
       CASE b = "state" ->
              /\ Become(c, [at |-> "update", path |-> path, content |-> new])
              /\ UNCHANGED <<held, serial>>
         [] Atomic(b) ->
              /\ Change(b, path, new) /\ serial' = Put(serial, <<b, path>>, new)
              /\ UNCHANGED client
         [] OTHER ->
              /\ Become(c, [at |-> "edit", backend |-> b, path |-> path, edit |-> e, read |-> Content(b, path)])
              /\ UNCHANGED <<held, serial>>
    /\ UNCHANGED <<routes, added, torn>>

(* saveFileData writes the whole file, also when it has been changed or      *)
(* deleted meanwhile.                                                        *)
SaveFileData(c) ==
    /\ client[c].at = "edit"
    /\ LET b == client[c].backend
           path == client[c].path
           new == Edited(client[c].read, client[c].edit)
           overlapped == ~Has(b, path) \/ Content(b, path) # client[c].read
       IN  /\ Change(b, path, new)
           /\ serial' = Put(serial, <<b, path>>,
                            IF Has(b, path) THEN Edited(Content(b, path), client[c].edit) ELSE new)
           /\ torn' = IF overlapped THEN torn \union {<<b, path>>} ELSE torn
    /\ Finish(c)
    /\ UNCHANGED <<routes, added, changes>>

(* The caller puts the update into the state, or nobody does.                *)
Apply(c) ==
    /\ client[c].at = "update"
    /\ Change("state", client[c].path, client[c].content) \/ UNCHANGED held
    /\ Finish(c)
    /\ UNCHANGED <<routes, added, changes, serial, torn>>

(* Store.Delete, which the backends do not offer.                            *)
Delete(n, path) ==
    /\ Counted /\ Has(n, path)
    /\ held' = [held EXCEPT !["store"] = [k \in DOMAIN @ \ {Key(n, path)} |-> @[k]]]
    /\ serial' = [x \in DOMAIN serial \ {<<n, path>>} |-> serial[x]]
    /\ torn' = torn \ {<<n, path>>}
    /\ client' = [c \in Clients |->
                    IF client[c].at = "list" /\ client[c].backend = n
                    THEN [client[c] EXCEPT !.there = @ \ {path}] ELSE client[c]]
    /\ UNCHANGED <<routes, added>>

-----------------------------------------------------------------------------
(* A directory holds its files, not those of the ones below; the root is all *)
(* there is.                                                                 *)
InDirectory(path, directory) == directory = <<"">> \/ Front(path) = directory

(* List: the names first, and then every file on its own. Glob and Grep go   *)
(* the same way.                                                             *)
List(c, b, directory) ==
    /\ client[c] = Idle
    /\ LET names == {p \in FilePaths(b) : InDirectory(p, directory)} IN
       Become(c, [at |-> "list", backend |-> b, directory |-> directory, left |-> names, found |-> {},
                  names |-> names, there |-> names])
    /\ UNCHANGED <<routes, added, held, changes, serial, torn>>

(* A file that has vanished fails the whole call. The other places are read  *)
(* in one piece.                                                             *)
ReadEntry(c) ==
    /\ client[c].at = "list"
    /\ \E path \in client[c].left :
          Become(c, IF ~Has(client[c].backend, path) THEN [client[c] EXCEPT !.at = "failed"]
                    ELSE [client[c] EXCEPT !.left = @ \ {path}, !.found = @ \union {path}])
    /\ UNCHANGED <<routes, added, held, changes, serial, torn>>

Listed(c) ==
    /\ client[c].at = "failed" \/ (client[c].at = "list" /\ client[c].left = {})
    /\ Finish(c)
    /\ UNCHANGED <<routes, added, held, changes, serial, torn>>

Next ==
    \/ \E route \in Routes : AddRoute(route)
    \/ \E c \in Clients, path \in Paths : \E b \in Reached(path) :
          \/ \E content \in Contents : Write(c, b, path, content)
          \/ \E e \in Edits : Edit(c, b, path, e)
    \/ \E c \in Clients, d \in Directories : List(c, GetBackend(d), d)
    \/ \E c \in Clients : SaveFileData(c) \/ Apply(c) \/ ReadEntry(c) \/ Listed(c)
    \/ \E n \in Namespaces, path \in Paths : Delete(n, path)

-----------------------------------------------------------------------------
(* Whatever the order of AddRoute, a path belongs to the longest prefix that *)
(* covers it, of equal ones the first. What a listing shows was there, and   *)
(* what was there throughout is shown; it fails only if a file was deleted   *)
(* meanwhile; and the paths it shows lead back to the files. A file is what  *)
(* the operations made of it in the order in which they ended, unless one    *)
(* changed it between the two halves of an edit, which the middleware's lock *)
(* rules out.                                                                *)
FilesAreFound ==
    /\ \A path \in Paths :
          LET over == {i \in DOMAIN added : IsPrefix(added[i].prefix, path)} IN
          over # {} => \E i \in over :
             /\ GetBackend(path) = added[i].backend
             /\ \A j \in over : Len(added[j].prefix) < Len(added[i].prefix)
                                \/ (Len(added[j].prefix) = Len(added[i].prefix) /\ j >= i)
    /\ \A c \in Clients :
          /\ client[c].at = "list" =>
                /\ client[c].found \subseteq client[c].names
                /\ client[c].left = {} => client[c].there \subseteq client[c].found
                /\ \A p \in client[c].there : GetBackend(p) = client[c].backend /\ Has(client[c].backend, p)
          /\ client[c].at = "failed" => client[c].there # client[c].names
    /\ \A <<b, path>> \in DOMAIN serial :
          <<b, path>> \notin torn => Has(b, path) /\ Content(b, path) = serial[<<b, path>>]
    /\ \A <<b, path>> \in torn : b # "files"
===============================================================================
