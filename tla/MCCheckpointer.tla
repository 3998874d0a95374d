---------------------------- MODULE MCCheckpointer ----------------------------
(* Small instances of the checkpoint stores. *)
EXTENDS Checkpointer, TLC

Store(b, n, ttl) == [backend |-> b, naming |-> n, ttl |-> ttl]

(* Every store under names it is safe with; Redis with and without expiry.  *)
SafeStores ==
    {Store("memory", "nodeStep", 0), Store("file", "nodeStep", 0),
     Store("postgres", "unique", 0), Store("redis", "unique", 0),
     Store("redis", "nodeStep", 1)}

PostgresByNode == {Store("postgres", "nodeStep", 0)}

(* Two saves are enough where keys expire: one may be gone, one there.      *)
FewerSavesWithExpiry == Expires => clock <= 2

Symmetry == Permutations(Threads) \cup Permutations(Clients)
==============================================================================
