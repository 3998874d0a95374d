---------------------------- MODULE MCGraphEngine ----------------------------
(* Small graphs and calls for the runs of GraphEngine.                      *)
EXTENDS GraphEngine, TLC

None == [n \in {} |-> {}]
G(nodes, start, ends, edges, tables) ==
    [nodes |-> nodes, start |-> start, ends |-> ends, edges |-> edges, tables |-> tables,
     broken |-> FALSE]

(* draft may loop, go on to publish, or be sent to a key that is not in its *)
(* table; publish is an end node.                                           *)
LoopGraph == G({"draft", "publish"}, "draft", {"publish"}, <<>>,
    [n \in {"draft"} |-> [k \in {"draft", "publish"} |-> k]])
LoopNames == {"draft", "publish", "lost"}

(* draft leads to a review that sends it back, or to publish; a key outside *)
(* the table is an error, the END key ends the run.                         *)
ReviewGraph == G({"draft", "review", "publish"}, "draft", {"publish"},
    <<Edge("review", "draft", FALSE)>>,
    [n \in {"draft"} |-> [k \in {"review", "publish"} |-> k]])
ReviewNames == {"draft", "review", "publish", "lost", END}

(* A straight line. *)
LineGraph == G({"draft", "publish"}, "draft", {"publish"},
    <<Edge("draft", "publish", FALSE)>>, None)
LineNames == {"draft", "publish"}

RunSymmetry == Permutations(Runs)

NoNodes == {}
DraftOnly == {"draft"}
MCReviewUpdates == [n \in ReviewGraph.nodes |-> {"update"}]
MCReviewNoRetry == [n \in ReviewGraph.nodes |-> 0]
MCFlaky   == [n \in {"draft", "publish"} |->
                IF n = "draft" THEN {"update", "keep", "error"} ELSE {"update"}]
MCMayFail == [n \in {"draft", "publish"} |->
                IF n = "draft" THEN {"update", "error"} ELSE {"update"}]
MCNoRetry == [n \in {"draft", "publish"} |-> 0]
MCOneRetry == [n \in {"draft", "publish"} |-> IF n = "draft" THEN 1 ELSE 0]
==============================================================================
