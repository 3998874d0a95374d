-------------------------------- MODULE Latest --------------------------------
(***************************************************************************)
(* How pkg/persistence chooses the checkpoint to restart a thread from:    *)
(* the function Latest of saver.go, on the metadata that List returned.    *)
(* A checkpoint has at least a step (StepID) and a stamp (CreatedAt).      *)
(***************************************************************************)
EXTENDS Naturals

(* m replaces best in the scan. *)
Beats(m, best) == m.step > best.step \/ (m.step = best.step /\ m.stamp > best.stamp)

(* A defect for the properties to catch: the time is taken before the step. *)
Bug_OldestListed(metas) == CHOOSE m \in metas : \A n \in metas : m.stamp <= n.stamp

Latest(metas) == CHOOSE best \in metas : \A m \in metas : ~Beats(m, best)
==============================================================================
