------------------------------ MODULE MCEvalRpc -----------------------------
(***************************************************************************)
(* EvalRpc for TLC: an evaluator that resets, steps and closes.  Request   *)
(* ids are only compared, so they are symmetric in a run without liveness. *)
(***************************************************************************)
EXTENDS EvalRpc, TLC

FewRequests == Resets \cup {r \in Steps : r.index = 0} \cup Closes

Symmetry == Permutations(Ids)
=============================================================================
