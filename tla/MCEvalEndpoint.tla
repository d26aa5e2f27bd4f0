--------------------------- MODULE MCEvalEndpoint ---------------------------
(***************************************************************************)
(* EvalEndpoint for TLC.  Request and episode ids are only compared, so    *)
(* they are symmetric.                                                     *)
(***************************************************************************)
EXTENDS EvalEndpoint, TLC

Symmetry == Permutations(Ids) \cup Permutations(Episodes)
=============================================================================
