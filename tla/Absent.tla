------------------------------- MODULE Absent -------------------------------
(* Python's None, one value for every module that needs it.                *)
CONSTANT None
=============================================================================
