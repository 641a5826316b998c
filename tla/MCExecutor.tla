----------------------------- MODULE MCExecutor -----------------------------
(* The executor with its threads and handles as model values.  No symmetry *)
(* is declared: the run checks liveness, for which it would be unsound.    *)
EXTENDS Executor
=============================================================================
