---------------------------- MODULE MCWithTimeout ----------------------------
(* One call of with_timeout around a task that suspends a few times.       *)
EXTENDS WithTimeout
=============================================================================
