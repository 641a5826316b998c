------------------------------ MODULE MCWhenAny ------------------------------
(* when_any on a few tasks; the children are numbered, so no symmetry.     *)
EXTENDS WhenAny
=============================================================================
