------------------------------ MODULE MCWhenAll ------------------------------
(* when_all and when_all_void with the calls as model values.              *)
EXTENDS WhenAll

OneEach == [c \in Calls |-> 1]
TwoEach == [c \in Calls |-> 2]
=============================================================================
