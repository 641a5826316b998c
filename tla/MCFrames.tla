------------------------------ MODULE MCFrames ------------------------------
(* One task, started in each of the ways there are, and up to two tasks    *)
(* that it or they call.                                                   *)
EXTENDS Frames
=============================================================================
