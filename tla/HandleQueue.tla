----------------------------- MODULE HandleQueue -----------------------------
(***************************************************************************)
(* What the executor of coroutine_frame/core promises to its callers,      *)
(* without its mutex, condition variable and thread program counters: a    *)
(* first-in first-out hand-over of coroutine handles to worker threads     *)
(* that stays open until shutdown() and has delivered everything it        *)
(* accepted when shutdown() returns.                                       *)
(***************************************************************************)
EXTENDS Naturals, Sequences

CONSTANTS Handles,    (* coroutine handles                                 *)
          Workers,    (* worker threads                                    *)
          NoHandle    (* "the worker resumes nothing"                      *)

VARIABLES pending,    (* accepted handles, oldest first                    *)
          on,         (* on[w]: the handle worker w is resuming            *)
          open,       (* FALSE once shutdown() has stopped the queue       *)
          down        (* TRUE once a call of shutdown() has returned       *)

vars == <<pending, on, open, down>>

PendingSet == {pending[i] : i \in 1 .. Len(pending)}

Init ==
  /\ pending = <<>>
  /\ on = [w \in Workers |-> NoHandle]
  /\ open = TRUE
  /\ down = FALSE

(* A handle is accepted only if nobody else holds it: it is neither        *)
(* pending nor being resumed.                                              *)
Accept(h) ==
  /\ open
  /\ h \notin PendingSet
  /\ \A w \in Workers : on[w] # h
  /\ pending' = Append(pending, h)
  /\ UNCHANGED <<on, open, down>>

Deliver(w) ==
  /\ pending # <<>>
  /\ on[w] = NoHandle
  /\ ~down
  /\ on' = [on EXCEPT ![w] = Head(pending)]
  /\ pending' = Tail(pending)
  /\ UNCHANGED <<open, down>>

(* The coroutine suspends or ends: the worker no longer touches it.        *)
LetGo(w) ==
  /\ on[w] # NoHandle
  /\ on' = [on EXCEPT ![w] = NoHandle]
  /\ UNCHANGED <<pending, open, down>>

Close ==
  /\ open' = FALSE
  /\ UNCHANGED <<pending, on, down>>

(* shutdown() returns only when nothing is pending and nothing runs.       *)
Return ==
  /\ ~open
  /\ pending = <<>>
  /\ \A w \in Workers : on[w] = NoHandle
  /\ down' = TRUE
  /\ UNCHANGED <<pending, on, open>>

Next ==
  \/ \E h \in Handles : Accept(h)
  \/ \E w \in Workers : Deliver(w) \/ LetGo(w)
  \/ Close
  \/ Return

Spec == Init /\ [][Next]_vars
=============================================================================
