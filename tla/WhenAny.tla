------------------------------- MODULE WhenAny -------------------------------
(***************************************************************************)
(* One call of when_any (coroutine_frame/core/when_any.h).  The flag       *)
(* `completed`, the mutex, the condition variable and the result are       *)
(* locals of the calling coroutine, captured by reference by the wrapper   *)
(* lambda of every child.  The parent reads the flag and the result        *)
(* without the mutex; the lambda object itself lives for one iteration of  *)
(* the launching loop, while the wrapper coroutine made from it lives on.  *)
(***************************************************************************)
EXTENDS Naturals, FiniteSets

CONSTANT N   (* tasks.size(); an empty list throws before anything starts  *)

WhenAnyAssumption == N \in Nat \ {0}

VARIABLES
  parent,      (* where the calling coroutine is                           *)
  launched,    (* children started so far                                  *)
  child,       (* child[i]: where the wrapper of child i is                *)
  own,         (* children resumed after detach() returned                 *)
  mutex,       (* result_mutex: "free", "parent" or "child"                *)
  completed,   (* completed                                                *)
  winner,      (* the child whose value is in `result`, or 0 if empty      *)
  index        (* the index stored with it                                 *)

vars == <<parent, launched, child, own, mutex, completed, winner, index>>

Children == 1 .. N
Finished == {"returned", "threw"}
ParentStates ==
  {"launching", "looping", "locking", "holding", "asleep", "awake", "reading"} \cup Finished

(* "value": the awaited task returned; "locked", "won", "stored": holding  *)
(* the mutex before exchange, before the assignment, before the release.   *)
UsesFrame == {"value", "locked", "won", "stored"}
ChildStates == {"new", "body", "suspended", "done"} \cup UsesFrame

Init ==
  /\ parent = "launching"
  /\ launched = 0
  /\ child = [i \in Children |-> "new"]
  /\ own = {}
  /\ mutex = "free"
  /\ completed = FALSE
  /\ winner = 0 /\ index = 0

(* Once the parent is finished its frame is gone: what a child that comes  *)
(* later does with the captured references is undefined, and not followed. *)
Alive == parent \notin Finished
MoveChild(i, s) == child' = [child EXCEPT ![i] = s]

-----------------------------------------------------------------------------
DetachReturned ==
  \A i \in 1 .. launched : i \in own \/ child[i] \in {"suspended", "done"}

Launch ==
  /\ parent = "launching" /\ DetachReturned /\ launched < N
  /\ launched' = launched + 1
  /\ MoveChild(launched + 1, "body")
  /\ UNCHANGED <<parent, own, mutex, completed, winner, index>>

AllLaunched ==
  /\ parent = "launching" /\ DetachReturned /\ launched = N
  /\ parent' = "looping"
  /\ UNCHANGED <<launched, child, own, mutex, completed, winner, index>>

(* Bound: a child suspends at most once.                                   *)
ChildSuspends(i) ==
  /\ child[i] = "body" /\ i \notin own
  /\ MoveChild(i, "suspended")
  /\ UNCHANGED <<parent, launched, own, mutex, completed, winner, index>>

ChildResumes(i) ==
  /\ child[i] = "suspended"
  /\ MoveChild(i, "body")
  /\ own' = own \cup {i}
  /\ UNCHANGED <<parent, launched, mutex, completed, winner, index>>

(* The task returns a value, or throws and the wrapper swallows it.        *)
ChildSucceeds(i) ==
  /\ child[i] = "body"
  /\ MoveChild(i, "value")
  /\ UNCHANGED <<parent, launched, own, mutex, completed, winner, index>>

ChildFails(i) ==
  /\ child[i] = "body"
  /\ MoveChild(i, "done")
  /\ UNCHANGED <<parent, launched, own, mutex, completed, winner, index>>

Lock(i) ==
  /\ child[i] = "value" /\ Alive
  /\ mutex = "free" /\ mutex' = "child"
  /\ MoveChild(i, "locked")
  /\ UNCHANGED <<parent, launched, own, completed, winner, index>>

(* Mutant: the old value of the flag is ignored.                           *)
StoreFlag(i) ==
  /\ child[i] = "locked" /\ Alive
  /\ completed' = TRUE
  /\ MoveChild(i, "won")
  /\ UNCHANGED <<parent, launched, own, mutex, winner, index>>

(* if (!completed.exchange(true))                                          *)
Exchange(i) ==
  /\ child[i] = "locked" /\ Alive
  /\ completed' = TRUE
  /\ MoveChild(i, IF completed THEN "stored" ELSE "won")
  /\ UNCHANGED <<parent, launched, own, mutex, winner, index>>

(* The captured i: right while the lambda object lives, that is inside     *)
(* detach(); afterwards the object's place may hold the i of the lambda of *)
(* the iteration the loop has come to.                                     *)
CapturedIndex(i) == IF i \in own THEN {i, launched} ELSE {i}

(* Mutant: no notify_all.                                                  *)
StoreSilently(i) ==
  /\ child[i] = "won" /\ Alive
  /\ winner' = i
  /\ index' \in CapturedIndex(i)
  /\ MoveChild(i, "stored")
  /\ UNCHANGED <<parent, launched, own, mutex, completed>>

(* result = make_pair(i, value), notify_all.                               *)
Store(i) ==
  /\ child[i] = "won" /\ Alive
  /\ winner' = i
  /\ index' \in CapturedIndex(i)
  /\ parent' = IF parent = "asleep" THEN "awake" ELSE parent
  /\ MoveChild(i, "stored")
  /\ UNCHANGED <<launched, own, mutex, completed>>

Unlock(i) ==
  /\ child[i] = "stored" /\ Alive
  /\ mutex' = "free"
  /\ MoveChild(i, "done")
  /\ UNCHANGED <<parent, launched, own, completed, winner, index>>

-----------------------------------------------------------------------------
(* The waiting loop: completed.load() without the mutex, then with it.     *)
Loop ==
  /\ parent = "looping"
  /\ parent' = IF completed THEN "reading" ELSE "locking"
  /\ UNCHANGED <<launched, child, own, mutex, completed, winner, index>>

LoopLock ==
  /\ parent = "locking"
  /\ mutex = "free" /\ mutex' = "parent"
  /\ parent' = "holding"
  /\ UNCHANGED <<launched, child, own, completed, winner, index>>

(* Mutant: waits without looking again under the mutex.                    *)
NoRecheck ==
  /\ parent = "holding"
  /\ parent' = "asleep"
  /\ mutex' = "free"
  /\ UNCHANGED <<launched, child, own, completed, winner, index>>

(* The second load: wait releases the mutex and blocks, or the block ends. *)
Recheck ==
  /\ parent = "holding"
  /\ parent' = IF completed THEN "looping" ELSE "asleep"
  /\ mutex' = "free"
  /\ UNCHANGED <<launched, child, own, completed, winner, index>>

SpuriousWake ==
  /\ parent = "asleep"
  /\ parent' = "awake"
  /\ UNCHANGED <<launched, child, own, mutex, completed, winner, index>>

(* wait returns with the mutex, which the end of the block releases.       *)
WakeUp ==
  /\ parent = "awake" /\ mutex = "free"
  /\ parent' = "looping"
  /\ UNCHANGED <<launched, child, own, mutex, completed, winner, index>>

(* if (result) co_return ...; throw "when_any: unexpected state".          *)
ReadResult ==
  /\ parent = "reading"
  /\ parent' = IF winner # 0 THEN "returned" ELSE "threw"
  /\ UNCHANGED <<launched, child, own, mutex, completed, winner, index>>

(* Nothing left to do, or everybody waits: not a step of the code.         *)
Terminating ==
  /\ parent \in Finished \cup {"asleep"}
  /\ \A i \in Children : child[i] = "done" \/ (~Alive /\ child[i] \in UsesFrame)
  /\ UNCHANGED vars

ParentStep == Launch \/ AllLaunched \/ Loop \/ Recheck \/ ReadResult
ChildStep(i) ==
  ChildResumes(i) \/ ChildSucceeds(i) \/ ChildFails(i) \/ Exchange(i) \/ Store(i) \/ Unlock(i)

Next ==
  \/ ParentStep \/ LoopLock \/ WakeUp \/ SpuriousWake
  \/ \E i \in Children : ChildSuspends(i) \/ Lock(i) \/ ChildStep(i)
  \/ Terminating

Spec == Init /\ [][Next]_vars

(* Threads run, children come to their end, a mutex that is free again and *)
(* again is obtained.  No spurious wake-up is assumed.                     *)
Fairness ==
  /\ WF_vars(ParentStep) /\ SF_vars(LoopLock) /\ SF_vars(WakeUp)
  /\ \A i \in Children : WF_vars(ChildStep(i)) /\ SF_vars(Lock(i))

FairSpec == Spec /\ Fairness
-----------------------------------------------------------------------------
(* Properties                                                              *)

TypeOK ==
  /\ parent \in ParentStates
  /\ launched \in 0 .. N
  /\ child \in [Children -> ChildStates]
  /\ own \in SUBSET Children
  /\ mutex \in {"free", "parent", "child"}
  /\ completed \in BOOLEAN
  /\ winner \in 0 .. N /\ index \in 0 .. N

(* First wins: the result is written once, by the child whose exchange saw *)
(* FALSE, and later successes leave it alone while the parent reads it.    *)
ResultWrittenOnce ==
  [][winner # 0 => winner' = winner /\ index' = index]_vars

(* No lost wake-up: the parent does not sleep on a completed flag unless   *)
(* the winner has still to notify.                                         *)
NoSleepOnWinner ==
  parent = "asleep" /\ completed => \E i \in Children : child[i] = "won"

(* If some child produces a value, the call ends.                          *)
SuccessEndsCall ==
  (\E i \in Children : child[i] = "value") ~> parent \in Finished

(* "Wait for the first task to complete and return its result"             *)
(* (when_any.h:15): the call does not throw "unexpected state".            *)
NoUnexpectedState == parent # "threw"
=============================================================================
