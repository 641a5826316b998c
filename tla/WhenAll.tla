------------------------------- MODULE WhenAll -------------------------------
(***************************************************************************)
(* when_all(vector) and when_all_void of coroutine_frame/core/when_all.h:  *)
(* each call runs on a worker of the pool, starts its children detached,   *)
(* and blocks that worker on a condition variable until a counter of       *)
(* finished children reaches their number.  The two functions differ in    *)
(* where the counter is advanced: under the mutex (when_all_state) or      *)
(* outside it (the lambda of when_all_void).  Calls of both kinds share    *)
(* the pool.                                                               *)
(*                                                                         *)
(* A child started by detach() runs on its parent's worker up to its first *)
(* suspension; resumed later, it needs a worker of its own.  A suspended   *)
(* child stands for any awaiting of a timer, of I/O or of the executor.    *)
(***************************************************************************)
EXTENDS Naturals, FiniteSets

CONSTANTS
  Calls,         (* concurrent calls                                       *)
  N,             (* N[c]: children of call c, tasks.size()                 *)
  Void,          (* the calls of when_all_void; the others are when_all    *)
  Pool           (* worker threads of the executor                         *)

WhenAllAssumption ==
  /\ IsFiniteSet(Calls) /\ Void \subseteq Calls
  /\ N \in [Calls -> Nat \ {0}]   \* empty input returns at once (when_all.h:77-79)
  /\ Pool \in Nat \ {0}

VARIABLES
  parent,      (* parent[c]: where the call is                             *)
  launched,    (* launched[c]: children started so far                     *)
  child,       (* child[c][i]: where child i is                            *)
  own,         (* own[c]: children resumed on a worker of their own        *)
  completed,   (* completed[c]                                             *)
  exception    (* exception[c]: the child whose exception is kept, or 0    *)

vars == <<parent, launched, child, own, completed, exception>>

Children(c) == 1 .. N[c]
ParentStates == {"queued", "launching", "looping", "locking", "holding", "asleep", "awake", "returned"}

(* A parent is "holding" from its second is_done() to the wait, mutex in    *)
(* hand.  A child's "body" runs on the parent's worker, inside detach(), or *)
(* on its own; "ok" and "failed": the awaited task has ended; "counting":   *)
(* before fetch_add outside the mutex; "notify": before notify_all.         *)
Ending == {"ok", "failed", "counting", "notify"}
ChildStates == {"new", "body", "suspended", "done"} \cup Ending

Init ==
  /\ parent = [c \in Calls |-> "queued"]
  /\ launched = [c \in Calls |-> 0]
  /\ child = [c \in Calls |-> [i \in Children(c) |-> "new"]]
  /\ own = [c \in Calls |-> {}]
  /\ completed = [c \in Calls |-> 0]
  /\ exception = [c \in Calls |-> 0]

-----------------------------------------------------------------------------
(* Workers: a call occupies one from its first step to its return; a child *)
(* that was suspended once occupies one whenever it is not suspended.      *)
OnOwnWorker(c) == {i \in own[c] : child[c][i] \in {"body"} \cup Ending}
Busy ==
  Cardinality({c \in Calls : parent[c] \notin {"queued", "returned"}})
  + Cardinality(UNION {{c} \X OnOwnWorker(c) : c \in Calls})
FreeWorker == Busy < Pool

MoveParent(c, s) == parent' = [parent EXCEPT ![c] = s]
MoveChild(c, i, s) == child' = [child EXCEPT ![c][i] = s]

(* co_await schedule_on(executor): a worker takes the call up.             *)
Begin(c) ==
  /\ parent[c] = "queued"
  /\ FreeWorker
  /\ MoveParent(c, "launching")
  /\ UNCHANGED <<launched, child, own, completed, exception>>

(* The last detach() has returned: its child suspended or is done.         *)
DetachReturned(c) ==
  \A i \in 1 .. launched[c] : i \in own[c] \/ child[c][i] \in {"suspended", "done"}

Launch(c) ==
  /\ parent[c] = "launching"
  /\ DetachReturned(c)
  /\ launched[c] < N[c]
  /\ launched' = [launched EXCEPT ![c] = @ + 1]
  /\ MoveChild(c, launched[c] + 1, "body")
  /\ UNCHANGED <<parent, own, completed, exception>>

AllLaunched(c) ==
  /\ parent[c] = "launching"
  /\ DetachReturned(c)
  /\ launched[c] = N[c]
  /\ MoveParent(c, "looping")
  /\ UNCHANGED <<launched, child, own, completed, exception>>

(* The executor may resume it on another worker before detach() returned.  *)
(* Bound: a child suspends at most once.                                   *)
ChildSuspends(c, i) ==
  /\ child[c][i] = "body"
  /\ i \notin own[c]
  /\ MoveChild(c, i, "suspended")
  /\ UNCHANGED <<parent, launched, own, completed, exception>>

ChildResumes(c, i) ==
  /\ child[c][i] = "suspended"
  /\ FreeWorker
  /\ MoveChild(c, i, "body")
  /\ own' = [own EXCEPT ![c] = @ \cup {i}]
  /\ UNCHANGED <<parent, launched, completed, exception>>

(* The awaited task returns a value or throws.                             *)
ChildEnds(c, i) ==
  /\ child[c][i] = "body"
  /\ \E s \in {"ok", "failed"} : MoveChild(c, i, s)
  /\ UNCHANGED <<parent, launched, own, completed, exception>>

KeepFirst(c, i) == exception' = [exception EXCEPT ![c] = IF @ = 0 THEN i ELSE @]

(* set_result / set_exception: one locked block with the counter in it.    *)
SetLocked(c, i) ==
  /\ c \notin Void /\ parent[c] # "holding"
  /\ \/ child[c][i] = "ok" /\ UNCHANGED exception
     \/ child[c][i] = "failed" /\ KeepFirst(c, i)
  /\ completed' = [completed EXCEPT ![c] = @ + 1]
  /\ MoveChild(c, i, "notify")
  /\ UNCHANGED <<parent, launched, own>>

(* when_all_void: only the exception is stored under the mutex ...         *)
StoreException(c, i) ==
  /\ c \in Void
  /\ \/ child[c][i] = "ok" /\ UNCHANGED exception
     \/ child[c][i] = "failed" /\ parent[c] # "holding" /\ KeepFirst(c, i)
  /\ MoveChild(c, i, "counting")
  /\ UNCHANGED <<parent, launched, own, completed>>

(* ... and the counter is advanced without it.                             *)
Count(c, i) ==
  /\ child[c][i] = "counting"
  /\ completed' = [completed EXCEPT ![c] = @ + 1]
  /\ MoveChild(c, i, "notify")
  /\ UNCHANGED <<parent, launched, own, exception>>

(* Mutant: the wake-up is forgotten.                                       *)
NotifyNobody(c, i) ==
  /\ child[c][i] = "notify"
  /\ MoveChild(c, i, "done")
  /\ UNCHANGED <<parent, launched, own, completed, exception>>

NotifyAll(c, i) ==
  /\ child[c][i] = "notify"
  /\ MoveChild(c, i, "done")
  /\ parent' = [parent EXCEPT ![c] = IF @ = "asleep" THEN "awake" ELSE @]
  /\ UNCHANGED <<launched, own, completed, exception>>

(* Mutant: `completed + 1 >= total`.                                       *)
LoopDoneEarly(c) ==
  /\ parent[c] = "looping"
  /\ completed[c] + 1 >= N[c]
  /\ MoveParent(c, "returned")
  /\ UNCHANGED <<launched, child, own, completed, exception>>

(* The waiting loop: is_done() without the mutex, then again with it.      *)
LoopDone(c) ==
  /\ parent[c] = "looping"
  /\ completed[c] >= N[c]
  /\ MoveParent(c, "returned")
  /\ UNCHANGED <<launched, child, own, completed, exception>>

LoopLock(c) ==
  /\ parent[c] = "looping"
  /\ completed[c] < N[c]
  /\ MoveParent(c, "locking")
  /\ UNCHANGED <<launched, child, own, completed, exception>>

(* Mutant: waits without looking again under the mutex.                    *)
NoRecheck(c) ==
  /\ parent[c] = "locking"
  /\ MoveParent(c, "holding")
  /\ UNCHANGED <<launched, child, own, completed, exception>>

(* Lock, then is_done() again; the mutex is kept up to the wait.  Children *)
(* hold it for one step only, so it is free here.                          *)
Recheck(c) ==
  /\ parent[c] = "locking"
  /\ MoveParent(c, IF completed[c] < N[c] THEN "holding" ELSE "looping")
  /\ UNCHANGED <<launched, child, own, completed, exception>>

(* cv.wait releases the mutex and blocks.                                  *)
Sleep(c) ==
  /\ parent[c] = "holding"
  /\ MoveParent(c, "asleep")
  /\ UNCHANGED <<launched, child, own, completed, exception>>

SpuriousWake(c) ==
  /\ parent[c] = "asleep"
  /\ MoveParent(c, "awake")
  /\ UNCHANGED <<launched, child, own, completed, exception>>

(* wait returns with the mutex, which the end of the block releases.       *)
WakeUp(c) ==
  /\ parent[c] = "awake"
  /\ MoveParent(c, "looping")
  /\ UNCHANGED <<launched, child, own, completed, exception>>

Terminating ==
  /\ \A c \in Calls : parent[c] = "returned" /\ \A i \in Children(c) : child[c][i] = "done"
  /\ UNCHANGED vars

ParentStep(c) ==
  \/ Begin(c) \/ Launch(c) \/ AllLaunched(c)
  \/ LoopDone(c) \/ LoopLock(c) \/ Recheck(c) \/ Sleep(c) \/ WakeUp(c)
ChildStep(c, i) == ChildResumes(c, i) \/ ChildEnds(c, i) \/ Count(c, i) \/ NotifyAll(c, i)
ChildLocks(c, i) == SetLocked(c, i) \/ StoreException(c, i)

Next ==
  \/ \E c \in Calls :
       \/ ParentStep(c) \/ SpuriousWake(c)
       \/ \E i \in Children(c) : ChildSuspends(c, i) \/ ChildLocks(c, i) \/ ChildStep(c, i)
  \/ Terminating

Spec == Init /\ [][Next]_vars

(* Threads run; a child comes to its end; the executor resumes what is     *)
(* queued when a worker stays free (Executor!AcceptedIsResumed); a mutex   *)
(* that is free again and again is obtained (SF: a parent woken spuriously *)
(* may take it in between).  No spurious wake-up is assumed.               *)
Fairness ==
  \A c \in Calls :
    /\ WF_vars(ParentStep(c))
    /\ \A i \in Children(c) : WF_vars(ChildStep(c, i)) /\ SF_vars(ChildLocks(c, i))

FairSpec == Spec /\ Fairness

-----------------------------------------------------------------------------
(* Properties                                                              *)

TypeOK ==
  /\ parent \in [Calls -> ParentStates]
  /\ \A c \in Calls :
       /\ launched[c] \in 0 .. N[c]
       /\ child[c] \in [Children(c) -> ChildStates]
       /\ own[c] \in SUBSET Children(c)
       /\ completed[c] \in 0 .. N[c]
       /\ exception[c] \in 0 .. N[c]

(* when_all returns only when every child has stored its outcome, whatever *)
(* the order in which children end, inline or on other workers.            *)
ReturnsAfterAll ==
  \A c \in Calls : parent[c] = "returned" =>
    \A i \in Children(c) : child[c][i] \in {"notify", "done"}

(* No lost wake-up: a parent of when_all that sleeps, or holds the mutex   *)
(* on its way to sleep, has a child left that will notify once it sleeps.  *)
WakeupPending ==
  \A c \in Calls \ Void : parent[c] \in {"holding", "asleep"} =>
    \E i \in Children(c) : child[c][i] # "done"

(* Every call of when_all returns, whatever becomes of the others.         *)
WhenAllReturns == \A c \in Calls \ Void : <>(parent[c] = "returned")

(* "Wait for completion (event-driven)" (when_all.h:138): a call of        *)
(* when_all_void returns when its children have completed.                 *)
WhenAllVoidReturns == \A c \in Void : <>(parent[c] = "returned")
=============================================================================
