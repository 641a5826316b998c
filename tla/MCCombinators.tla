---------------------------- MODULE MCCombinators ---------------------------
(* Values for the constants, and the fairness under which the combinators  *)
(* and the reactor do what they have to do eventually.  A call of when_all *)
(* with two children, one of when_all_void with one, and three workers:    *)
(* one more than parents that may block one; one socket that two           *)
(* coroutines wait for, each in a direction of its own.  No symmetry is    *)
(* declared: it would be unsound for the liveness checked.                 *)
EXTENDS Combinators

MCChildrenOf == [a |-> 2, b |-> 1]

(* The fairness each module states of its own steps.  As kind never        *)
(* changes, a condition on a disjunction over the kinds is one on each,    *)
(* about the variables of that kind.                                       *)
mine ==
  CASE kind = "when_all" -> allVars
    [] kind = "when_any" -> anyVars
    [] kind = "task_group" -> groupVars
    [] kind = "with_timeout" -> timeoutVars
    [] OTHER -> reactorVars

ParentStep(i) ==
  /\ UNCHANGED kind
  /\ \/ kind = "when_all" /\ All!ParentStep(IF i = 1 THEN "a" ELSE "b")
     \/ kind = "when_any" /\ i = 1 /\ Any!ParentStep
     \/ kind = "task_group" /\ i = 1 /\ Group!Wait
     \/ kind = "with_timeout" /\ (IF i = 1 THEN Timeout!ParentStep ELSE Timeout!TaskReports)
     \/ kind = "reactor" /\ (IF i = 1 THEN Epoll!ReactorStep ELSE Epoll!Shutdown)

Parent(i) == IF i < 3 THEN "a" ELSE "b"
Child(i) == IF i < 3 THEN i ELSE 1
ChildStep(i) ==
  /\ UNCHANGED kind
  /\ \/ kind = "when_all" /\ All!ChildStep(Parent(i), Child(i))
     \/ kind = "when_any" /\ Any!ChildStep(i)
     \/ kind = "task_group" /\ Group!TaskStep(i)
     \/ kind = "with_timeout" /\ i = 1 /\ Timeout!TimerStep
     \/ kind = "with_timeout" /\ i = 2 /\ Timeout!DeadlinePasses
     \/ kind = "reactor" /\ i < 3 /\ Epoll!AddTimer(IF i = 1 THEN "h1" ELSE "h2")

Locks(i) ==
  /\ UNCHANGED kind
  /\ \/ kind = "when_all" /\ i < 4 /\ All!ChildLocks(Parent(i), Child(i))
     \/ kind = "when_any" /\ i < 4 /\ Any!Lock(i)
     \/ kind = "when_any" /\ i = 4 /\ Any!LoopLock
     \/ kind = "when_any" /\ i = 5 /\ Any!WakeUp

Fairness ==
  /\ \A i \in 1 .. 2 : WF_mine(ParentStep(i))
  /\ \A i \in 1 .. 3 : WF_mine(ChildStep(i))
  /\ \A i \in 1 .. 5 : SF_mine(Locks(i))

FairSpec == Spec /\ Fairness

-----------------------------------------------------------------------------
(* Properties: what must happen, by the module of each kind.               *)

(* when_all.h: every call of when_all returns.                             *)
WhenAllReturns == kind = "when_all" => All!WhenAllReturns

(* when_any.h: if some child produces a value, the call ends.              *)
SuccessEndsCall == Any!SuccessEndsCall

(* task_group.h: wait() and the scoped destructor end, as tasks do.        *)
WaitEnds == Group!WaitEnds

(* timeout.h: when the task has ended the caller gets its answer.          *)
EndsWithTask == Timeout!EndsWithTask

(* io_epoll.cpp: a waiter whose event has come is handed back.             *)
DueIsResumed == Epoll!DueIsResumed

(* io_epoll.cpp: shutdown() returns.                                       *)
ShutdownReturns == Epoll!ShutdownReturns
=============================================================================
