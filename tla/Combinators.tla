----------------------------- MODULE Combinators -----------------------------
(***************************************************************************)
(* The combinators of coroutine_frame/core that start coroutines and wait  *)
(* for them, and the reactor: kind says which of them runs, the others     *)
(* stay where they start.  They share no state in the code either.         *)
(* All but with_timeout are instantiated with their theorems, which        *)
(* CombinatorsProofs puts together.                                        *)
(***************************************************************************)
EXTENDS Naturals, Sequences, FiniteSets

CONSTANTS
  Calls, Void, ChildrenOf, Pool,   \* when_all and when_all_void
  Racers,                          \* when_any: its tasks
  Spawns,                          \* task_group: bound on the tasks spawned
  MaxSuspends,                     \* with_timeout: bound on the suspensions
  Fds, Handles, NoHandle           \* the reactor: one waiter per direction

VARIABLES
  kind,
  parent, launched, child, own, completed, exception,              \* when_all
  racing, started, racer, alone, decided, mutex, winner, index,    \* when_any
  scoped, owner, outcome, tracked, task, spawner, suspended, failed, cancelled,
  waiter, timed, stopwatch, suspends, resumed, threw, task_exception,
  task_done, timed_out, stop, late,                                \* with_timeout
  rd, wr, mask, interest, ready, timer, expired, co, batch, taken, loop, shut, wake

allVars == <<parent, launched, child, own, completed, exception>>
anyVars == <<racing, started, racer, alone, decided, mutex, winner, index>>
groupVars ==
  <<scoped, owner, outcome, tracked, task, spawner, suspended, failed, cancelled>>
timeoutVars ==
  <<waiter, timed, stopwatch, suspends, resumed, threw, task_exception,
    task_done, timed_out, stop, late>>
reactorVars ==
  <<rd, wr, mask, interest, ready, timer, expired, co, batch, taken, loop, shut, wake>>

All == INSTANCE WhenAllProofs WITH N <- ChildrenOf

Any == INSTANCE WhenAnyProofs WITH
  N <- Racers, parent <- racing, launched <- started, child <- racer, own <- alone,
  completed <- decided

Group == INSTANCE TaskGroupProofs WITH N <- Spawns

Timeout == INSTANCE WithTimeout WITH
  parent <- waiter, task <- timed, timer <- stopwatch,
  cancelled <- stop, expired <- late

Epoll == INSTANCE EpollReactorProofs WITH OneWaiter <- TRUE

ASSUME CombinatorsAssumption ==
  /\ All!WhenAllAssumption /\ Any!WhenAnyAssumption /\ Group!TaskGroupAssumption
  /\ Timeout!WithTimeoutAssumption /\ Epoll!EpollAssumption

-----------------------------------------------------------------------------
Init ==
  /\ kind \in {"when_all", "when_any", "task_group", "with_timeout", "reactor"}
  /\ All!Init /\ Any!Init /\ Group!Init /\ Timeout!Init /\ Epoll!Init
  /\ scoped => kind = "task_group"

OnlyAll == UNCHANGED <<kind, anyVars, groupVars, timeoutVars, reactorVars>>
OnlyAny == UNCHANGED <<kind, allVars, groupVars, timeoutVars, reactorVars>>
OnlyGroup == UNCHANGED <<kind, allVars, anyVars, timeoutVars, reactorVars>>
OnlyTimeout == UNCHANGED <<kind, allVars, anyVars, groupVars, reactorVars>>
OnlyEpoll == UNCHANGED <<kind, allVars, anyVars, groupVars, timeoutVars>>

Next ==
  \/ kind = "when_all" /\ All!Next /\ OnlyAll
  \/ kind = "when_any" /\ Any!Next /\ OnlyAny
  \/ kind = "task_group" /\ Group!Next /\ OnlyGroup
  \/ kind = "with_timeout" /\ Timeout!Next /\ OnlyTimeout
  \/ kind = "reactor" /\ Epoll!Next /\ OnlyEpoll

vars == <<kind, allVars, anyVars, groupVars, timeoutVars, reactorVars>>

Spec == Init /\ [][Next]_vars

-----------------------------------------------------------------------------
(* Properties: what the module of each kind says of it.                    *)

(* when_all.h: it returns when every child has stored its outcome.         *)
ReturnsAfterAll == All!ReturnsAfterAll

(* when_all.h: a sleeping parent has a child left that will notify it.     *)
WakeupPending == All!WakeupPending

(* when_any.h: no parent sleeps while the winner has already notified.     *)
NoSleepOnWinner == Any!NoSleepOnWinner

(* when_any.h: the first success is the result, later ones do not touch it.*)
ResultWrittenOnce == Any!ResultWrittenOnce

(* task_group.h: wait() covers tasks that tasks spawn meanwhile.           *)
WaitCoversNestedSpawns == Group!WaitCoversNestedSpawns

(* task_group.h: wait() returns normally only if no task failed.           *)
WaitReportsFailure == Group!WaitReportsFailure

(* task_group.h: a scope is left only when all its tasks have completed.   *)
ScopeWaits == Group!ScopeWaits

(* timeout.h: the caller is told what the task did, and not that it is     *)
(* late when it has completed.                                             *)
OutcomeIsTasks == Timeout!OutcomeIsTasks

(* io_epoll.cpp: no coroutine is resumed twice for one wait.               *)
ResumedOnce == Epoll!ResumedOnce

(* io_epoll.cpp: no parked coroutine is forgotten, one waiter per direction*)
(* given.                                                                  *)
NobodyForgotten == Epoll!NobodyForgotten

(* io_epoll.cpp: the table's masks are the kernel's.                       *)
KernelAgrees == Epoll!KernelAgrees
=============================================================================
