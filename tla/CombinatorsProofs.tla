-------------------------- MODULE CombinatorsProofs --------------------------
(***************************************************************************)
(* The theorems of the combinators and of the reactor, for the composition *)
(* that is model-checked: each of its behaviours, seen through the         *)
(* variables of one of the modules, is a behaviour of that module.  What   *)
(* holds of with_timeout is proved here, about its instance.               *)
(***************************************************************************)
EXTENDS Combinators, TLAPS

(* The composition starts every module and steps at most one.              *)
LEMMA Projections ==
  /\ Init => All!Init /\ Any!Init /\ Group!Init /\ Timeout!Init /\ Epoll!Init
  /\ [Next]_vars => /\ [All!Next]_All!vars /\ [Any!Next]_Any!vars
                    /\ [Group!Next]_Group!vars /\ [Timeout!Next]_Timeout!vars
                    /\ [Epoll!Next]_Epoll!vars
<1>1. Init => All!Init /\ Any!Init /\ Group!Init /\ Timeout!Init /\ Epoll!Init
  BY DEF Init
<1>2. /\ UNCHANGED allVars => UNCHANGED All!vars
      /\ UNCHANGED anyVars => UNCHANGED Any!vars
      /\ UNCHANGED groupVars => UNCHANGED Group!vars
      /\ UNCHANGED timeoutVars => UNCHANGED Timeout!vars
      /\ UNCHANGED reactorVars => UNCHANGED Epoll!vars
  BY DEF allVars, anyVars, groupVars, timeoutVars, reactorVars,
         All!vars, Any!vars, Group!vars, Timeout!vars, Timeout!flags, Epoll!vars
<1>3. [Next]_vars =>
        /\ All!Next \/ UNCHANGED allVars
        /\ Any!Next \/ UNCHANGED anyVars
        /\ Group!Next \/ UNCHANGED groupVars
        /\ Timeout!Next \/ UNCHANGED timeoutVars
        /\ Epoll!Next \/ UNCHANGED reactorVars
  BY DEF Next, OnlyAll, OnlyAny, OnlyGroup, OnlyTimeout, OnlyEpoll, vars
<1> QED
  BY <1>1, <1>2, <1>3

(* So it implements the specification of each.                             *)
LEMMA ImplementsEach ==
  Spec => All!Spec /\ Any!Spec /\ Group!Spec /\ Timeout!Spec /\ Epoll!Spec
  BY Projections, PTL DEF Spec, All!Spec, Any!Spec, Group!Spec, Timeout!Spec, Epoll!Spec

-----------------------------------------------------------------------------
(* with_timeout, for a task that suspends any number of times: the flags   *)
(* follow the task in one order, exception, task_done, cancel, timed_out,  *)
(* so whichever flag the caller sees first it finds the task's own outcome.*)

(* The locals that hold a flag, and where the three coroutines may be.     *)
TimeoutTypeOK ==
  /\ waiter \in {"start", "launched", "poll_done", "poll_timeout", "delay", "leave",
                 "leave_late", "leave_done"} \cup Timeout!Ended
  /\ timed \in {"new", "body", "suspended", "ended", "stored", "flagged", "done"}
  /\ stopwatch \in {"new", "queued", "check_time", "check_cancel", "delay", "co_return",
                    "threw", "done"}
  /\ threw \in BOOLEAN /\ task_exception \in BOOLEAN
  /\ task_done \in BOOLEAN /\ timed_out \in BOOLEAN /\ stop \in BOOLEAN

(* Each flag is up only when the one before it is (timeout.h: the wrapper  *)
(* stores, sets task_done, cancels; the timer's wrapper sets timed_out     *)
(* after a co_return, which only a cancelled token brings about).          *)
FlagOrder ==
  /\ waiter = "start" => timed = "new"
  /\ timed \in {"stored", "flagged", "done"} => task_exception = threw
  /\ task_done <=> timed \in {"flagged", "done"}
  /\ stop => timed = "done"
  /\ stopwatch = "co_return" => stop
  /\ timed_out => task_done

(* The caller leaves the loop with task_done, and reports what it stored.  *)
Report ==
  /\ waiter \in {"leave", "leave_late", "leave_done", "returned", "rethrew"} => task_done
  /\ waiter = "returned" => ~threw
  /\ waiter = "rethrew" => threw

(* The inductive invariant.                                                *)
TimeoutInv == TimeoutTypeOK /\ FlagOrder /\ Report

(* It holds when with_timeout is called.                                   *)
LEMMA TimeoutInit == Timeout!Init => TimeoutInv
  BY DEF Timeout!Init, TimeoutInv, TimeoutTypeOK, FlagOrder, Report, Timeout!Ended

(* Every step keeps it.                                                    *)
LEMMA TimeoutNext == TimeoutInv /\ [Timeout!Next]_Timeout!vars => TimeoutInv'
<1> SUFFICES ASSUME TimeoutInv, [Timeout!Next]_Timeout!vars PROVE TimeoutInv'
  OBVIOUS
<1> USE DEF TimeoutInv, TimeoutTypeOK, FlagOrder, Report, Timeout!Ended, Timeout!flags
<1>1. CASE Timeout!LaunchTask \/ Timeout!LaunchTimer
  BY <1>1 DEF Timeout!LaunchTask, Timeout!LaunchTimer
<1>2. CASE Timeout!PollDone \/ Timeout!PollTimeout \/ Timeout!DelayOver
  BY <1>2 DEF Timeout!PollDone, Timeout!PollTimeout, Timeout!DelayOver
<1>3. CASE Timeout!Leave \/ Timeout!LeaveLate \/ Timeout!LeaveDone
  BY <1>3 DEF Timeout!Leave, Timeout!LeaveLate, Timeout!LeaveDone
<1>4. CASE Timeout!TaskSuspends \/ Timeout!TaskResumes
  BY <1>4 DEF Timeout!TaskSuspends, Timeout!TaskResumes
<1>5. CASE Timeout!TaskEnds
  BY <1>5 DEF Timeout!TaskEnds
<1>6. CASE Timeout!StoreException
  BY <1>6 DEF Timeout!StoreException
<1>7. CASE Timeout!SetTaskDone
  BY <1>7 DEF Timeout!SetTaskDone
<1>8. CASE Timeout!CancelTimer
  BY <1>8 DEF Timeout!CancelTimer
<1>9. CASE Timeout!TimerResumes \/ Timeout!TimeoutEscapes
  BY <1>9 DEF Timeout!TimerResumes, Timeout!TimeoutEscapes, Timeout!MoveTimer
<1>10. CASE Timeout!CheckTime
  BY <1>10 DEF Timeout!CheckTime, Timeout!MoveTimer
<1>11. CASE Timeout!CheckCancel
  BY <1>11 DEF Timeout!CheckCancel, Timeout!MoveTimer
<1>12. CASE Timeout!SetTimedOut
  BY <1>12 DEF Timeout!SetTimedOut, Timeout!Alive
<1>13. CASE Timeout!DeadlinePasses \/ UNCHANGED Timeout!vars
  BY <1>13 DEF Timeout!DeadlinePasses, Timeout!vars
<1> QED
  BY <1>1, <1>2, <1>3, <1>4, <1>5, <1>6, <1>7, <1>8, <1>9, <1>10, <1>11, <1>12, <1>13
     DEF Timeout!Next, Timeout!ParentStep, Timeout!TaskReports, Timeout!TimerStep,
         Timeout!Terminating

(* The inductive invariant holds throughout.                               *)
LEMMA TimeoutInvariance == Timeout!Spec => []TimeoutInv
  BY TimeoutInit, TimeoutNext, PTL DEF Timeout!Spec

(* What with_timeout reports is what the task did.                         *)
LEMMA TimeoutOutcome == Timeout!Spec => [](TimeoutTypeOK /\ Timeout!OutcomeIsTasks)
<1>1. TimeoutInv => TimeoutTypeOK /\ Timeout!OutcomeIsTasks
  BY DEF TimeoutInv, TimeoutTypeOK, FlagOrder, Report, Timeout!OutcomeIsTasks
<1> QED
  BY TimeoutInvariance, <1>1, PTL

-----------------------------------------------------------------------------
(* The variables of the five modules keep their types.                     *)
THEOREM TypeCorrect ==
  Spec => [](All!TypeOK /\ Any!TypeOK /\ Group!TypeOK /\ TimeoutTypeOK /\ Epoll!TypeOK)
<1>1. /\ All!Spec => []All!TypeOK
      /\ Any!Spec => []Any!TypeOK
      /\ Group!Spec => []Group!TypeOK
      /\ Epoll!Spec => []Epoll!TypeOK
  BY CombinatorsAssumption, All!TypeCorrect, Any!TypeCorrect, Group!TypeCorrect,
     Epoll!TypeCorrect
<1> QED
  BY ImplementsEach, TimeoutOutcome, <1>1, PTL

(* when_all returns when every child has stored its outcome (when_all.h:   *)
(* is_done(), fetch_add).                                                  *)
THEOREM WhenAllWaits == Spec => []ReturnsAfterAll
  BY ImplementsEach, All!Returns, CombinatorsAssumption, PTL DEF ReturnsAfterAll

(* A caller of when_all that sleeps has a child left that will notify it   *)
(* (when_all.h: set_result under the mutex, the second is_done()).         *)
THEOREM WhenAllIsWoken == Spec => []WakeupPending
  BY ImplementsEach, All!Wakeup, CombinatorsAssumption, PTL DEF WakeupPending

(* A caller of when_any does not sleep on a winner that has notified       *)
(* (when_any.h: exchange, notify_all).                                     *)
THEOREM WhenAnyIsWoken == Spec => []NoSleepOnWinner
  BY ImplementsEach, Any!NoSleep, CombinatorsAssumption, PTL DEF NoSleepOnWinner

(* The first success is the result of when_any, with its index, for good   *)
(* (when_any.h: exchange, the read after the loop).                        *)
THEOREM FirstWins == Spec => ResultWrittenOnce
  BY ImplementsEach, Any!WrittenOnce, CombinatorsAssumption, PTL DEF ResultWrittenOnce

(* wait() covers tasks spawned by tasks, to any depth, however spawning    *)
(* and scanning interleave (task_group.h: spawn, wait).                    *)
THEOREM GroupIsCovered == Spec => []WaitCoversNestedSpawns
  BY ImplementsEach, Group!WaitCovers, CombinatorsAssumption, PTL DEF WaitCoversNestedSpawns

(* wait() returns normally only if no task has failed (task_group.h: wait  *)
(* rethrows).                                                              *)
THEOREM GroupReports == Spec => []WaitReportsFailure
  BY ImplementsEach, Group!WaitReports, CombinatorsAssumption, PTL DEF WaitReportsFailure

(* A scope is left only when every task spawned into it has completed      *)
(* (task_group.h: ~scoped_task_group).                                     *)
THEOREM ScopeIsLeftLast == Spec => []ScopeWaits
  BY ImplementsEach, Group!ScopeIsLeftLast, CombinatorsAssumption, PTL DEF ScopeWaits

(* with_timeout reports what its task did, and takes no completed task for *)
(* late (timeout.h: task_wrapper, the test after the loop).                *)
THEOREM TimeoutTellsTheTruth == Spec => []OutcomeIsTasks
  BY ImplementsEach, TimeoutOutcome, PTL DEF OutcomeIsTasks

(* The reactor hands no coroutine to the executor twice for one wait       *)
(* (io_epoll.cpp: the waiters are taken out under mu_).                    *)
THEOREM ReactorResumesOnce == Spec => []ResumedOnce
  BY ImplementsEach, Epoll!Once, CombinatorsAssumption, PTL DEF ResumedOnce

(* The reactor forgets no parked coroutine, one waiter per descriptor and  *)
(* direction given (io_epoll.cpp: rd and wr are overwritten).              *)
THEOREM ReactorForgetsNobody == Spec => []NobodyForgotten
  BY ImplementsEach, Epoll!Forgotten, CombinatorsAssumption, PTL DEF NobodyForgotten

(* The reactor's masks, its waiters and the kernel's interest agree        *)
(* (io_epoll.cpp: wait_read, wait_write, run, arm_fd).                     *)
THEOREM ReactorAgrees == Spec => []KernelAgrees
  BY ImplementsEach, Epoll!TableAgrees, CombinatorsAssumption, PTL DEF KernelAgrees
=============================================================================
