----------------------------- MODULE WithTimeout -----------------------------
(***************************************************************************)
(* with_timeout for void tasks (coroutine_frame/core/timeout.h): the       *)
(* caller starts two detached wrappers, one around the task and one around *)
(* timeout_task, and polls two flags of its own frame every millisecond.   *)
(* The wrappers hold references into that frame; timeout_task owns a copy  *)
(* of the cancellation token.                                              *)
(*                                                                         *)
(* The clock is abstracted to one event, the passing of the deadline.  The *)
(* form for tasks with a value is left out: whatever happens it ends with  *)
(* an exception (timeout.h:67, 76).                                        *)
(***************************************************************************)
EXTENDS Naturals

CONSTANT MaxSuspends   (* bound: suspensions of the task                   *)

WithTimeoutAssumption == MaxSuspends \in Nat

VARIABLES
  parent,          (* where with_timeout is                                *)
  task,            (* where task_wrapper is                                *)
  timer,           (* where timeout_wrapper and its timeout_task are       *)
  suspends,        (* suspensions of the task so far                       *)
  resumed,         (* the task runs on a worker of its own                 *)
  threw,           (* how the task ended                                   *)
  task_exception, task_done, timed_out,   (* locals of with_timeout        *)
  cancelled,       (* timeout_cancel                                       *)
  expired          (* the deadline has passed                              *)

flags == <<threw, task_exception, task_done, timed_out, cancelled>>
vars == <<parent, task, timer, suspends, resumed, flags, expired>>

Ended == {"returned", "rethrew", "timeout_error"}

(* The task: "ended" when its co_await is over, "stored" before task_done  *)
(* = true, "flagged" before cancel().  The timer: "check_time" and         *)
(* "check_cancel" are the loop of timeout_task, "co_return" is before      *)
(* timed_out = true, "threw" when timeout_error left timeout_task.         *)
Init ==
  /\ parent = "start" /\ task = "new" /\ timer = "new"
  /\ suspends = 0 /\ resumed = FALSE
  /\ threw = FALSE /\ task_exception = FALSE
  /\ task_done = FALSE /\ timed_out = FALSE /\ cancelled = FALSE
  /\ expired = FALSE

(* Once the parent has ended its locals are destroyed.                     *)
Alive == parent \notin Ended

-----------------------------------------------------------------------------
(* with_timeout                                                            *)

LaunchTask ==
  /\ parent = "start"
  /\ parent' = "launched" /\ task' = "body"
  /\ UNCHANGED <<timer, suspends, resumed, flags, expired>>

(* The first detach() has returned; timeout_task suspends at once, for the *)
(* executor.                                                               *)
LaunchTimer ==
  /\ parent = "launched"
  /\ resumed \/ task \in {"suspended", "done"}
  /\ parent' = "poll_done" /\ timer' = "queued"
  /\ UNCHANGED <<task, suspends, resumed, flags, expired>>

(* while (!task_done && !timed_out) co_await async_delay(1ms)              *)
PollDone ==
  /\ parent = "poll_done"
  /\ parent' = IF task_done THEN "leave" ELSE "poll_timeout"
  /\ UNCHANGED <<task, timer, suspends, resumed, flags, expired>>

PollTimeout ==
  /\ parent = "poll_timeout"
  /\ parent' = IF timed_out THEN "leave" ELSE "delay"
  /\ UNCHANGED <<task, timer, suspends, resumed, flags, expired>>

DelayOver ==
  /\ parent = "delay"
  /\ parent' = "poll_done"
  /\ UNCHANGED <<task, timer, suspends, resumed, flags, expired>>

(* if (timed_out && !task_done) throw timeout_error                        *)
Leave ==
  /\ parent = "leave"
  /\ parent' = IF timed_out THEN "leave_late" ELSE "leave_done"
  /\ UNCHANGED <<task, timer, suspends, resumed, flags, expired>>

LeaveLate ==
  /\ parent = "leave_late"
  /\ parent' = IF task_done THEN "leave_done" ELSE "timeout_error"
  /\ UNCHANGED <<task, timer, suspends, resumed, flags, expired>>

LeaveDone ==
  /\ parent = "leave_done"
  /\ parent' = IF task_exception THEN "rethrew" ELSE "returned"
  /\ UNCHANGED <<task, timer, suspends, resumed, flags, expired>>

-----------------------------------------------------------------------------
(* task_wrapper                                                            *)

TaskSuspends ==
  /\ task = "body" /\ suspends < MaxSuspends
  /\ task' = "suspended" /\ suspends' = suspends + 1
  /\ UNCHANGED <<parent, timer, resumed, flags, expired>>

TaskResumes ==
  /\ task = "suspended"
  /\ task' = "body" /\ resumed' = TRUE
  /\ UNCHANGED <<parent, timer, suspends, flags, expired>>

TaskEnds ==
  /\ task = "body"
  /\ task' = "ended" /\ threw' \in BOOLEAN
  /\ UNCHANGED <<parent, timer, suspends, resumed,
                 task_exception, task_done, timed_out, cancelled, expired>>

(* Mutant: catch (...) without current_exception().                        *)
SwallowException ==
  /\ task = "ended"
  /\ task' = "stored"
  /\ UNCHANGED <<parent, timer, suspends, resumed, flags, expired>>

(* catch (...): the exception before the flag.                             *)
StoreException ==
  /\ task = "ended"
  /\ task' = "stored" /\ task_exception' = threw
  /\ UNCHANGED <<parent, timer, suspends, resumed,
                 threw, task_done, timed_out, cancelled, expired>>

(* Mutant: catch (...) forgets the flag.                                   *)
SetTaskDoneOnSuccess ==
  /\ task = "stored"
  /\ task' = "flagged" /\ task_done' = ~threw
  /\ UNCHANGED <<parent, timer, suspends, resumed,
                 threw, task_exception, timed_out, cancelled, expired>>

SetTaskDone ==
  /\ task = "stored"
  /\ task' = "flagged" /\ task_done' = TRUE
  /\ UNCHANGED <<parent, timer, suspends, resumed,
                 threw, task_exception, timed_out, cancelled, expired>>

(* The token is a local of the parent, which may have ended since it saw   *)
(* task_done: then the call is made on a destroyed object, and the flag    *)
(* timeout_task shares may be raised or not.                               *)
CancelTimer ==
  /\ task = "flagged"
  /\ task' = "done"
  /\ cancelled' \in (IF Alive THEN {TRUE} ELSE {TRUE, cancelled})
  /\ UNCHANGED <<parent, timer, suspends, resumed,
                 threw, task_exception, task_done, timed_out, expired>>

-----------------------------------------------------------------------------
(* timeout_wrapper and timeout_task                                        *)

DeadlinePasses ==
  /\ timer # "new" /\ ~expired
  /\ expired' = TRUE
  /\ UNCHANGED <<parent, task, timer, suspends, resumed, flags>>

MoveTimer(from, to) ==
  /\ timer = from
  /\ timer' = to
  /\ UNCHANGED <<parent, task, suspends, resumed, flags, expired>>

TimerResumes == MoveTimer("queued", "check_time") \/ MoveTimer("delay", "check_time")
CheckTime == MoveTimer("check_time", IF expired THEN "threw" ELSE "check_cancel")
CheckCancel == MoveTimer("check_cancel", IF cancelled THEN "co_return" ELSE "delay")

(* A cancelled timeout_task returns normally, so the wrapper goes on to    *)
(* the flag; if the parent has ended the write is to a destroyed frame.    *)
SetTimedOut ==
  /\ timer = "co_return"
  /\ timer' = "done"
  /\ timed_out' = IF Alive THEN TRUE ELSE timed_out
  /\ UNCHANGED <<parent, task, suspends, resumed,
                 threw, task_exception, task_done, cancelled, expired>>

(* timeout_error is no task_cancelled: it ends the detached wrapper.       *)
TimeoutEscapes == MoveTimer("threw", "done")

-----------------------------------------------------------------------------
(* Not a step of the code.                                                 *)
Terminating == ~Alive /\ task = "done" /\ timer = "done" /\ UNCHANGED vars

ParentStep ==
  \/ LaunchTask \/ LaunchTimer \/ PollDone \/ PollTimeout \/ DelayOver
  \/ Leave \/ LeaveLate \/ LeaveDone
TaskReports == StoreException \/ SetTaskDone \/ CancelTimer
TimerStep == TimerResumes \/ CheckTime \/ CheckCancel \/ SetTimedOut \/ TimeoutEscapes

Next ==
  \/ ParentStep \/ TaskReports \/ TimerStep
  \/ TaskSuspends \/ TaskResumes \/ TaskEnds
  \/ DeadlinePasses
  \/ Terminating

Spec == Init /\ [][Next]_vars

(* Threads run, delays end and the clock goes on.  The task itself may     *)
(* take for ever: that is what a timeout is for.                           *)
FairSpec ==
  /\ Spec /\ WF_vars(ParentStep) /\ WF_vars(TaskReports)
  /\ WF_vars(TimerStep) /\ WF_vars(DeadlinePasses)
-----------------------------------------------------------------------------
(* Properties                                                              *)

(* What with_timeout reports is what the task did: it returns only if the  *)
(* task did, and rethrows only if the task threw, although it reads the    *)
(* exception without a lock and may see either flag first; and no task     *)
(* that completes is taken for late: the timer is cancelled only after     *)
(* task_done is set (timeout.h:93-94), and its wrapper raises timed_out    *)
(* only when cancelled.                                                    *)
OutcomeIsTasks ==
  /\ parent = "returned" => task_done /\ ~threw
  /\ parent = "rethrew" => task_done /\ threw
  /\ timed_out => task_done

(* When the task has ended the caller gets its answer, before or after the *)
(* deadline, cancelled or not.                                             *)
EndsWithTask == task = "ended" ~> parent \in Ended

(* "Throws timeout_error if task doesn't complete in time" (timeout.h:42): *)
(* when timeout_task has found the deadline passed and the task is not     *)
(* done, the call ends, even if the task never does.                       *)
TimeoutEndsCall == timer = "threw" /\ ~task_done ~> parent \in Ended
=============================================================================
