------------------------------ MODULE TaskGroup ------------------------------
(***************************************************************************)
(* task_group and scoped_task_group of coroutine_frame/core/task_group.h:  *)
(* tasks are spawned into the group by the coroutine that owns it and by   *)
(* tasks already in it; wait() polls every millisecond under the group's   *)
(* mutex until all tracked tasks are completed; the destructor of a        *)
(* task_group does not wait, that of a scoped_task_group does.             *)
(*                                                                         *)
(* wait()'s scan under the mutex is one step: the list cannot change and a *)
(* task once completed stays so, hence reading the flags one after the     *)
(* other finds all set only if all are set when the last one is read.      *)
(* task_state::cancelled is written but read nowhere, and left out.        *)
(***************************************************************************)
EXTENDS Naturals, Sequences, FiniteSets

CONSTANT N   (* bound: tasks spawned over the group's life                 *)

TaskGroupAssumption == N \in Nat \ {0}

Tasks == 1 .. N
Owner == 0     \* the coroutine that owns the group, as a spawner

VARIABLES
  scoped,      (* TRUE: scoped_task_group; never changes                   *)
  owner,       (* what the owner does with the group                       *)
  outcome,     (* how its last wait() ended, "none" if it spawned since    *)
  tracked,     (* tasks_                                                   *)
  task,        (* task[t]: where the wrapper of task t is                  *)
  spawner,     (* spawner[t]: who is inside spawn() with t, or Nobody      *)
  suspended,   (* tasks whose wrapper suspended: their detach() returned   *)
  failed,      (* task_state::exception is set                             *)
  cancelled    (* the token                                                *)

vars == <<scoped, owner, outcome, tracked, task, spawner, suspended, failed, cancelled>>

Nobody == N + 1
OwnerStates == {"open", "wait", "delay", "closing", "closed", "terminated"}
TaskStates == {"new", "start", "body", "caught", "completed"}

Init ==
  /\ scoped \in BOOLEAN
  /\ owner = "open" /\ outcome = "none"
  /\ tracked = <<>>
  /\ task = [t \in Tasks |-> "new"]
  /\ spawner = [t \in Tasks |-> Nobody]
  /\ suspended = {} /\ failed = {}
  /\ cancelled = FALSE

Launched == {t \in Tasks : task[t] # "new"}
Completed == {t \in Tasks : task[t] = "completed"}
Tracked == {tracked[k] : k \in 1 .. Len(tracked)}
MoveTask(t, s) == task' = [task EXCEPT ![t] = s]

(* Mutant: spawn() does not wait for the tracking (which another thread    *)
(* would do).                                                              *)
MayActUntracked(s) == IF s = Owner THEN owner = "open" ELSE task[s] = "body"

(* The caller of spawn() runs its task's wrapper inside detach() and can   *)
(* do nothing else until the task is tracked.                              *)
MayAct(s) ==
  /\ IF s = Owner THEN owner = "open" ELSE task[s] = "body"
  /\ \A t \in Tasks : spawner[t] # s

-----------------------------------------------------------------------------
(* spawn(): the wrapper is started first ... (after the destructor it is   *)
(* undefined, and not followed)                                            *)
Launch(s, t) ==
  /\ MayAct(s) /\ owner # "closed"
  /\ task[t] = "new" /\ \A u \in 1 .. t - 1 : task[u] # "new"
  /\ MoveTask(t, "start")
  /\ spawner' = [spawner EXCEPT ![t] = s]
  /\ outcome' = "none"
  /\ UNCHANGED <<scoped, owner, tracked, suspended, failed, cancelled>>

(* ... and tracked under the mutex when detach() has returned.             *)
Track(t) ==
  /\ spawner[t] # Nobody
  /\ t \in suspended \cup Completed
  /\ tracked' = Append(tracked, t)
  /\ spawner' = [spawner EXCEPT ![t] = Nobody]
  /\ UNCHANGED <<scoped, owner, outcome, task, suspended, failed, cancelled>>

(* The wrapper: a cancelled token completes the task without running it.   *)
CheckToken(t) ==
  /\ task[t] = "start"
  /\ MoveTask(t, IF cancelled THEN "completed" ELSE "body")
  /\ UNCHANGED <<scoped, owner, outcome, tracked, spawner, suspended, failed, cancelled>>

Suspend(t) ==
  /\ task[t] = "body" /\ MayAct(t)
  /\ t \notin suspended
  /\ suspended' = suspended \cup {t}
  /\ UNCHANGED <<scoped, owner, outcome, tracked, task, spawner, failed, cancelled>>

BodyReturns(t) ==
  /\ task[t] = "body" /\ MayAct(t)
  /\ MoveTask(t, "completed")
  /\ UNCHANGED <<scoped, owner, outcome, tracked, spawner, suspended, failed, cancelled>>

(* catch (...): the exception first, then the flag.                        *)
BodyThrows(t) ==
  /\ task[t] = "body" /\ MayAct(t)
  /\ MoveTask(t, "caught")
  /\ failed' = failed \cup {t}
  /\ UNCHANGED <<scoped, owner, outcome, tracked, spawner, suspended, cancelled>>

(* Mutant: only the normal path sets the flag.                             *)
CaughtUnflagged(t) == task[t] = "caught" /\ UNCHANGED vars

Caught(t) ==
  /\ task[t] = "caught"
  /\ MoveTask(t, "completed")
  /\ UNCHANGED <<scoped, owner, outcome, tracked, spawner, suspended, failed, cancelled>>

(* Any holder of the group or of the token.                                *)
CancelAll ==
  /\ owner # "closed"
  /\ ~cancelled /\ cancelled' = TRUE
  /\ UNCHANGED <<scoped, owner, outcome, tracked, task, spawner, suspended, failed>>

-----------------------------------------------------------------------------
(* co_await group.wait()                                                   *)
CallWait ==
  /\ MayAct(Owner)
  /\ owner' = "wait"
  /\ UNCHANGED <<scoped, outcome, tracked, task, spawner, suspended, failed, cancelled>>

AllDone == Tracked \subseteq Completed

(* Mutant: one exception variable, reset for each task scanned.            *)
LastResult ==
  IF tracked = <<>> \/ tracked[Len(tracked)] \notin failed THEN "returned" ELSE "threw"

WaitResult == IF Tracked \cap failed = {} THEN "returned" ELSE "threw"

(* The scan: done, or another millisecond.                                 *)
ScanDone ==
  /\ owner = "wait" /\ AllDone
  /\ outcome' = WaitResult
  /\ owner' = "open"
  /\ UNCHANGED <<scoped, tracked, task, spawner, suspended, failed, cancelled>>

ScanAgain ==
  /\ owner = "wait" /\ ~AllDone
  /\ owner' = "delay"
  /\ UNCHANGED <<scoped, outcome, tracked, task, spawner, suspended, failed, cancelled>>

Delayed ==
  /\ owner = "delay"
  /\ owner' = "wait"
  /\ UNCHANGED <<scoped, outcome, tracked, task, spawner, suspended, failed, cancelled>>

(* ~task_group(): a warning at most.                                       *)
Destroy ==
  /\ ~scoped /\ MayAct(Owner)
  /\ owner' = "closed"
  /\ UNCHANGED <<scoped, outcome, tracked, task, spawner, suspended, failed, cancelled>>

(* Mutant: cancelled tasks are not waited for.                             *)
DestroyScopedCancelled ==
  /\ scoped /\ MayAct(Owner)
  /\ owner' = IF AllDone \/ cancelled THEN "closed" ELSE "closing"
  /\ UNCHANGED <<scoped, outcome, tracked, task, spawner, suspended, failed, cancelled>>

(* ~scoped_task_group(): is_done(), otherwise sync_wait(group_.wait()) ... *)
DestroyScoped ==
  /\ scoped /\ MayAct(Owner)
  /\ owner' = IF AllDone THEN "closed" ELSE "closing"
  /\ UNCHANGED <<scoped, outcome, tracked, task, spawner, suspended, failed, cancelled>>

(* ... which rethrows a task's exception out of the destructor.            *)
CloseScoped ==
  /\ owner = "closing" /\ AllDone
  /\ owner' = IF WaitResult = "returned" THEN "closed" ELSE "terminated"
  /\ UNCHANGED <<scoped, outcome, tracked, task, spawner, suspended, failed, cancelled>>

(* Not a step of the code.                                                 *)
Terminating ==
  /\ owner \in {"closed", "terminated"}
  /\ Launched = Completed
  /\ UNCHANGED vars

TaskStep(t) == Track(t) \/ CheckToken(t) \/ BodyReturns(t) \/ BodyThrows(t) \/ Caught(t)
Wait == ScanDone \/ ScanAgain \/ Delayed \/ CloseScoped

Next ==
  \/ \E s \in {Owner} \cup Tasks, t \in Tasks : Launch(s, t)
  \/ \E t \in Tasks : Suspend(t) \/ TaskStep(t)
  \/ CancelAll \/ CallWait \/ Wait \/ Destroy \/ DestroyScoped
  \/ Terminating

Spec == Init /\ [][Next]_vars

(* Threads run, task bodies end, the delay thread and the executor resume  *)
(* wait().  Nobody has to spawn, cancel, wait or leave the scope.          *)
FairSpec == Spec /\ WF_vars(Wait) /\ \A t \in Tasks : WF_vars(TaskStep(t))
-----------------------------------------------------------------------------
(* Properties                                                              *)

TypeOK ==
  /\ scoped \in BOOLEAN
  /\ owner \in OwnerStates
  /\ outcome \in {"none", "returned", "threw"}
  /\ tracked \in Seq(Tasks)
  /\ task \in [Tasks -> TaskStates]
  /\ spawner \in [Tasks -> {Owner, Nobody} \cup Tasks]
  /\ suspended \in SUBSET Tasks /\ failed \in SUBSET Tasks
  /\ cancelled \in BOOLEAN

(* wait() covers tasks spawned by tasks, to any depth, although spawn()    *)
(* starts a task before it tracks it (task_group.h:61-65): when wait()     *)
(* ends, every task ever started is completed.                             *)
WaitCoversNestedSpawns == outcome # "none" => Launched = Completed

(* wait() does not swallow an exception, whichever task threw it and       *)
(* however late: it returns normally only if no task failed.               *)
WaitReportsFailure == outcome = "returned" => failed = {}

(* wait() and the scoped destructor end, as tasks do.                      *)
WaitEnds == owner \in {"wait", "closing"} ~> owner \notin {"wait", "delay", "closing"}

(* "RAII: auto-wait for all tasks on scope exit" (README.md:12): a scope   *)
(* is left, normally or by terminate, only when every task ever spawned    *)
(* into it has completed, be it by a task of the group in the last moment. *)
ScopeWaits ==
  scoped /\ owner \in {"closed", "terminated"} => Launched = Completed
=============================================================================
