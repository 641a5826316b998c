------------------------------ MODULE Executor ------------------------------
(***************************************************************************)
(* The thread-pool executor of coroutine_frame/core (executor.h,           *)
(* executor.cpp): a queue of coroutine handles under one mutex, a          *)
(* condition variable on which the workers wait, schedule() called from    *)
(* any thread (a client thread, or a worker from inside the coroutine it   *)
(* is resuming), and shutdown() called by the owner, once explicitly and   *)
(* once more by the destructor.                                            *)
(*                                                                         *)
(* A lock_guard block is three steps at most: acquire, the block with the  *)
(* release, and what the code does after the release (notify).  A          *)
(* coroutine is abstracted to what the executor can tell of it: where its  *)
(* handle is, and that resume() returns after it suspended or ended.       *)
(***************************************************************************)
EXTENDS Naturals, Sequences, FiniteSets

CONSTANTS
  Workers,       (* threads started by the constructor                     *)
  Clients,       (* other threads that call schedule(): the delay threads, *)
                 (* the epoll thread, sync_wait's wrapper threads          *)
  Owner,         (* the thread that calls shutdown() and the destructor    *)
  Handles,       (* coroutine handles                                      *)
  NoHandle,      (* the null handle                                        *)
  NoThread,      (* the mutex is free                                      *)
  MaxSchedules,  (* bound: schedule() calls per handle                     *)
  MaxShutdowns   (* bound: shutdown() calls (2: explicit and destructor)   *)

ASSUME WorkersAssumption == Workers # {}  \* get_global_executor: at least 4
ASSUME ThreadsDistinct ==
  /\ Workers \cap Clients = {}
  /\ Owner \notin Workers \cup Clients
  /\ NoThread \notin Workers \cup Clients \cup {Owner}
ASSUME NoHandleAssumption == NoHandle \notin Handles
ASSUME FinitelyManyThreads == IsFiniteSet(Workers) /\ IsFiniteSet(Clients)
ASSUME BoundsAssumption == MaxSchedules \in Nat /\ MaxShutdowns \in Nat

VARIABLES
  mutex,      (* mutex_: the thread that holds it, or NoThread             *)
  waitset,    (* the workers blocked in cv_.wait                           *)
  queue,      (* task_queue_                                               *)
  stopped,    (* stopped_                                                  *)
  pc,         (* where each thread is                                      *)
  cur,        (* cur[w]: the coroutine whose body runs on worker w         *)
  arg,        (* arg[t]: the handle t has passed to schedule()             *)
  co,         (* co[h]: where the coroutine is                             *)
  calls,      (* calls[h]: schedule() calls so far (bounds the model)      *)
  shutdowns   (* shutdown() calls that have returned                       *)

vars == <<mutex, waitset, queue, stopped, pc, cur, arg, co, calls, shutdowns>>

Threads == Workers \cup Clients \cup {Owner}

(* "suspended": at a suspension point, its handle known to whoever will    *)
(* schedule it; "passed": argument of a schedule() call; "dropped": that   *)
(* call found stopped_ and returned.                                       *)
CoStates == {"suspended", "passed", "queued", "running", "done", "dropped"}

SchedulePCs == {"s_lock", "s_push", "s_notify"}
WorkerPCs   == {"lock", "check", "waiting", "running", "exited"} \cup SchedulePCs
ClientPCs   == {"idle"} \cup SchedulePCs
OwnerPCs    == {"idle", "stop_lock", "stop_set", "stop_notify", "join"}

Init ==
  /\ mutex = NoThread
  /\ waitset = {}
  /\ queue = <<>>
  /\ stopped = FALSE
  /\ pc = [t \in Threads |-> IF t \in Workers THEN "lock" ELSE "idle"]
  /\ cur = [w \in Workers |-> NoHandle]
  /\ arg = [t \in Workers \cup Clients |-> NoHandle]
  /\ co = [h \in Handles |-> "suspended"]
  /\ calls = [h \in Handles |-> 0]
  /\ shutdowns = 0

Goto(t, label) == pc' = [pc EXCEPT ![t] = label]

(* A thread at `from` takes the free mutex.                                *)
Acquire(t, from, to) ==
  /\ pc[t] = from
  /\ mutex = NoThread
  /\ mutex' = t
  /\ Goto(t, to)

Release(t) ==
  /\ mutex = t
  /\ mutex' = NoThread

-----------------------------------------------------------------------------
(* worker_thread()                                                         *)

WorkerLock(w) ==
  /\ Acquire(w, "lock", "check")
  /\ UNCHANGED <<waitset, queue, stopped, cur, arg, co, calls, shutdowns>>

(* The predicate is false: wait releases the mutex and blocks in one step. *)
WorkerWait(w) ==
  /\ pc[w] = "check"
  /\ ~stopped /\ queue = <<>>
  /\ Release(w)
  /\ waitset' = waitset \cup {w}
  /\ Goto(w, "waiting")
  /\ UNCHANGED <<queue, stopped, cur, arg, co, calls, shutdowns>>

(* Mutant: `if (stopped_) return;`, the queue not looked at.               *)
WorkerExitUndrained(w) ==
  /\ pc[w] = "check"
  /\ stopped
  /\ Release(w)
  /\ Goto(w, "exited")
  /\ UNCHANGED <<waitset, queue, stopped, cur, arg, co, calls, shutdowns>>

WorkerExit(w) ==
  /\ pc[w] = "check"
  /\ stopped /\ queue = <<>>
  /\ Release(w)
  /\ Goto(w, "exited")
  /\ UNCHANGED <<waitset, queue, stopped, cur, arg, co, calls, shutdowns>>

(* Mutant: front() without pop().                                          *)
WorkerPeeks(w) ==
  /\ pc[w] = "check"
  /\ queue # <<>>
  /\ Release(w)
  /\ cur' = [cur EXCEPT ![w] = Head(queue)]
  /\ co' = [co EXCEPT ![Head(queue)] = "running"]
  /\ Goto(w, "running")
  /\ UNCHANGED <<waitset, queue, stopped, arg, calls, shutdowns>>

(* Mutant: the newest handle first (back() of a deque).                    *)
WorkerPopsLast(w) ==
  /\ pc[w] = "check"
  /\ queue # <<>>
  /\ Release(w)
  /\ cur' = [cur EXCEPT ![w] = queue[Len(queue)]]
  /\ co' = [co EXCEPT ![queue[Len(queue)]] = "running"]
  /\ queue' = SubSeq(queue, 1, Len(queue) - 1)
  /\ Goto(w, "running")
  /\ UNCHANGED <<waitset, stopped, arg, calls, shutdowns>>

(* Take the front handle, release the mutex and resume it.                 *)
WorkerPop(w) ==
  /\ pc[w] = "check"
  /\ queue # <<>>
  /\ Release(w)
  /\ cur' = [cur EXCEPT ![w] = Head(queue)]
  /\ co' = [co EXCEPT ![Head(queue)] = "running"]
  /\ queue' = Tail(queue)
  /\ Goto(w, "running")
  /\ UNCHANGED <<waitset, stopped, arg, calls, shutdowns>>

(* cv_.wait may return although nobody notified; like a notified worker,   *)
(* the worker takes the mutex again and re-evaluates the predicate.        *)
SpuriousWake(w) ==
  /\ w \in waitset
  /\ waitset' = waitset \ {w}
  /\ Goto(w, "lock")
  /\ UNCHANGED <<mutex, queue, stopped, cur, arg, co, calls, shutdowns>>

(* resume() returns: the coroutine suspended for someone else to schedule  *)
(* it later, ended, or let an exception out (caught and logged).           *)
BodyReturns(w) ==
  /\ pc[w] = "running"
  /\ \E end \in {"suspended", "done"} : co' = [co EXCEPT ![cur[w]] = end]
  /\ cur' = [cur EXCEPT ![w] = NoHandle]
  /\ Goto(w, "lock")
  /\ UNCHANGED <<mutex, waitset, queue, stopped, arg, calls, shutdowns>>

-----------------------------------------------------------------------------
(* schedule(handle)                                                        *)

BeginSchedule(t, h) ==
  /\ calls[h] < MaxSchedules
  /\ calls' = [calls EXCEPT ![h] = @ + 1]
  /\ arg' = [arg EXCEPT ![t] = h]
  /\ co' = [co EXCEPT ![h] = "passed"]
  /\ Goto(t, "s_lock")

ClientSchedules(t, h) ==
  /\ pc[t] = "idle"
  /\ co[h] = "suspended"
  /\ BeginSchedule(t, h)
  /\ UNCHANGED <<mutex, waitset, queue, stopped, cur, shutdowns>>

(* schedule_awaiter::await_suspend: the coroutine is suspended already, so *)
(* another worker may resume it before this worker is back in its loop.    *)
BodySchedulesItself(w) ==
  /\ pc[w] = "running"
  /\ BeginSchedule(w, cur[w])
  /\ cur' = [cur EXCEPT ![w] = NoHandle]
  /\ UNCHANGED <<mutex, waitset, queue, stopped, shutdowns>>

(* The running coroutine starts or wakes another one.                      *)
BodySchedulesOther(w, h) ==
  /\ pc[w] = "running"
  /\ co[h] = "suspended"
  /\ BeginSchedule(w, h)
  /\ UNCHANGED <<mutex, waitset, queue, stopped, cur, shutdowns>>

ScheduleLock(t) ==
  /\ Acquire(t, "s_lock", "s_push")
  /\ UNCHANGED <<waitset, queue, stopped, cur, arg, co, calls, shutdowns>>

(* Where the caller continues when schedule() returns.                     *)
AfterSchedule(t) ==
  IF t \in Clients THEN "idle"
  ELSE IF cur[t] = NoHandle THEN "lock" ELSE "running"

(* Mutant: the moved-from, hence null, handle is pushed.                   *)
SchedulePushNull(t) ==
  /\ pc[t] = "s_push"
  /\ ~stopped
  /\ Release(t)
  /\ queue' = Append(queue, NoHandle)
  /\ co' = [co EXCEPT ![arg[t]] = "queued"]
  /\ arg' = [arg EXCEPT ![t] = NoHandle]
  /\ Goto(t, "s_notify")
  /\ UNCHANGED <<waitset, stopped, cur, calls, shutdowns>>

(* Mutant: no notify_one().                                                *)
SchedulePushSilent(t) ==
  /\ pc[t] = "s_push"
  /\ ~stopped
  /\ Release(t)
  /\ queue' = Append(queue, arg[t])
  /\ co' = [co EXCEPT ![arg[t]] = "queued"]
  /\ arg' = [arg EXCEPT ![t] = NoHandle]
  /\ Goto(t, AfterSchedule(t))
  /\ UNCHANGED <<waitset, stopped, cur, calls, shutdowns>>

SchedulePush(t) ==
  /\ pc[t] = "s_push"
  /\ ~stopped
  /\ Release(t)
  /\ queue' = Append(queue, arg[t])
  /\ co' = [co EXCEPT ![arg[t]] = "queued"]
  /\ arg' = [arg EXCEPT ![t] = NoHandle]
  /\ Goto(t, "s_notify")
  /\ UNCHANGED <<waitset, stopped, cur, calls, shutdowns>>

(* stopped_: the handle is dropped without a word to the caller.           *)
ScheduleDrop(t) ==
  /\ pc[t] = "s_push"
  /\ stopped
  /\ Release(t)
  /\ co' = [co EXCEPT ![arg[t]] = "dropped"]
  /\ arg' = [arg EXCEPT ![t] = NoHandle]
  /\ Goto(t, AfterSchedule(t))
  /\ UNCHANGED <<waitset, queue, stopped, cur, calls, shutdowns>>

(* Mutant: notifies only when its handle is alone in the queue, on the     *)
(* theory that a worker is awake otherwise.                                *)
ScheduleNotifyIfFirst(t) ==
  /\ pc[t] = "s_notify"
  /\ \/ /\ waitset = {} \/ Len(queue) # 1
        /\ pc' = [pc EXCEPT ![t] = AfterSchedule(t)]
        /\ UNCHANGED waitset
     \/ \E w \in waitset :
          /\ Len(queue) = 1
          /\ waitset' = waitset \ {w}
          /\ pc' = [pc EXCEPT ![t] = AfterSchedule(t), ![w] = "lock"]
  /\ UNCHANGED <<mutex, queue, stopped, cur, arg, co, calls, shutdowns>>

(* cv_.notify_one() after the release: any one waiter, if there is one.    *)
ScheduleNotify(t) ==
  /\ pc[t] = "s_notify"
  /\ \/ /\ waitset = {}
        /\ pc' = [pc EXCEPT ![t] = AfterSchedule(t)]
        /\ UNCHANGED waitset
     \/ \E w \in waitset :
          /\ waitset' = waitset \ {w}
          /\ pc' = [pc EXCEPT ![t] = AfterSchedule(t), ![w] = "lock"]
  /\ UNCHANGED <<mutex, queue, stopped, cur, arg, co, calls, shutdowns>>

-----------------------------------------------------------------------------
(* shutdown(), called by the owner                                         *)

ShutdownCall ==
  /\ pc[Owner] = "idle"
  /\ shutdowns < MaxShutdowns
  /\ Goto(Owner, "stop_lock")
  /\ UNCHANGED <<mutex, waitset, queue, stopped, cur, arg, co, calls, shutdowns>>

ShutdownLock ==
  /\ Acquire(Owner, "stop_lock", "stop_set")
  /\ UNCHANGED <<waitset, queue, stopped, cur, arg, co, calls, shutdowns>>

ShutdownSet ==
  /\ pc[Owner] = "stop_set"
  /\ Release(Owner)
  /\ stopped' = TRUE
  /\ Goto(Owner, "stop_notify")
  /\ UNCHANGED <<waitset, queue, cur, arg, co, calls, shutdowns>>

(* Mutant: notify_one() where notify_all() is needed.                      *)
ShutdownNotifiesOne ==
  /\ pc[Owner] = "stop_notify"
  /\ \/ /\ waitset = {}
        /\ Goto(Owner, "join")
        /\ UNCHANGED waitset
     \/ \E w \in waitset :
          /\ waitset' = waitset \ {w}
          /\ pc' = [pc EXCEPT ![Owner] = "join", ![w] = "lock"]
  /\ UNCHANGED <<mutex, queue, stopped, cur, arg, co, calls, shutdowns>>

ShutdownNotifyAll ==
  /\ pc[Owner] = "stop_notify"
  /\ waitset' = {}
  /\ pc' = [t \in Threads |-> IF t \in waitset THEN "lock"
                              ELSE IF t = Owner THEN "join" ELSE pc[t]]
  /\ UNCHANGED <<mutex, queue, stopped, cur, arg, co, calls, shutdowns>>

(* The loop over workers_ has joined every worker still joinable.          *)
ShutdownJoin ==
  /\ pc[Owner] = "join"
  /\ \A w \in Workers : pc[w] = "exited"
  /\ shutdowns' = shutdowns + 1
  /\ Goto(Owner, "idle")
  /\ UNCHANGED <<mutex, waitset, queue, stopped, cur, arg, co, calls>>

-----------------------------------------------------------------------------
(* The stages a worker or a caller of schedule() goes through once the     *)
(* mutex is its own, or without needing it.                                *)
WorkerStep(w) == WorkerWait(w) \/ WorkerExit(w) \/ WorkerPop(w)
Body(w) ==
  \/ BodyReturns(w)
  \/ BodySchedulesItself(w)
  \/ \E h \in Handles : BodySchedulesOther(w, h)
ScheduleStep(t) == SchedulePush(t) \/ ScheduleDrop(t) \/ ScheduleNotify(t)
Shutdown == ShutdownSet \/ ShutdownNotifyAll \/ ShutdownJoin

(* Nothing is left to do: not a step of the code.                          *)
Terminating ==
  /\ pc[Owner] = "idle" /\ shutdowns = MaxShutdowns
  /\ \A t \in Clients : pc[t] = "idle"
  /\ \A w \in Workers : pc[w] = "exited"
  /\ UNCHANGED vars

Next ==
  \/ \E w \in Workers : WorkerLock(w) \/ WorkerStep(w) \/ SpuriousWake(w) \/ Body(w)
  \/ \E t \in Clients, h \in Handles : ClientSchedules(t, h)
  \/ \E t \in Workers \cup Clients : ScheduleLock(t) \/ ScheduleStep(t)
  \/ ShutdownCall \/ ShutdownLock \/ Shutdown
  \/ Terminating

Spec == Init /\ [][Next]_vars

(* The operating system runs every thread, and a thread that keeps asking  *)
(* for the mutex gets it (a std::mutex is released infinitely often but    *)
(* others may hold it in between, hence SF).  A coroutine body comes to    *)
(* its next suspension.  Clients need not schedule anything and the owner  *)
(* need not shut down; nothing is assumed of spurious wake-ups.            *)
Fairness ==
  /\ \A w \in Workers :
       SF_vars(WorkerLock(w)) /\ WF_vars(WorkerStep(w)) /\ WF_vars(Body(w))
  /\ \A t \in Workers \cup Clients : SF_vars(ScheduleLock(t)) /\ WF_vars(ScheduleStep(t))
  /\ SF_vars(ShutdownLock) /\ WF_vars(Shutdown)

FairSpec == Spec /\ Fairness

-----------------------------------------------------------------------------
(* Properties                                                              *)

QueueSet == {queue[i] : i \in 1 .. Len(queue)}

TypeOK ==
  /\ mutex \in Threads \cup {NoThread}
  /\ waitset \in SUBSET Workers
  /\ queue \in Seq(Handles)
  /\ stopped \in BOOLEAN
  /\ pc \in [Threads -> WorkerPCs \cup ClientPCs \cup OwnerPCs]
  /\ \A w \in Workers : pc[w] \in WorkerPCs
  /\ \A t \in Clients : pc[t] \in ClientPCs
  /\ pc[Owner] \in OwnerPCs
  /\ cur \in [Workers -> Handles \cup {NoHandle}]
  /\ arg \in [Workers \cup Clients -> Handles \cup {NoHandle}]
  /\ co \in [Handles -> CoStates]
  /\ calls \in [Handles -> Nat]
  /\ shutdowns \in Nat

(* The mutex's holder is exactly the thread inside a critical section, and *)
(* the wait set is exactly the blocked workers.                            *)
InCriticalSection(t) == pc[t] \in {"check", "s_push", "stop_set"}
MutexInv ==
  /\ \A t \in Threads : InCriticalSection(t) <=> mutex = t
  /\ \A w \in Workers : w \in waitset <=> pc[w] = "waiting"

(* Exactly one place holds a coroutine: a queue slot, a worker, or the     *)
(* argument of a schedule() call.  So no two threads ever resume the same  *)
(* coroutine, although schedule_awaiter hands a handle to the queue while  *)
(* the worker that ran it is still inside resume() (executor.h:70-72).     *)
SinglePlace ==
  /\ \A i, j \in 1 .. Len(queue) : queue[i] = queue[j] => i = j
  /\ \A i \in 1 .. Len(queue) : co[queue[i]] = "queued"
  /\ \A w \in Workers : cur[w] # NoHandle => co[cur[w]] = "running"
  /\ \A v, w \in Workers : cur[v] = cur[w] /\ cur[v] # NoHandle => v = w
  /\ \A t \in Workers \cup Clients : arg[t] # NoHandle => co[arg[t]] = "passed"
  /\ \A t, u \in Workers \cup Clients : arg[t] = arg[u] /\ arg[t] # NoHandle => t = u

(* What each program counter says of the thread's locals.                  *)
LocalsInv ==
  /\ \A w \in Workers : pc[w] = "running" => cur[w] # NoHandle
  /\ \A w \in Workers :
       pc[w] \in {"lock", "check", "waiting", "exited"} => cur[w] = NoHandle
  /\ \A t \in Workers \cup Clients :
       arg[t] # NoHandle <=> pc[t] \in {"s_lock", "s_push"}

(* A handle said to be queued is in the queue: none is lost.               *)
NothingLost ==
  \A h \in Handles :
    /\ co[h] = "queued" => h \in QueueSet
    /\ co[h] = "running" => \E w \in Workers : cur[w] = h

(* A worker leaves only from a stopped executor with an empty queue, and   *)
(* then nobody can push any more (executor.cpp:57-59 and 20): what was     *)
(* accepted before the stop is resumed before shutdown() returns.          *)
DrainBeforeExit ==
  (\E w \in Workers : pc[w] = "exited") => stopped /\ queue = <<>>

(* After shutdown() has returned, no worker runs and nothing is queued.    *)
QuietAfterShutdown ==
  shutdowns > 0 =>
    /\ stopped
    /\ \A w \in Workers : pc[w] = "exited" /\ cur[w] = NoHandle
    /\ queue = <<>>

(* notify_one() comes after the release (executor.cpp:24-25).  Between the *)
(* two a handle may sit in the queue while workers sleep, but then a       *)
(* wake-up is on its way for every such handle: queued handles never       *)
(* outnumber pending notifications plus workers about to look, as long as  *)
(* one worker sleeps.  A lost wake-up would break this.                    *)
Notifying == {t \in Workers \cup Clients : pc[t] = "s_notify"}
Looking   == {w \in Workers : pc[w] \in {"lock", "check"}}
NoLostWakeup ==
  waitset # {} => Len(queue) <= Cardinality(Notifying) + Cardinality(Looking)

(* Same for shutdown: a worker sleeps on a stopped executor only until     *)
(* notify_all (executor.cpp:33).                                           *)
StopReachesSleepers ==
  waitset # {} /\ stopped => pc[Owner] = "stop_notify"

(* The executor implements the hand-over HandleQueue describes.            *)
HQ == INSTANCE HandleQueue WITH
        pending <- queue, on <- cur, open <- ~stopped, down <- shutdowns > 0
ImplementsHandleQueue == HQ!Spec

(* A handle that was accepted is resumed: a wake-up reaches some worker,   *)
(* through bodies that schedule others and through shutdown.               *)
AcceptedIsResumed ==
  \A h \in Handles : co[h] = "queued" ~> co[h] = "running"

(* shutdown() returns: every worker wakes, drains and exits.               *)
ShutdownReturns == pc[Owner] = "stop_lock" ~> pc[Owner] = "idle"
=============================================================================
