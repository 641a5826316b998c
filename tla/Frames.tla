------------------------------- MODULE Frames -------------------------------
(***************************************************************************)
(* Who owns a coroutine frame, who may still resume it, and when it is     *)
(* destroyed: task.h with its promise and final awaiter, and the ways to   *)
(* start a task from outside (sync_wait, async_run, async_spawn, detach),  *)
(* on an executor that is the queue of HandleQueue.                        *)
(*                                                                         *)
(* One main thread starts one task; its body, and the bodies of the tasks  *)
(* it calls, are any sequence of: call a task, await it, detach it, drop   *)
(* it, suspend on the executor, return, throw.  A frame that is used after *)
(* its destruction is recorded in `misuse`, and the thread that used it is *)
(* not followed further.                                                   *)
(***************************************************************************)
EXTENDS Naturals, Sequences, FiniteSets

CONSTANTS
  N,          (* bound: frames, numbered in the order they are created     *)
  Workers,    (* worker threads of the executor                            *)
  Main,       (* the main thread                                           *)
  Helper,     (* the std::thread of sync_wait, async_run or async_spawn    *)
  None,       (* no frame, no owner                                        *)
  MaxSuspends (* bound: suspensions on the executor, of all coroutines     *)

(* The main thread is no worker, and threads are no frames.                *)
ASSUME FramesAssumption ==
  /\ N \in Nat \ {0}
  /\ Main \notin Workers
  /\ Main # Helper /\ Main # None /\ Helper # None
  /\ Main \notin 1 .. N /\ Helper \notin 1 .. N /\ None \notin 1 .. N

VARIABLES
  void,           (* the tasks are task<void>, not task<T>                 *)
  state,          (* where the coroutine of a frame is                     *)
  owner,          (* whose task object has the frame as coro_              *)
  continuation,   (* promise: continuation_                                *)
  detached,       (* promise: detached_                                    *)
  result,         (* promise: result_, or exception_ of task<void>         *)
  ending,         (* how the body of a frame has ended, for the properties *)
  stack,          (* frames a thread is inside of, innermost last          *)
  armed,          (* suspended frames that somebody will schedule          *)
  suspends,       (* suspensions so far                                    *)
  call,           (* what the main thread did with its task                *)
  helper,         (* where the helper thread is                            *)
  answer,         (* what sync_wait or async_result::get() gives           *)
  lost,           (* handles dropped by a stopped executor                 *)
  misuse,         (* uses of destroyed frames                              *)
  pending, on, open, down                     (* the executor              *)

Q == INSTANCE HandleQueue WITH Handles <- 1 .. N, NoHandle <- None

promise == <<owner, continuation, detached, result, ending>>
outside == <<void, call, helper, answer>>
queue == <<pending, on, open, down>>
vars == <<state, promise, stack, armed, suspends, outside, lost, misuse, queue>>

Frames == 1 .. N
Root == 1
Threads == Workers \cup {Main}

Init ==
  /\ void \in BOOLEAN
  /\ state = [f \in Frames |-> IF f = Root THEN "fresh" ELSE "unborn"]
  /\ owner = [f \in Frames |-> IF f = Root THEN Main ELSE None]
  /\ continuation = [f \in Frames |-> None]
  /\ detached = [f \in Frames |-> FALSE]
  /\ result = [f \in Frames |-> "none"]
  /\ ending = [f \in Frames |-> "none"]
  /\ stack = [t \in Threads |-> <<>>]
  /\ armed = {}
  /\ suspends = 0
  /\ call = "none" /\ helper = "idle" /\ answer = "none"
  /\ lost = {} /\ misuse = {}
  /\ Q!Init

-----------------------------------------------------------------------------
(* Destroying a frame destroys the task objects in it, and their frames.   *)
OwnedBy(f) ==
  LET grow[n \in 0 .. N] ==
        IF n = 0 THEN {f} ELSE grow[n - 1] \cup {g \in Frames : owner[g] \in grow[n - 1]}
  IN  grow[N]

(* coro_.destroy() of the frames S and of what they own; destroying a      *)
(* destroyed frame is a misuse.                                            *)
Destroyed(S) == UNION {OwnedBy(f) : f \in S}
DestroyAll(S, before) ==
  /\ state' = [f \in Frames |-> IF f \in Destroyed(S) THEN "dead" ELSE before[f]]
  /\ owner' = [f \in Frames |-> IF f \in Destroyed(S) THEN None ELSE owner[f]]
  /\ misuse' = misuse \cup {"destroy" : f \in {g \in Destroyed(S) : state[g] = "dead"}}

Top(t) == stack[t][Len(stack[t])]
Inside(t, f) == stack[t] # <<>> /\ Top(t) = f

(* The child whose result f has been resumed to fetch.                     *)
Awaited(f) == {c \in Frames : owner[c] = f /\ continuation[c] = f /\ state[c] = "done"}
Executes(t, f) == Inside(t, f) /\ state[f] = "running" /\ Awaited(f) = {}

(* resume() returns to whoever called it; at the bottom that is the        *)
(* worker, which goes back to its loop.                                    *)
Leave(t) ==
  /\ stack' = [stack EXCEPT ![t] = SubSeq(@, 1, Len(@) - 1)]
  /\ IF t \in Workers /\ Len(stack[t]) = 1 THEN Q!LetGo(t) ELSE UNCHANGED queue

TransferTo(t, f) ==
  /\ stack' = [stack EXCEPT ![t] = Append(SubSeq(@, 1, Len(@) - 1), f)]
  /\ UNCHANGED queue

(* executor::schedule: a stopped executor drops the handle.                *)
ScheduleHandle(f) ==
  IF open THEN Q!Accept(f) /\ UNCHANGED lost
          ELSE lost' = lost \cup {f} /\ UNCHANGED queue

-----------------------------------------------------------------------------
(* The bodies of coroutines.                                               *)

(* A coroutine is called: its frame is made and stays at initial_suspend.  *)
Create(t, f, c) ==
  /\ Executes(t, f)
  /\ state[c] = "unborn" /\ \A g \in 1 .. (c - 1) : state[g] # "unborn"
  /\ state' = [state EXCEPT ![c] = "fresh"]
  /\ owner' = [owner EXCEPT ![c] = f]
  /\ UNCHANGED <<continuation, detached, result, ending, stack, armed, suspends, outside,
                 lost, misuse, queue>>

(* co_await std::move(task): await_suspend and the transfer to the child.  *)
Await(t, f, c) ==
  /\ Executes(t, f) /\ owner[c] = f /\ state[c] = "fresh"
  /\ continuation' = [continuation EXCEPT ![c] = f]
  /\ state' = [state EXCEPT ![f] = "awaiting", ![c] = "running"]
  /\ TransferTo(t, c)
  /\ UNCHANGED <<owner, detached, result, ending, armed, suspends, outside, lost, misuse>>

(* Mutant: `coro_ = nullptr` is forgotten, the task object destroys the    *)
(* frame at the end of its scope.                                          *)
DetachKeepsOwner(t, c) ==
  /\ state[c] = "fresh"
  /\ detached' = [detached EXCEPT ![c] = TRUE]
  /\ stack' = [stack EXCEPT ![t] = Append(@, c)]
  /\ state' = [state EXCEPT ![c] = "running"]
  /\ UNCHANGED <<owner, continuation, result, ending, armed, suspends, void, helper, answer,
                 lost, misuse, queue>>

(* detach(): the flag, resume() inline in the calling thread, and the task *)
(* object no longer owns the frame.                                        *)
Detach(t, c) ==
  /\ state[c] = "fresh"
  /\ detached' = [detached EXCEPT ![c] = TRUE]
  /\ stack' = [stack EXCEPT ![t] = Append(@, c)]
  /\ state' = [state EXCEPT ![c] = "running"]
  /\ owner' = [owner EXCEPT ![c] = None]
  /\ UNCHANGED <<continuation, result, ending, armed, suspends, void, helper, answer,
                 lost, misuse, queue>>

DetachChild(t, f, c) ==
  Executes(t, f) /\ owner[c] = f /\ Detach(t, c) /\ UNCHANGED call

(* co_await schedule_on(...), of a delay, or of a descriptor.              *)
Suspend(t, f) ==
  /\ Executes(t, f) /\ suspends < MaxSuspends
  /\ suspends' = suspends + 1
  /\ state' = [state EXCEPT ![f] = "suspended"]
  /\ armed' = armed \cup {f}
  /\ Leave(t)
  /\ UNCHANGED <<promise, outside, lost, misuse>>

(* Whoever holds the handle gives it to the executor.                      *)
Wake(f) ==
  /\ f \in armed
  /\ armed' = armed \ {f}
  /\ ScheduleHandle(f)
  /\ UNCHANGED <<state, promise, stack, suspends, outside, misuse>>

(* await_resume: the child's value, or its exception.  A task<T> that has  *)
(* neither throws bad_variant_access, a task<void> returns.                *)
ReadResult(c) == IF result[c] = "none" THEN "error" ELSE result[c]
ReadVoid(c) == IF result[c] = "error" THEN "error" ELSE "value"
Outcome(c) == IF void THEN ReadVoid(c) ELSE ReadResult(c)

(* The awaiting coroutine goes on: it takes the outcome, and the temporary *)
(* task object at the end of the expression destroys the child's frame.    *)
(* If the body does not catch the child's exception, it ends with it.      *)
TakeResult(t, f, c) ==
  /\ Inside(t, f) /\ state[f] = "running" /\ c \in Awaited(f)
  /\ DestroyAll({c}, state)
  /\ UNCHANGED <<continuation, detached, result, ending, stack, armed, suspends, outside,
                 lost, queue>>

StoreValue(f, r) == [result EXCEPT ![f] = r]
StoreVoid(f, r) == IF r = "error" THEN [result EXCEPT ![f] = r] ELSE result

(* The body is over: return_value, return_void or unhandled_exception; its *)
(* locals, tasks never started among them, are destroyed; then the         *)
(* coroutine is suspended at its final point, and done() is true.          *)
BodyEnds(t, f, r) ==
  /\ Executes(t, f)
  /\ result' = IF void THEN StoreVoid(f, r) ELSE StoreValue(f, r)
  /\ ending' = [ending EXCEPT ![f] = r]
  /\ DestroyAll({c \in Frames : owner[c] = f}, [state EXCEPT ![f] = "final"])
  /\ UNCHANGED <<continuation, detached, stack, armed, suspends, outside, lost, queue>>

(* Mutant: final_awaiter does not look at detached_.                       *)
StayDetached(t, f) ==
  /\ detached[f]
  /\ state' = [state EXCEPT ![f] = "done"]
  /\ Leave(t)
  /\ UNCHANGED <<owner, misuse>>

(* final_awaiter::await_suspend of a detached coroutine: it destroys its   *)
(* own frame.                                                              *)
DestroyItself(t, f) ==
  /\ detached[f]
  /\ DestroyAll({f}, state)
  /\ Leave(t)

(* Mutant: it returns noop_coroutine() whether somebody awaits or not.     *)
ForgetContinuation(t, f) ==
  /\ ~detached[f] /\ continuation[f] # None
  /\ state' = [state EXCEPT ![f] = "done"]
  /\ Leave(t)
  /\ UNCHANGED <<owner, misuse>>

(* Otherwise control goes to the awaiting coroutine, if there is one.      *)
ResumeContinuation(t, f) ==
  /\ ~detached[f] /\ continuation[f] # None
  /\ state' = [state EXCEPT ![f] = "done", ![continuation[f]] = "running"]
  /\ TransferTo(t, continuation[f])
  /\ UNCHANGED <<owner, misuse>>

StayDone(t, f) ==
  /\ ~detached[f] /\ continuation[f] = None
  /\ state' = [state EXCEPT ![f] = "done"]
  /\ Leave(t)
  /\ UNCHANGED <<owner, misuse>>

FinalSuspend(t, f) ==
  /\ Inside(t, f) /\ state[f] = "final"
  /\ DestroyItself(t, f) \/ ResumeContinuation(t, f) \/ StayDone(t, f)
  /\ UNCHANGED <<continuation, detached, result, ending, armed, suspends, outside, lost>>

(* The thread goes on in a frame that another has destroyed.               *)
UseDestroyed(t, f) ==
  /\ Inside(t, f) /\ state[f] = "dead"
  /\ misuse' = misuse \cup {IF ending[f] # "none" THEN "final awaiter" ELSE "resume"}
  /\ Leave(t)
  /\ UNCHANGED <<state, promise, armed, suspends, outside, lost>>

-----------------------------------------------------------------------------
(* The executor's workers.                                                 *)
Deliver(w) ==
  /\ Q!Deliver(w)
  /\ UNCHANGED <<state, promise, stack, armed, suspends, outside, lost, misuse>>

(* handle.resume() in worker_thread.                                       *)
Resume(w) ==
  /\ on[w] # None /\ stack[w] = <<>> /\ state[on[w]] # "dead"
  /\ stack' = [stack EXCEPT ![w] = <<on[w]>>]
  /\ state' = [state EXCEPT ![on[w]] = "running"]
  /\ UNCHANGED <<promise, armed, suspends, outside, lost, misuse, queue>>

ResumeDestroyed(w) ==
  /\ on[w] # None /\ stack[w] = <<>> /\ state[on[w]] = "dead"
  /\ misuse' = misuse \cup {"resume"}
  /\ Q!LetGo(w)
  /\ UNCHANGED <<state, promise, stack, armed, suspends, outside, lost>>

-----------------------------------------------------------------------------
(* The main thread and its helper.                                         *)
MainFree == stack[Main] = <<>>

(* The task moves into the helper thread's parameter: the moved-from       *)
(* object owns nothing.                                                    *)
HandOver(how) ==
  /\ call = "none"
  /\ call' = how
  /\ owner' = [owner EXCEPT ![Root] = Helper]
  /\ helper' = "launching"
  /\ UNCHANGED <<state, continuation, detached, result, ending, stack, armed, suspends, void,
                 answer, lost, misuse, queue>>

SyncWait == HandOver("sync_wait")
AsyncRun == HandOver("async_run")
AsyncSpawn == HandOver("async_spawn")

DetachRoot == call = "none" /\ call' = "detach" /\ Detach(Main, Root)

(* ~task() of a task that was never started.                               *)
DropRoot ==
  /\ call = "none" /\ call' = "drop"
  /\ DestroyAll({Root}, state)
  /\ UNCHANGED <<continuation, detached, result, ending, stack, armed, suspends, void, helper,
                 answer, lost, queue>>

(* await_suspend(noop_coroutine()), then schedule().  sync_wait and        *)
(* async_spawn go on to poll done(), async_run returns.                    *)
Launch ==
  /\ helper = "launching"
  /\ ScheduleHandle(Root)
  /\ helper' = IF call = "async_run" THEN "leaving" ELSE "polling"
  /\ UNCHANGED <<state, promise, stack, armed, suspends, void, call, answer, misuse>>

(* done() has turned true: await_resume gives the value or the exception,  *)
(* which async_spawn puts into the shared async_result.                    *)
PollDone ==
  /\ helper = "polling" /\ state[Root] \in {"final", "done"}
  /\ helper' = "leaving"
  /\ answer' = Outcome(Root)
  /\ UNCHANGED <<state, promise, stack, armed, suspends, void, call, lost, misuse, queue>>

(* The helper's lambda returns, and its parameter, the task object, dies.  *)
HelperReturns ==
  /\ helper = "leaving"
  /\ helper' = "ended"
  /\ DestroyAll({Root}, state)
  /\ UNCHANGED <<continuation, detached, result, ending, stack, armed, suspends, void, call,
                 answer, lost, queue>>

Back(after) ==
  /\ call' = after
  /\ UNCHANGED <<state, promise, stack, armed, suspends, void, helper, answer, lost, misuse, queue>>

(* worker.join() of sync_wait.                                             *)
Join == call = "sync_wait" /\ helper = "ended" /\ Back("sync_waited")

(* set_result and set_exception have set completed_, under the mutex that  *)
(* get() holds when it looks.                                              *)
Completed == helper \in {"leaving", "ended"}
Get == call = "async_spawn" /\ Completed /\ Back("got")

(* The main thread stops the executor as soon as it is not blocked.        *)
Shutdown ==
  /\ MainFree /\ call \notin {"none", "sync_wait"} /\ open
  /\ Q!Close
  /\ UNCHANGED <<state, promise, stack, armed, suspends, outside, lost, misuse>>

ShutdownReturns ==
  /\ ~down /\ Q!Return
  /\ UNCHANGED <<state, promise, stack, armed, suspends, outside, lost, misuse>>

-----------------------------------------------------------------------------
BodyStep(t) ==
  \E f \in Frames :
    \/ \E c \in Frames : Create(t, f, c) \/ Await(t, f, c) \/ DetachChild(t, f, c)
                         \/ TakeResult(t, f, c)
    \/ Suspend(t, f)
    \/ \E r \in {"value", "error"} : BodyEnds(t, f, r)
    \/ FinalSuspend(t, f)
    \/ UseDestroyed(t, f)

WorkerStep(w) == Deliver(w) \/ Resume(w) \/ ResumeDestroyed(w)
HelperStep == Launch \/ PollDone \/ HelperReturns
MainCalls == SyncWait \/ AsyncRun \/ AsyncSpawn \/ DetachRoot \/ DropRoot
MainStep == MainCalls \/ Join \/ Get \/ Shutdown \/ ShutdownReturns

Next ==
  \/ \E t \in Threads : BodyStep(t)
  \/ \E w \in Workers : WorkerStep(w)
  \/ \E f \in Frames : Wake(f)
  \/ HelperStep
  \/ MainStep

Spec == Init /\ [][Next]_vars

(* Every thread that can go on does, bodies come to their end (the bounds  *)
(* see to it), and a suspended coroutine's handle is scheduled some day.   *)
(* No step can be repeated for ever here, so that one condition says it    *)
(* for all of them; the main thread need not shut the executor down.       *)
Progress ==
  \/ \E t \in Threads : BodyStep(t)
  \/ \E w \in Workers : WorkerStep(w)
  \/ \E f \in Frames : Wake(f)
  \/ HelperStep
  \/ Join

FairSpec == Spec /\ WF_vars(Progress)

-----------------------------------------------------------------------------
(* No coroutine is resumed, and no frame destroyed, after its destruction, *)
(* however tasks are nested, dropped and detached.  Two uses of destroyed  *)
(* frames are left out: all by the task of async_run, and the read of the  *)
(* promise by a worker that is still in the final awaiter (task.h:25-36)   *)
(* when a helper, which polls done(), has destroyed the frame.  The code   *)
(* does both.  What is said of the second is that the worker reads only.   *)
UsedAlive ==
  \/ call = "async_run"
  \/ misuse = {}
  \/ helper = "ended" /\ misuse = {"final awaiter"}

Idle ==
  /\ call # "none" /\ helper \in {"idle", "ended"}
  /\ \A t \in Threads : stack[t] = <<>>
  /\ pending = <<>> /\ armed = {} /\ \A w \in Workers : on[w] = None

(* README, "Memory safety": when nothing runs or waits any more, and no    *)
(* handle was dropped, every frame has been destroyed.                     *)
NothingLeaks ==
  Idle /\ lost = {} => \A f \in Frames : state[f] \in {"unborn", "dead"}

(* sync_wait ends, with the value or the exception its task ended with,    *)
(* whatever the body and the tasks it calls do.                            *)
SyncWaitReturns ==
  (call = "sync_wait") ~> (call = "sync_waited" /\ answer \in {"value", "error"} /\ answer = ending[Root])

(* async_run "Run a coroutine directly on the executor (fire and forget)": *)
(* its frame is not destroyed before the body is over.                     *)
AsyncRunCompletes ==
  call = "async_run" /\ state[Root] = "dead" => ending[Root] # "none"
=============================================================================
