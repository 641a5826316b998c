--------------------------- MODULE ExecutorProofs ---------------------------
(***************************************************************************)
(* What holds of the executor for any number of workers, clients, handles  *)
(* and calls: the safety properties of Executor.tla and the refinement of  *)
(* HandleQueue.  One lemma per conjunct of the inductive invariant IInv    *)
(* shows that a step keeps it, action by action; the conjuncts need one    *)
(* another in the order of the lemmas.                                     *)
(***************************************************************************)
EXTENDS Executor, FiniteSetTheorems, TLAPS

(* A nonempty queue loses its first element (task_queue_.front, pop).      *)
LEMMA HeadTail ==
  ASSUME NEW S, NEW q \in Seq(S), q # <<>>
  PROVE  /\ Len(q) \in Nat \ {0}
         /\ Head(q) = q[1] /\ Head(q) \in S
         /\ Tail(q) \in Seq(S) /\ Len(Tail(q)) = Len(q) - 1
         /\ \A i \in 1 .. Len(q) - 1 : Tail(q)[i] = q[i + 1]
  OBVIOUS

(* A queue grows at its end (task_queue_.push).                            *)
LEMMA AppendLast ==
  ASSUME NEW S, NEW q \in Seq(S), NEW e \in S
  PROVE  /\ Append(q, e) \in Seq(S) /\ Len(Append(q, e)) = Len(q) + 1
         /\ \A i \in 1 .. Len(q) : Append(q, e)[i] = q[i]
         /\ Append(q, e)[Len(q) + 1] = e
         /\ Len(q) \in Nat
  OBVIOUS

(* notify_one as one update: a set W of at most one waiter goes back to    *)
(* the mutex, the caller goes on.                                          *)
NotifyEffect(t, W) ==
  /\ W \subseteq waitset
  /\ t \notin W
  /\ W = {} => waitset = {}
  /\ waitset' = waitset \ W
  /\ pc' = [u \in Threads |-> IF u \in W THEN "lock"
                              ELSE IF u = t THEN AfterSchedule(t) ELSE pc[u]]
  /\ UNCHANGED <<mutex, queue, stopped, cur, arg, co, calls, shutdowns>>

(* What ScheduleNotify does, as one update of the wait set and the program *)
(* counters (cv_.notify_one).                                              *)
LEMMA Notify ==
  ASSUME TypeOK, MutexInv, NEW t \in Workers \cup Clients, ScheduleNotify(t)
  PROVE  \E W : /\ NotifyEffect(t, W)
                /\ W = {} \/ \E w : W = {w}
<1> USE DEF TypeOK, MutexInv, Threads
<1>1. CASE waitset = {}
  <2>1. NotifyEffect(t, {})
    BY <1>1 DEF ScheduleNotify, NotifyEffect
  <2> QED
    BY <2>1
<1>2. CASE waitset # {}
  <2>1. PICK w \in waitset :
          /\ waitset' = waitset \ {w}
          /\ pc' = [pc EXCEPT ![t] = AfterSchedule(t), ![w] = "lock"]
    BY <1>2 DEF ScheduleNotify
  <2>2. w # t
    BY DEF ScheduleNotify
  <2>3. pc' = [u \in Threads |-> IF u \in {w} THEN "lock"
                                 ELSE IF u = t THEN AfterSchedule(t) ELSE pc[u]]
    BY <2>1, <2>2
  <2>4. NotifyEffect(t, {w})
    BY <1>2, <2>1, <2>2, <2>3 DEF ScheduleNotify, NotifyEffect
  <2> QED
    BY <2>4
<1> QED
  BY <1>1, <1>2

(* Every step keeps the types; the handle passed to schedule() is never    *)
(* null while it is pushed.                                                *)
LEMMA TypeStep == TypeOK /\ MutexInv /\ LocalsInv /\ [Next]_vars => TypeOK'
<1> SUFFICES ASSUME TypeOK /\ MutexInv /\ LocalsInv, [Next]_vars PROVE TypeOK'
  OBVIOUS
<1> USE ThreadsDistinct, NoHandleAssumption DEF TypeOK, LocalsInv, MutexInv, Threads, WorkerPCs, ClientPCs, OwnerPCs, SchedulePCs, CoStates
<1>1. ASSUME NEW w \in Workers, WorkerLock(w) PROVE TypeOK'
  BY <1>1 DEF WorkerLock, Acquire, Goto
<1>2. ASSUME NEW w \in Workers, WorkerWait(w) PROVE TypeOK'
  BY <1>2 DEF WorkerWait, Release, Goto
<1>3. ASSUME NEW w \in Workers, WorkerExit(w) PROVE TypeOK'
  BY <1>3 DEF WorkerExit, Release, Goto
<1>4. ASSUME NEW w \in Workers, WorkerPop(w) PROVE TypeOK'
  BY <1>4, HeadTail DEF WorkerPop, Release, Goto
<1>5. ASSUME NEW w \in Workers, SpuriousWake(w) PROVE TypeOK'
  BY <1>5 DEF SpuriousWake, Goto
<1>6. ASSUME NEW w \in Workers, BodyReturns(w) PROVE TypeOK'
  BY <1>6 DEF BodyReturns, Goto
<1>7. ASSUME NEW w \in Workers, BodySchedulesItself(w) PROVE TypeOK'
  BY <1>7 DEF BodySchedulesItself, BeginSchedule, Goto
<1>8. ASSUME NEW w \in Workers, NEW h \in Handles, BodySchedulesOther(w, h) PROVE TypeOK'
  BY <1>8 DEF BodySchedulesOther, BeginSchedule, Goto
<1>9. ASSUME NEW t \in Clients, NEW h \in Handles, ClientSchedules(t, h) PROVE TypeOK'
  BY <1>9 DEF ClientSchedules, BeginSchedule, Goto
<1>10. ASSUME NEW t \in Workers \cup Clients, ScheduleLock(t) PROVE TypeOK'
  BY <1>10 DEF ScheduleLock, Acquire, Goto
<1>11. ASSUME NEW t \in Workers \cup Clients, SchedulePush(t) PROVE TypeOK'
  BY <1>11, AppendLast DEF SchedulePush, Release, Goto
<1>12. ASSUME NEW t \in Workers \cup Clients, ScheduleDrop(t) PROVE TypeOK'
  BY <1>12 DEF ScheduleDrop, Release, AfterSchedule, Goto
<1>13. ASSUME NEW t \in Workers \cup Clients, ScheduleNotify(t) PROVE TypeOK'
  <2>1. PICK W : NotifyEffect(t, W)
    BY <1>13, Notify
  <2>2. pc[t] = "s_notify"
    BY <1>13 DEF ScheduleNotify
  <2> QED
    BY <2>1, <2>2 DEF NotifyEffect, AfterSchedule
<1>14. CASE ShutdownCall
  BY <1>14 DEF ShutdownCall, Goto
<1>15. CASE ShutdownLock
  BY <1>15 DEF ShutdownLock, Acquire, Goto
<1>16. CASE ShutdownSet
  BY <1>16 DEF ShutdownSet, Release, Goto
<1>17. CASE ShutdownNotifyAll
  BY <1>17 DEF ShutdownNotifyAll
<1>18. CASE ShutdownJoin
  BY <1>18 DEF ShutdownJoin, Goto
<1>19. CASE UNCHANGED vars
  BY <1>19 DEF vars
<1> QED
  BY <1>1, <1>2, <1>3, <1>4, <1>5, <1>6, <1>7, <1>8, <1>9, <1>10, <1>11, <1>12, <1>13, <1>14, <1>15, <1>16, <1>17, <1>18, <1>19
    DEF Next, WorkerStep, Body, ScheduleStep, Shutdown, Terminating

(* Every step keeps the mutex's holder and the wait set in line with the   *)
(* program counters.                                                       *)
LEMMA MutexStep == TypeOK /\ MutexInv /\ [Next]_vars => MutexInv'
<1> SUFFICES ASSUME TypeOK /\ MutexInv, [Next]_vars PROVE MutexInv'
  OBVIOUS
<1> USE ThreadsDistinct, NoHandleAssumption DEF TypeOK, MutexInv, InCriticalSection, Threads, WorkerPCs, ClientPCs, OwnerPCs, SchedulePCs, CoStates
<1>1. ASSUME NEW w \in Workers, WorkerLock(w) PROVE MutexInv'
  BY <1>1 DEF WorkerLock, Acquire, Goto
<1>2. ASSUME NEW w \in Workers, WorkerWait(w) PROVE MutexInv'
  BY <1>2 DEF WorkerWait, Release, Goto
<1>3. ASSUME NEW w \in Workers, WorkerExit(w) PROVE MutexInv'
  BY <1>3 DEF WorkerExit, Release, Goto
<1>4. ASSUME NEW w \in Workers, WorkerPop(w) PROVE MutexInv'
  BY <1>4 DEF WorkerPop, Release, Goto
<1>5. ASSUME NEW w \in Workers, SpuriousWake(w) PROVE MutexInv'
  BY <1>5 DEF SpuriousWake, Goto
<1>6. ASSUME NEW w \in Workers, BodyReturns(w) PROVE MutexInv'
  BY <1>6 DEF BodyReturns, Goto
<1>7. ASSUME NEW w \in Workers, BodySchedulesItself(w) PROVE MutexInv'
  BY <1>7 DEF BodySchedulesItself, BeginSchedule, Goto
<1>8. ASSUME NEW w \in Workers, NEW h \in Handles, BodySchedulesOther(w, h) PROVE MutexInv'
  BY <1>8 DEF BodySchedulesOther, BeginSchedule, Goto
<1>9. ASSUME NEW t \in Clients, NEW h \in Handles, ClientSchedules(t, h) PROVE MutexInv'
  BY <1>9 DEF ClientSchedules, BeginSchedule, Goto
<1>10. ASSUME NEW t \in Workers \cup Clients, ScheduleLock(t) PROVE MutexInv'
  BY <1>10 DEF ScheduleLock, Acquire, Goto
<1>11. ASSUME NEW t \in Workers \cup Clients, SchedulePush(t) PROVE MutexInv'
  BY <1>11 DEF SchedulePush, Release, Goto
<1>12. ASSUME NEW t \in Workers \cup Clients, ScheduleDrop(t) PROVE MutexInv'
  BY <1>12 DEF ScheduleDrop, Release, AfterSchedule, Goto
<1>13. ASSUME NEW t \in Workers \cup Clients, ScheduleNotify(t) PROVE MutexInv'
  <2>1. PICK W : NotifyEffect(t, W)
    BY <1>13, Notify
  <2>2. pc[t] = "s_notify"
    BY <1>13 DEF ScheduleNotify
  <2> QED
    BY <2>1, <2>2 DEF NotifyEffect, AfterSchedule
<1>14. CASE ShutdownCall
  BY <1>14 DEF ShutdownCall, Goto
<1>15. CASE ShutdownLock
  BY <1>15 DEF ShutdownLock, Acquire, Goto
<1>16. CASE ShutdownSet
  BY <1>16 DEF ShutdownSet, Release, Goto
<1>17. CASE ShutdownNotifyAll
  BY <1>17 DEF ShutdownNotifyAll
<1>18. CASE ShutdownJoin
  BY <1>18 DEF ShutdownJoin, Goto
<1>19. CASE UNCHANGED vars
  BY <1>19 DEF vars
<1> QED
  BY <1>1, <1>2, <1>3, <1>4, <1>5, <1>6, <1>7, <1>8, <1>9, <1>10, <1>11, <1>12, <1>13, <1>14, <1>15, <1>16, <1>17, <1>18, <1>19
    DEF Next, WorkerStep, Body, ScheduleStep, Shutdown, Terminating

(* Every step keeps the workers' and callers' handles in line with their   *)
(* program counters.                                                       *)
LEMMA LocalsStep == TypeOK /\ MutexInv /\ LocalsInv /\ [Next]_vars => LocalsInv'
<1> SUFFICES ASSUME TypeOK /\ MutexInv /\ LocalsInv, [Next]_vars PROVE LocalsInv'
  OBVIOUS
<1> USE ThreadsDistinct, NoHandleAssumption DEF TypeOK, MutexInv, LocalsInv, Threads, WorkerPCs, ClientPCs, OwnerPCs, SchedulePCs, CoStates
<1>1. ASSUME NEW w \in Workers, WorkerLock(w) PROVE LocalsInv'
  BY <1>1 DEF WorkerLock, Acquire, Goto
<1>2. ASSUME NEW w \in Workers, WorkerWait(w) PROVE LocalsInv'
  BY <1>2 DEF WorkerWait, Release, Goto
<1>3. ASSUME NEW w \in Workers, WorkerExit(w) PROVE LocalsInv'
  BY <1>3 DEF WorkerExit, Release, Goto
<1>4. ASSUME NEW w \in Workers, WorkerPop(w) PROVE LocalsInv'
  BY <1>4, HeadTail DEF WorkerPop, Release, Goto
<1>5. ASSUME NEW w \in Workers, SpuriousWake(w) PROVE LocalsInv'
  BY <1>5 DEF SpuriousWake, Goto
<1>6. ASSUME NEW w \in Workers, BodyReturns(w) PROVE LocalsInv'
  BY <1>6 DEF BodyReturns, Goto
<1>7. ASSUME NEW w \in Workers, BodySchedulesItself(w) PROVE LocalsInv'
  BY <1>7 DEF BodySchedulesItself, BeginSchedule, Goto
<1>8. ASSUME NEW w \in Workers, NEW h \in Handles, BodySchedulesOther(w, h) PROVE LocalsInv'
  BY <1>8 DEF BodySchedulesOther, BeginSchedule, Goto
<1>9. ASSUME NEW t \in Clients, NEW h \in Handles, ClientSchedules(t, h) PROVE LocalsInv'
  BY <1>9 DEF ClientSchedules, BeginSchedule, Goto
<1>10. ASSUME NEW t \in Workers \cup Clients, ScheduleLock(t) PROVE LocalsInv'
  BY <1>10 DEF ScheduleLock, Acquire, Goto
<1>11. ASSUME NEW t \in Workers \cup Clients, SchedulePush(t) PROVE LocalsInv'
  BY <1>11 DEF SchedulePush, Release, Goto
<1>12. ASSUME NEW t \in Workers \cup Clients, ScheduleDrop(t) PROVE LocalsInv'
  BY <1>12 DEF ScheduleDrop, Release, AfterSchedule, Goto
<1>13. ASSUME NEW t \in Workers \cup Clients, ScheduleNotify(t) PROVE LocalsInv'
  <2>1. PICK W : NotifyEffect(t, W)
    BY <1>13, Notify
  <2>2. pc[t] = "s_notify"
    BY <1>13 DEF ScheduleNotify
  <2> QED
    BY <2>1, <2>2 DEF NotifyEffect, AfterSchedule
<1>14. CASE ShutdownCall
  BY <1>14 DEF ShutdownCall, Goto
<1>15. CASE ShutdownLock
  BY <1>15 DEF ShutdownLock, Acquire, Goto
<1>16. CASE ShutdownSet
  BY <1>16 DEF ShutdownSet, Release, Goto
<1>17. CASE ShutdownNotifyAll
  BY <1>17 DEF ShutdownNotifyAll
<1>18. CASE ShutdownJoin
  BY <1>18 DEF ShutdownJoin, Goto
<1>19. CASE UNCHANGED vars
  BY <1>19 DEF vars
<1> QED
  BY <1>1, <1>2, <1>3, <1>4, <1>5, <1>6, <1>7, <1>8, <1>9, <1>10, <1>11, <1>12, <1>13, <1>14, <1>15, <1>16, <1>17, <1>18, <1>19
    DEF Next, WorkerStep, Body, ScheduleStep, Shutdown, Terminating

(* Every step keeps each coroutine in one place: pop takes it out of the   *)
(* queue as it gives it to the worker, push needs a handle nobody else     *)
(* holds.                                                                  *)
LEMMA SinglePlaceStep == TypeOK /\ MutexInv /\ LocalsInv /\ SinglePlace /\ [Next]_vars => SinglePlace'
<1> SUFFICES ASSUME TypeOK /\ MutexInv /\ LocalsInv /\ SinglePlace, [Next]_vars PROVE SinglePlace'
  OBVIOUS
<1> USE ThreadsDistinct, NoHandleAssumption DEF TypeOK, MutexInv, LocalsInv, SinglePlace, Threads, WorkerPCs, ClientPCs, OwnerPCs, SchedulePCs, CoStates
<1>1. ASSUME NEW w \in Workers, WorkerLock(w) PROVE SinglePlace'
  <2>1. UNCHANGED <<queue, cur, arg, co>>
    BY <1>1 DEF WorkerLock
  <2> QED
    BY ONLY <2>1, SinglePlace DEF SinglePlace
<1>2. ASSUME NEW w \in Workers, WorkerWait(w) PROVE SinglePlace'
  BY <1>2 DEF WorkerWait, Release, Goto
<1>3. ASSUME NEW w \in Workers, WorkerExit(w) PROVE SinglePlace'
  BY <1>3 DEF WorkerExit, Release, Goto
<1>4. ASSUME NEW w \in Workers, WorkerPop(w) PROVE SinglePlace'
  BY <1>4, HeadTail DEF WorkerPop, Release, Goto
<1>5. ASSUME NEW w \in Workers, SpuriousWake(w) PROVE SinglePlace'
  BY <1>5 DEF SpuriousWake, Goto
<1>6. ASSUME NEW w \in Workers, BodyReturns(w) PROVE SinglePlace'
  BY <1>6 DEF BodyReturns, Goto
<1>7. ASSUME NEW w \in Workers, BodySchedulesItself(w) PROVE SinglePlace'
  BY <1>7 DEF BodySchedulesItself, BeginSchedule, Goto
<1>8. ASSUME NEW w \in Workers, NEW h \in Handles, BodySchedulesOther(w, h) PROVE SinglePlace'
  BY <1>8 DEF BodySchedulesOther, BeginSchedule, Goto
<1>9. ASSUME NEW t \in Clients, NEW h \in Handles, ClientSchedules(t, h) PROVE SinglePlace'
  BY <1>9 DEF ClientSchedules, BeginSchedule, Goto
<1>10. ASSUME NEW t \in Workers \cup Clients, ScheduleLock(t) PROVE SinglePlace'
  BY <1>10 DEF ScheduleLock, Acquire, Goto
<1>11. ASSUME NEW t \in Workers \cup Clients, SchedulePush(t) PROVE SinglePlace'
  BY <1>11, AppendLast DEF SchedulePush, Release, Goto
<1>12. ASSUME NEW t \in Workers \cup Clients, ScheduleDrop(t) PROVE SinglePlace'
  BY <1>12 DEF ScheduleDrop, Release, AfterSchedule, Goto
<1>13. ASSUME NEW t \in Workers \cup Clients, ScheduleNotify(t) PROVE SinglePlace'
  <2>1. PICK W : NotifyEffect(t, W)
    BY <1>13, Notify
  <2>2. pc[t] = "s_notify"
    BY <1>13 DEF ScheduleNotify
  <2> QED
    BY <2>1, <2>2 DEF NotifyEffect, AfterSchedule
<1>14. CASE ShutdownCall
  BY <1>14 DEF ShutdownCall, Goto
<1>15. CASE ShutdownLock
  BY <1>15 DEF ShutdownLock, Acquire, Goto
<1>16. CASE ShutdownSet
  BY <1>16 DEF ShutdownSet, Release, Goto
<1>17. CASE ShutdownNotifyAll
  BY <1>17 DEF ShutdownNotifyAll
<1>18. CASE ShutdownJoin
  BY <1>18 DEF ShutdownJoin, Goto
<1>19. CASE UNCHANGED vars
  BY <1>19 DEF vars
<1> QED
  BY <1>1, <1>2, <1>3, <1>4, <1>5, <1>6, <1>7, <1>8, <1>9, <1>10, <1>11, <1>12, <1>13, <1>14, <1>15, <1>16, <1>17, <1>18, <1>19
    DEF Next, WorkerStep, Body, ScheduleStep, Shutdown, Terminating

(* No step forgets a coroutine that is queued or running.                  *)
LEMMA NothingLostStep == TypeOK /\ MutexInv /\ LocalsInv /\ SinglePlace /\ NothingLost /\ [Next]_vars => NothingLost'
<1> SUFFICES ASSUME TypeOK /\ MutexInv /\ LocalsInv /\ SinglePlace /\ NothingLost, [Next]_vars PROVE NothingLost'
  OBVIOUS
<1> USE ThreadsDistinct, NoHandleAssumption DEF TypeOK, MutexInv, LocalsInv, SinglePlace, NothingLost, QueueSet, Threads, WorkerPCs, ClientPCs, OwnerPCs, SchedulePCs, CoStates
<1>1. ASSUME NEW w \in Workers, WorkerLock(w) PROVE NothingLost'
  BY <1>1 DEF WorkerLock, Acquire, Goto
<1>2. ASSUME NEW w \in Workers, WorkerWait(w) PROVE NothingLost'
  BY <1>2 DEF WorkerWait, Release, Goto
<1>3. ASSUME NEW w \in Workers, WorkerExit(w) PROVE NothingLost'
  BY <1>3 DEF WorkerExit, Release, Goto
<1>4. ASSUME NEW w \in Workers, WorkerPop(w) PROVE NothingLost'
  <2>1. ASSUME NEW h \in Handles, co'[h] = "queued" PROVE h \in QueueSet'
    <3>1. h # Head(queue) /\ co[h] = "queued"
      BY <1>4, <2>1, HeadTail DEF WorkerPop
    <3>2. PICK i \in 1 .. Len(queue) : queue[i] = h
      BY <3>1
    <3>3. i # 1 /\ queue'[i - 1] = h /\ i - 1 \in 1 .. Len(queue')
      BY <1>4, <3>1, <3>2, HeadTail DEF WorkerPop
    <3> QED
      BY <3>3
  <2>2. ASSUME NEW h \in Handles, co'[h] = "running" PROVE \E v \in Workers : cur'[v] = h
    <3>1. cur[w] = NoHandle
      BY <1>4 DEF WorkerPop
    <3> QED
      BY <1>4, <2>2, <3>1, HeadTail DEF WorkerPop
  <2> QED
    BY <2>1, <2>2
<1>5. ASSUME NEW w \in Workers, SpuriousWake(w) PROVE NothingLost'
  BY <1>5 DEF SpuriousWake, Goto
<1>6. ASSUME NEW w \in Workers, BodyReturns(w) PROVE NothingLost'
  BY <1>6 DEF BodyReturns, Goto
<1>7. ASSUME NEW w \in Workers, BodySchedulesItself(w) PROVE NothingLost'
  BY <1>7 DEF BodySchedulesItself, BeginSchedule, Goto
<1>8. ASSUME NEW w \in Workers, NEW h \in Handles, BodySchedulesOther(w, h) PROVE NothingLost'
  BY <1>8 DEF BodySchedulesOther, BeginSchedule, Goto
<1>9. ASSUME NEW t \in Clients, NEW h \in Handles, ClientSchedules(t, h) PROVE NothingLost'
  BY <1>9 DEF ClientSchedules, BeginSchedule, Goto
<1>10. ASSUME NEW t \in Workers \cup Clients, ScheduleLock(t) PROVE NothingLost'
  BY <1>10 DEF ScheduleLock, Acquire, Goto
<1>11. ASSUME NEW t \in Workers \cup Clients, SchedulePush(t) PROVE NothingLost'
  BY <1>11, AppendLast DEF SchedulePush, Release, Goto
<1>12. ASSUME NEW t \in Workers \cup Clients, ScheduleDrop(t) PROVE NothingLost'
  BY <1>12 DEF ScheduleDrop, Release, AfterSchedule, Goto
<1>13. ASSUME NEW t \in Workers \cup Clients, ScheduleNotify(t) PROVE NothingLost'
  <2>1. PICK W : NotifyEffect(t, W)
    BY <1>13, Notify
  <2>2. pc[t] = "s_notify"
    BY <1>13 DEF ScheduleNotify
  <2> QED
    BY <2>1, <2>2 DEF NotifyEffect, AfterSchedule
<1>14. CASE ShutdownCall
  BY <1>14 DEF ShutdownCall, Goto
<1>15. CASE ShutdownLock
  BY <1>15 DEF ShutdownLock, Acquire, Goto
<1>16. CASE ShutdownSet
  BY <1>16 DEF ShutdownSet, Release, Goto
<1>17. CASE ShutdownNotifyAll
  BY <1>17 DEF ShutdownNotifyAll
<1>18. CASE ShutdownJoin
  BY <1>18 DEF ShutdownJoin, Goto
<1>19. CASE UNCHANGED vars
  BY <1>19 DEF vars
<1> QED
  BY <1>1, <1>2, <1>3, <1>4, <1>5, <1>6, <1>7, <1>8, <1>9, <1>10, <1>11, <1>12, <1>13, <1>14, <1>15, <1>16, <1>17, <1>18, <1>19
    DEF Next, WorkerStep, Body, ScheduleStep, Shutdown, Terminating

(* A worker that exits leaves an empty, stopped queue, and it stays so.    *)
LEMMA DrainStep == TypeOK /\ MutexInv /\ LocalsInv /\ DrainBeforeExit /\ [Next]_vars => DrainBeforeExit'
<1> SUFFICES ASSUME TypeOK /\ MutexInv /\ LocalsInv /\ DrainBeforeExit, [Next]_vars PROVE DrainBeforeExit'
  OBVIOUS
<1> USE ThreadsDistinct, NoHandleAssumption DEF TypeOK, MutexInv, LocalsInv, DrainBeforeExit, Threads, WorkerPCs, ClientPCs, OwnerPCs, SchedulePCs, CoStates
<1>1. ASSUME NEW w \in Workers, WorkerLock(w) PROVE DrainBeforeExit'
  BY <1>1 DEF WorkerLock, Acquire, Goto
<1>2. ASSUME NEW w \in Workers, WorkerWait(w) PROVE DrainBeforeExit'
  BY <1>2 DEF WorkerWait, Release, Goto
<1>3. ASSUME NEW w \in Workers, WorkerExit(w) PROVE DrainBeforeExit'
  BY <1>3 DEF WorkerExit, Release, Goto
<1>4. ASSUME NEW w \in Workers, WorkerPop(w) PROVE DrainBeforeExit'
  BY <1>4, HeadTail DEF WorkerPop, Release, Goto
<1>5. ASSUME NEW w \in Workers, SpuriousWake(w) PROVE DrainBeforeExit'
  BY <1>5 DEF SpuriousWake, Goto
<1>6. ASSUME NEW w \in Workers, BodyReturns(w) PROVE DrainBeforeExit'
  BY <1>6 DEF BodyReturns, Goto
<1>7. ASSUME NEW w \in Workers, BodySchedulesItself(w) PROVE DrainBeforeExit'
  BY <1>7 DEF BodySchedulesItself, BeginSchedule, Goto
<1>8. ASSUME NEW w \in Workers, NEW h \in Handles, BodySchedulesOther(w, h) PROVE DrainBeforeExit'
  BY <1>8 DEF BodySchedulesOther, BeginSchedule, Goto
<1>9. ASSUME NEW t \in Clients, NEW h \in Handles, ClientSchedules(t, h) PROVE DrainBeforeExit'
  BY <1>9 DEF ClientSchedules, BeginSchedule, Goto
<1>10. ASSUME NEW t \in Workers \cup Clients, ScheduleLock(t) PROVE DrainBeforeExit'
  BY <1>10 DEF ScheduleLock, Acquire, Goto
<1>11. ASSUME NEW t \in Workers \cup Clients, SchedulePush(t) PROVE DrainBeforeExit'
  BY <1>11 DEF SchedulePush, Release, Goto
<1>12. ASSUME NEW t \in Workers \cup Clients, ScheduleDrop(t) PROVE DrainBeforeExit'
  BY <1>12 DEF ScheduleDrop, Release, AfterSchedule, Goto
<1>13. ASSUME NEW t \in Workers \cup Clients, ScheduleNotify(t) PROVE DrainBeforeExit'
  <2>1. PICK W : NotifyEffect(t, W)
    BY <1>13, Notify
  <2>2. pc[t] = "s_notify"
    BY <1>13 DEF ScheduleNotify
  <2> QED
    BY <2>1, <2>2 DEF NotifyEffect, AfterSchedule
<1>14. CASE ShutdownCall
  BY <1>14 DEF ShutdownCall, Goto
<1>15. CASE ShutdownLock
  BY <1>15 DEF ShutdownLock, Acquire, Goto
<1>16. CASE ShutdownSet
  BY <1>16 DEF ShutdownSet, Release, Goto
<1>17. CASE ShutdownNotifyAll
  BY <1>17 DEF ShutdownNotifyAll
<1>18. CASE ShutdownJoin
  BY <1>18 DEF ShutdownJoin, Goto
<1>19. CASE UNCHANGED vars
  BY <1>19 DEF vars
<1> QED
  BY <1>1, <1>2, <1>3, <1>4, <1>5, <1>6, <1>7, <1>8, <1>9, <1>10, <1>11, <1>12, <1>13, <1>14, <1>15, <1>16, <1>17, <1>18, <1>19
    DEF Next, WorkerStep, Body, ScheduleStep, Shutdown, Terminating

(* After the join, nothing runs and nothing is queued, for good.           *)
LEMMA QuietStep == TypeOK /\ MutexInv /\ LocalsInv /\ DrainBeforeExit /\ QuietAfterShutdown /\ [Next]_vars => QuietAfterShutdown'
<1> SUFFICES ASSUME TypeOK /\ MutexInv /\ LocalsInv /\ DrainBeforeExit /\ QuietAfterShutdown, [Next]_vars PROVE QuietAfterShutdown'
  OBVIOUS
<1> USE WorkersAssumption, ThreadsDistinct, NoHandleAssumption DEF TypeOK, MutexInv, LocalsInv, DrainBeforeExit, QuietAfterShutdown, Threads, WorkerPCs, ClientPCs, OwnerPCs, SchedulePCs, CoStates
<1>1. ASSUME NEW w \in Workers, WorkerLock(w) PROVE QuietAfterShutdown'
  BY <1>1 DEF WorkerLock, Acquire, Goto
<1>2. ASSUME NEW w \in Workers, WorkerWait(w) PROVE QuietAfterShutdown'
  BY <1>2 DEF WorkerWait, Release, Goto
<1>3. ASSUME NEW w \in Workers, WorkerExit(w) PROVE QuietAfterShutdown'
  BY <1>3 DEF WorkerExit, Release, Goto
<1>4. ASSUME NEW w \in Workers, WorkerPop(w) PROVE QuietAfterShutdown'
  BY <1>4 DEF WorkerPop, Release, Goto
<1>5. ASSUME NEW w \in Workers, SpuriousWake(w) PROVE QuietAfterShutdown'
  BY <1>5 DEF SpuriousWake, Goto
<1>6. ASSUME NEW w \in Workers, BodyReturns(w) PROVE QuietAfterShutdown'
  BY <1>6 DEF BodyReturns, Goto
<1>7. ASSUME NEW w \in Workers, BodySchedulesItself(w) PROVE QuietAfterShutdown'
  BY <1>7 DEF BodySchedulesItself, BeginSchedule, Goto
<1>8. ASSUME NEW w \in Workers, NEW h \in Handles, BodySchedulesOther(w, h) PROVE QuietAfterShutdown'
  BY <1>8 DEF BodySchedulesOther, BeginSchedule, Goto
<1>9. ASSUME NEW t \in Clients, NEW h \in Handles, ClientSchedules(t, h) PROVE QuietAfterShutdown'
  BY <1>9 DEF ClientSchedules, BeginSchedule, Goto
<1>10. ASSUME NEW t \in Workers \cup Clients, ScheduleLock(t) PROVE QuietAfterShutdown'
  BY <1>10 DEF ScheduleLock, Acquire, Goto
<1>11. ASSUME NEW t \in Workers \cup Clients, SchedulePush(t) PROVE QuietAfterShutdown'
  BY <1>11 DEF SchedulePush, Release, Goto
<1>12. ASSUME NEW t \in Workers \cup Clients, ScheduleDrop(t) PROVE QuietAfterShutdown'
  BY <1>12 DEF ScheduleDrop, Release, AfterSchedule, Goto
<1>13. ASSUME NEW t \in Workers \cup Clients, ScheduleNotify(t) PROVE QuietAfterShutdown'
  <2>1. PICK W : NotifyEffect(t, W)
    BY <1>13, Notify
  <2>2. pc[t] = "s_notify"
    BY <1>13 DEF ScheduleNotify
  <2> QED
    BY <2>1, <2>2 DEF NotifyEffect, AfterSchedule
<1>14. CASE ShutdownCall
  BY <1>14 DEF ShutdownCall, Goto
<1>15. CASE ShutdownLock
  BY <1>15 DEF ShutdownLock, Acquire, Goto
<1>16. CASE ShutdownSet
  BY <1>16 DEF ShutdownSet, Release, Goto
<1>17. CASE ShutdownNotifyAll
  BY <1>17 DEF ShutdownNotifyAll
<1>18. CASE ShutdownJoin
  BY <1>18 DEF ShutdownJoin, Goto
<1>19. CASE UNCHANGED vars
  BY <1>19 DEF vars
<1> QED
  BY <1>1, <1>2, <1>3, <1>4, <1>5, <1>6, <1>7, <1>8, <1>9, <1>10, <1>11, <1>12, <1>13, <1>14, <1>15, <1>16, <1>17, <1>18, <1>19
    DEF Next, WorkerStep, Body, ScheduleStep, Shutdown, Terminating

(* Between the stop and notify_all only can a worker sleep on a stopped    *)
(* executor.                                                               *)
LEMMA SleepersStep == TypeOK /\ MutexInv /\ StopReachesSleepers /\ [Next]_vars => StopReachesSleepers'
<1> SUFFICES ASSUME TypeOK /\ MutexInv /\ StopReachesSleepers, [Next]_vars PROVE StopReachesSleepers'
  OBVIOUS
<1> USE ThreadsDistinct, NoHandleAssumption DEF TypeOK, MutexInv, InCriticalSection, StopReachesSleepers, Threads, WorkerPCs, ClientPCs, OwnerPCs, SchedulePCs, CoStates
<1>1. ASSUME NEW w \in Workers, WorkerLock(w) PROVE StopReachesSleepers'
  BY <1>1 DEF WorkerLock, Acquire, Goto
<1>2. ASSUME NEW w \in Workers, WorkerWait(w) PROVE StopReachesSleepers'
  BY <1>2 DEF WorkerWait, Release, Goto
<1>3. ASSUME NEW w \in Workers, WorkerExit(w) PROVE StopReachesSleepers'
  BY <1>3 DEF WorkerExit, Release, Goto
<1>4. ASSUME NEW w \in Workers, WorkerPop(w) PROVE StopReachesSleepers'
  BY <1>4 DEF WorkerPop, Release, Goto
<1>5. ASSUME NEW w \in Workers, SpuriousWake(w) PROVE StopReachesSleepers'
  BY <1>5 DEF SpuriousWake, Goto
<1>6. ASSUME NEW w \in Workers, BodyReturns(w) PROVE StopReachesSleepers'
  BY <1>6 DEF BodyReturns, Goto
<1>7. ASSUME NEW w \in Workers, BodySchedulesItself(w) PROVE StopReachesSleepers'
  BY <1>7 DEF BodySchedulesItself, BeginSchedule, Goto
<1>8. ASSUME NEW w \in Workers, NEW h \in Handles, BodySchedulesOther(w, h) PROVE StopReachesSleepers'
  BY <1>8 DEF BodySchedulesOther, BeginSchedule, Goto
<1>9. ASSUME NEW t \in Clients, NEW h \in Handles, ClientSchedules(t, h) PROVE StopReachesSleepers'
  BY <1>9 DEF ClientSchedules, BeginSchedule, Goto
<1>10. ASSUME NEW t \in Workers \cup Clients, ScheduleLock(t) PROVE StopReachesSleepers'
  BY <1>10 DEF ScheduleLock, Acquire, Goto
<1>11. ASSUME NEW t \in Workers \cup Clients, SchedulePush(t) PROVE StopReachesSleepers'
  BY <1>11 DEF SchedulePush, Release, Goto
<1>12. ASSUME NEW t \in Workers \cup Clients, ScheduleDrop(t) PROVE StopReachesSleepers'
  BY <1>12 DEF ScheduleDrop, Release, AfterSchedule, Goto
<1>13. ASSUME NEW t \in Workers \cup Clients, ScheduleNotify(t) PROVE StopReachesSleepers'
  <2>1. PICK W : NotifyEffect(t, W)
    BY <1>13, Notify
  <2>2. pc[t] = "s_notify"
    BY <1>13 DEF ScheduleNotify
  <2> QED
    BY <2>1, <2>2 DEF NotifyEffect, AfterSchedule
<1>14. CASE ShutdownCall
  BY <1>14 DEF ShutdownCall, Goto
<1>15. CASE ShutdownLock
  BY <1>15 DEF ShutdownLock, Acquire, Goto
<1>16. CASE ShutdownSet
  BY <1>16 DEF ShutdownSet, Release, Goto
<1>17. CASE ShutdownNotifyAll
  BY <1>17 DEF ShutdownNotifyAll
<1>18. CASE ShutdownJoin
  BY <1>18 DEF ShutdownJoin, Goto
<1>19. CASE UNCHANGED vars
  BY <1>19 DEF vars
<1> QED
  BY <1>1, <1>2, <1>3, <1>4, <1>5, <1>6, <1>7, <1>8, <1>9, <1>10, <1>11, <1>12, <1>13, <1>14, <1>15, <1>16, <1>17, <1>18, <1>19
    DEF Next, WorkerStep, Body, ScheduleStep, Shutdown, Terminating

(* The inductive invariant: what the threads' locals, the mutex, the queue *)
(* and the coroutines' states say of each other.                           *)
IInv ==
  /\ TypeOK /\ MutexInv /\ LocalsInv /\ SinglePlace /\ NothingLost
  /\ DrainBeforeExit /\ QuietAfterShutdown /\ StopReachesSleepers

(* The invariant holds when the constructor has started the workers.       *)
LEMMA InitIInv == Init => IInv
<1> SUFFICES ASSUME Init PROVE IInv
  OBVIOUS
<1> USE NoHandleAssumption, ThreadsDistinct DEF Init, Threads
<1>1. TypeOK
  <2>1. pc \in [Threads -> WorkerPCs \cup ClientPCs \cup OwnerPCs]
    BY DEF WorkerPCs, ClientPCs, OwnerPCs
  <2>2. /\ \A w \in Workers : pc[w] \in WorkerPCs
        /\ \A t \in Clients : pc[t] \in ClientPCs
        /\ pc[Owner] \in OwnerPCs
    BY DEF WorkerPCs, ClientPCs, OwnerPCs
  <2>3. co \in [Handles -> CoStates] /\ queue \in Seq(Handles)
    BY DEF CoStates
  <2> QED
    BY <2>1, <2>2, <2>3 DEF TypeOK
<1>2. MutexInv /\ LocalsInv
  BY DEF MutexInv, InCriticalSection, LocalsInv
<1>3. SinglePlace /\ NothingLost
  BY DEF SinglePlace, NothingLost
<1>4. DrainBeforeExit /\ QuietAfterShutdown /\ StopReachesSleepers
  BY DEF DrainBeforeExit, QuietAfterShutdown, StopReachesSleepers
<1> QED
  BY <1>1, <1>2, <1>3, <1>4 DEF IInv

(* Every step keeps the invariant.                                         *)
LEMMA NextIInv == IInv /\ [Next]_vars => IInv'
  BY TypeStep, MutexStep, LocalsStep, SinglePlaceStep, NothingLostStep, DrainStep,
     QuietStep, SleepersStep DEF IInv

(* The inductive invariant holds throughout.                               *)
LEMMA Invariance == Spec => []IInv
  BY InitIInv, NextIInv, PTL DEF Spec

(* The variables keep their types (executor.h:42-46).                      *)
THEOREM TypeCorrect == Spec => []TypeOK
  BY Invariance, PTL DEF IInv

(* At most one thread is inside a block guarded by mutex_, and the workers *)
(* blocked in cv_.wait are those of the wait set (executor.cpp:19, 30,     *)
(* 52-55).                                                                 *)
THEOREM MutualExclusion == Spec => []MutexInv
  BY Invariance, PTL DEF IInv

(* No two threads resume the same coroutine, and a coroutine that was      *)
(* accepted stays in the queue until a worker takes it (executor.cpp:23,   *)
(* 61-64).                                                                 *)
THEOREM OnePlacePerCoroutine == Spec => [](SinglePlace /\ NothingLost)
  BY Invariance, PTL DEF IInv

(* What was accepted before the stop has been taken by a worker when the   *)
(* first worker leaves, and when shutdown() returns nothing runs any more  *)
(* (executor.cpp:57-59, 35-39).                                            *)
THEOREM DrainedShutdown == Spec => [](DrainBeforeExit /\ QuietAfterShutdown)
  BY Invariance, PTL DEF IInv

-----------------------------------------------------------------------------

(* The executor starts as an empty, open queue.                            *)
LEMMA RefinementInit == Init => HQ!Init
  BY DEF Init, HQ!Init

(* Every step of the executor is a step of HandleQueue or changes nothing  *)
(* HandleQueue sees: pop delivers, a body that suspends or ends lets go,   *)
(* push accepts, the stop closes, the end of the join returns.             *)
LEMMA RefinementStep == IInv /\ [Next]_vars => [HQ!Next]_HQ!vars
<1> SUFFICES ASSUME IInv, [Next]_vars PROVE [HQ!Next]_HQ!vars
  OBVIOUS
<1> USE DEF IInv
<1>1. ASSUME NEW w \in Workers, WorkerPop(w) PROVE HQ!Deliver(w)
  <2>1. pc[w] = "check" /\ cur[w] = NoHandle
    BY <1>1 DEF WorkerPop, LocalsInv
  <2>2. shutdowns = 0
    BY <2>1 DEF QuietAfterShutdown, TypeOK
  <2> QED
    BY <1>1, <2>1, <2>2 DEF WorkerPop, HQ!Deliver
<1>2. ASSUME NEW w \in Workers, BodyReturns(w) \/ BodySchedulesItself(w) PROVE HQ!LetGo(w)
  BY <1>2 DEF BodyReturns, BodySchedulesItself, BeginSchedule, HQ!LetGo, LocalsInv
<1>3. ASSUME NEW t \in Workers \cup Clients, SchedulePush(t) PROVE HQ!Accept(arg[t])
  <2>1. arg[t] # NoHandle
    BY <1>3 DEF SchedulePush, LocalsInv
  <2>2. co[arg[t]] = "passed"
    BY <2>1 DEF SinglePlace
  <2>3. arg[t] \notin HQ!PendingSet
    BY <2>2 DEF SinglePlace, HQ!PendingSet
  <2>4. \A w \in Workers : cur[w] # arg[t]
    BY <2>1, <2>2 DEF SinglePlace
  <2> QED
    BY <1>3, <2>3, <2>4 DEF SchedulePush, HQ!Accept
<1>4. ASSUME ShutdownSet PROVE HQ!Close
  BY <1>4 DEF ShutdownSet, HQ!Close
<1>5. ASSUME ShutdownJoin PROVE HQ!Return
  BY <1>5, WorkersAssumption
     DEF ShutdownJoin, HQ!Return, DrainBeforeExit, LocalsInv, TypeOK
<1>6. ASSUME UNCHANGED <<queue, cur, stopped, shutdowns>> PROVE UNCHANGED HQ!vars
  BY <1>6 DEF HQ!vars
<1>7. ASSUME NEW w \in Workers,
             WorkerLock(w) \/ WorkerWait(w) \/ WorkerExit(w) \/ SpuriousWake(w)
               \/ (\E h \in Handles : BodySchedulesOther(w, h))
      PROVE  UNCHANGED <<queue, cur, stopped, shutdowns>>
  BY <1>7 DEF WorkerLock, WorkerWait, WorkerExit, SpuriousWake, BodySchedulesOther
<1>8. ASSUME NEW t \in Workers \cup Clients,
             \/ \E h \in Handles : ClientSchedules(t, h)
             \/ ScheduleLock(t) \/ ScheduleDrop(t) \/ ScheduleNotify(t)
      PROVE  UNCHANGED <<queue, cur, stopped, shutdowns>>
  BY <1>8 DEF ClientSchedules, ScheduleLock, ScheduleDrop, ScheduleNotify
<1>9. ASSUME ShutdownCall \/ ShutdownLock \/ ShutdownNotifyAll \/ UNCHANGED vars
      PROVE  UNCHANGED <<queue, cur, stopped, shutdowns>>
  BY <1>9 DEF ShutdownCall, ShutdownLock, ShutdownNotifyAll, vars
<1>10. \A t \in Workers \cup Clients : SchedulePush(t) => arg[t] \in Handles
  BY DEF SchedulePush, LocalsInv, TypeOK
<1> QED
  BY <1>1, <1>2, <1>3, <1>4, <1>5, <1>6, <1>7, <1>8, <1>9, <1>10
     DEF Next, WorkerStep, Body, ScheduleStep, Shutdown, Terminating, HQ!Next

(* The executor is a first-in first-out hand-over that delivers each       *)
(* accepted handle to one worker and everything before shutdown() returns. *)
THEOREM Refinement == Spec => ImplementsHandleQueue
  BY RefinementInit, RefinementStep, Invariance, PTL DEF Spec, HQ!Spec, ImplementsHandleQueue

-----------------------------------------------------------------------------
(* No lost wake-up.  The two sets whose sizes the invariant adds are       *)
(* finite; a step either leaves the queue alone and shrinks neither, or is *)
(* one of the four that move an element.                                   *)

(* The threads on their way to notify or to look are finitely many.        *)
LEMMA Finite ==
  /\ IsFiniteSet(Notifying) /\ IsFiniteSet(Looking)
  /\ IsFiniteSet(Notifying') /\ IsFiniteSet(Looking')
<1>1. IsFiniteSet(Workers \cup Clients)
  BY FinitelyManyThreads, FS_Union
<1> QED
  BY <1>1, FinitelyManyThreads, FS_Subset DEF Notifying, Looking

(* So they can be counted.                                                 *)
LEMMA Sizes ==
  /\ Cardinality(Notifying) \in Nat /\ Cardinality(Looking) \in Nat
  /\ Cardinality(Notifying') \in Nat /\ Cardinality(Looking') \in Nat
  BY Finite, FS_CardinalityType

(* A step that leaves the queue alone, puts nobody to sleep and takes away *)
(* no wake-up keeps the invariant.                                         *)
LEMMA NoFewerWakeups ==
  ASSUME TypeOK, NoLostWakeup, queue' = queue, waitset' \subseteq waitset,
         Notifying \subseteq Notifying', Looking \subseteq Looking'
  PROVE  NoLostWakeup'
<1>1. /\ Cardinality(Notifying) <= Cardinality(Notifying')
      /\ Cardinality(Looking) <= Cardinality(Looking')
  BY Finite, FS_Subset
<1>2. Len(queue) \in Nat
  BY DEF TypeOK
<1> QED
  BY <1>1, <1>2, Sizes DEF NoLostWakeup

(* Every step keeps a wake-up on its way for each queued handle: a push    *)
(* brings its own notification, a notification becomes a worker that       *)
(* looks, a worker that looks takes a handle or finds none.                *)
LEMMA WakeupStep == IInv /\ NoLostWakeup /\ [Next]_vars => NoLostWakeup'
<1> SUFFICES ASSUME IInv, NoLostWakeup, [Next]_vars PROVE NoLostWakeup'
  OBVIOUS
<1> USE ThreadsDistinct DEF IInv, TypeOK, Threads
<1>1. ASSUME NEW w \in Workers,
             WorkerLock(w) \/ SpuriousWake(w) \/ BodyReturns(w) \/ BodySchedulesItself(w)
               \/ \E h \in Handles : BodySchedulesOther(w, h)
      PROVE  NoLostWakeup'
  <2>1. /\ queue' = queue /\ waitset' \subseteq waitset
        /\ Notifying \subseteq Notifying' /\ Looking \subseteq Looking'
    BY <1>1 DEF WorkerLock, Acquire, SpuriousWake, BodyReturns, BodySchedulesItself,
                BodySchedulesOther, BeginSchedule, Goto, Notifying, Looking, MutexInv
  <2> QED
    BY <2>1, NoFewerWakeups
<1>2. ASSUME NEW w \in Workers, WorkerWait(w) \/ WorkerExit(w) PROVE NoLostWakeup'
  <2>1. Len(queue') = 0
    BY <1>2 DEF WorkerWait, WorkerExit
  <2> QED
    BY <2>1, Sizes DEF NoLostWakeup
<1>3. ASSUME NEW w \in Workers, WorkerPop(w) PROVE NoLostWakeup'
  <2>1. Notifying' = Notifying /\ Looking' = Looking \ {w} /\ w \in Looking
    BY <1>3 DEF WorkerPop, Goto, Notifying, Looking
  <2>2. Cardinality(Looking') = Cardinality(Looking) - 1
    BY <2>1, Finite, FS_RemoveElement
  <2>3. Len(queue') = Len(queue) - 1 /\ Len(queue) \in Nat /\ waitset' = waitset
    BY <1>3, HeadTail DEF WorkerPop
  <2> QED
    BY <2>1, <2>2, <2>3, Sizes DEF NoLostWakeup
<1>4. ASSUME NEW t \in Clients, NEW h \in Handles, ClientSchedules(t, h)
      PROVE  NoLostWakeup'
  <2>1. /\ queue' = queue /\ waitset' \subseteq waitset
        /\ Notifying \subseteq Notifying' /\ Looking \subseteq Looking'
    BY <1>4 DEF ClientSchedules, BeginSchedule, Goto, Notifying, Looking
  <2> QED
    BY <2>1, NoFewerWakeups
<1>5. ASSUME NEW t \in Workers \cup Clients, ScheduleLock(t) \/ ScheduleDrop(t)
      PROVE  NoLostWakeup'
  <2>1. /\ queue' = queue /\ waitset' \subseteq waitset
        /\ Notifying \subseteq Notifying' /\ Looking \subseteq Looking'
    BY <1>5 DEF ScheduleLock, ScheduleDrop, Acquire, Goto, Notifying, Looking
  <2> QED
    BY <2>1, NoFewerWakeups
<1>6. ASSUME NEW t \in Workers \cup Clients, SchedulePush(t) PROVE NoLostWakeup'
  <2>1. Looking' = Looking /\ Notifying' = Notifying \cup {t} /\ t \notin Notifying
    BY <1>6 DEF SchedulePush, Goto, Notifying, Looking
  <2>2. Cardinality(Notifying') = Cardinality(Notifying) + 1
    BY <2>1, Finite, FS_AddElement
  <2>3. arg[t] \in Handles
    BY <1>6 DEF SchedulePush, LocalsInv
  <2>4. Len(queue') = Len(queue) + 1 /\ Len(queue) \in Nat /\ waitset' = waitset
    BY <1>6, <2>3, AppendLast DEF SchedulePush
  <2> QED
    BY <2>1, <2>2, <2>4, Sizes DEF NoLostWakeup
<1>7. ASSUME NEW t \in Workers \cup Clients, ScheduleNotify(t) PROVE NoLostWakeup'
  <2>1. PICK W : NotifyEffect(t, W) /\ (W = {} \/ \E w : W = {w})
    BY <1>7, Notify
  <2>2. CASE W = {}
    BY <2>1, <2>2 DEF NotifyEffect, NoLostWakeup
  <2>3. ASSUME NEW w, W = {w} PROVE NoLostWakeup'
    <3>1. w \in waitset /\ w # t /\ pc[t] = "s_notify" /\ pc[w] = "waiting"
      BY <1>7, <2>1, <2>3 DEF NotifyEffect, ScheduleNotify, MutexInv
    <3>2. Notifying' = Notifying \ {t} /\ t \in Notifying
      BY <2>1, <2>3, <3>1 DEF NotifyEffect, AfterSchedule, Notifying
    <3>3. Looking \cup {w} \subseteq Looking' /\ w \notin Looking
      BY <2>1, <2>3, <3>1 DEF NotifyEffect, Looking
    <3>4. Cardinality(Notifying') = Cardinality(Notifying) - 1
      BY <3>2, Finite, FS_RemoveElement
    <3>5. Cardinality(Looking \cup {w}) = Cardinality(Looking) + 1
      BY <3>3, Finite, FS_AddElement
    <3>6. Cardinality(Looking \cup {w}) <= Cardinality(Looking')
      BY <3>3, Finite, FS_Subset
    <3>7. queue' = queue /\ waitset # {} /\ Len(queue) \in Nat
      BY <2>1, <3>1 DEF NotifyEffect
    <3> QED
      BY <3>4, <3>5, <3>6, <3>7, Sizes DEF NoLostWakeup
  <2> QED
    BY <2>1, <2>2, <2>3
<1>8. CASE ShutdownCall \/ ShutdownLock \/ ShutdownSet \/ ShutdownJoin \/ UNCHANGED vars
  <2>1. /\ queue' = queue /\ waitset' \subseteq waitset
        /\ Notifying \subseteq Notifying' /\ Looking \subseteq Looking'
    BY <1>8 DEF ShutdownCall, ShutdownLock, ShutdownSet, ShutdownJoin, Acquire, Goto,
                vars, Notifying, Looking
  <2> QED
    BY <2>1, NoFewerWakeups
<1>9. CASE ShutdownNotifyAll
  BY <1>9 DEF ShutdownNotifyAll, NoLostWakeup
<1> QED
  BY <1>1, <1>2, <1>3, <1>4, <1>5, <1>6, <1>7, <1>8, <1>9
     DEF Next, WorkerStep, Body, ScheduleStep, Shutdown, Terminating

(* No handle waits in the queue while a worker sleeps and no wake-up is    *)
(* under way, although notify_one runs after the mutex is released         *)
(* (executor.cpp:17-26).                                                   *)
THEOREM NoWakeupIsLost == Spec => []NoLostWakeup
<1>1. Init => NoLostWakeup
  BY DEF Init, NoLostWakeup
<1> QED
  BY <1>1, WakeupStep, Invariance, PTL DEF Spec
=============================================================================
