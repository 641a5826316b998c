---------------------------- MODULE WhenAnyProofs ----------------------------
(***************************************************************************)
(* What holds of a call of when_any for any number of tasks: the result is *)
(* written once, and the caller does not sleep through it.  Both rest on   *)
(* the exchange of `completed`: it lets one child through, before anything *)
(* is stored.                                                              *)
(***************************************************************************)
EXTENDS WhenAny, TLAPS

(* Of the children at most one has won and not yet stored; the flag is up  *)
(* and the result empty while it has not (when_any.h: exchange, then the   *)
(* assignment).                                                            *)
OneWinner ==
  /\ \A i \in Children : child[i] = "won" => completed /\ winner = 0
  /\ \A i, j \in Children : child[i] = "won" /\ child[j] = "won" => i = j
  /\ winner # 0 => completed

(* The inductive invariant.                                                *)
IInv == TypeOK /\ OneWinner /\ NoSleepOnWinner

(* It holds before the first task is started.                              *)
LEMMA InitIInv == ASSUME WhenAnyAssumption PROVE Init => IInv
<1> SUFFICES ASSUME Init PROVE IInv
  OBVIOUS
<1>1. TypeOK
  <2>1. child \in [Children -> ChildStates]
    BY DEF Init, ChildStates
  <2>2. 0 \in 0 .. N
    BY DEF WhenAnyAssumption
  <2> QED
    BY <2>1, <2>2 DEF Init, TypeOK, ParentStates
<1>2. OneWinner /\ NoSleepOnWinner
  BY DEF Init, OneWinner, NoSleepOnWinner
<1> QED
  BY <1>1, <1>2 DEF IInv

(* Every step keeps the types.                                             *)
LEMMA TypeStep == ASSUME WhenAnyAssumption, TypeOK, [Next]_vars PROVE TypeOK'
<1> USE DEF WhenAnyAssumption, TypeOK, Children, ChildStates, UsesFrame, ParentStates, Finished, MoveChild
<1>1. CASE Launch
  BY <1>1 DEF Launch
<1>2. CASE AllLaunched \/ Loop \/ Recheck \/ ReadResult
  BY <1>2 DEF AllLaunched, Loop, Recheck, ReadResult
<1>3. CASE LoopLock \/ WakeUp \/ SpuriousWake
  BY <1>3 DEF LoopLock, WakeUp, SpuriousWake
<1>4. ASSUME NEW i \in Children, ChildSuspends(i) \/ ChildResumes(i) PROVE TypeOK'
  BY <1>4 DEF ChildSuspends, ChildResumes
<1>5. ASSUME NEW i \in Children, ChildSucceeds(i) \/ ChildFails(i) PROVE TypeOK'
  BY <1>5 DEF ChildSucceeds, ChildFails
<1>6. ASSUME NEW i \in Children, Lock(i) \/ Exchange(i) \/ Unlock(i) PROVE TypeOK'
  BY <1>6 DEF Lock, Exchange, Unlock
<1>7. ASSUME NEW i \in Children, Store(i) PROVE TypeOK'
  BY <1>7 DEF Store, CapturedIndex
<1>8. CASE UNCHANGED vars
  BY <1>8 DEF vars
<1> QED
  BY <1>1, <1>2, <1>3, <1>4, <1>5, <1>6, <1>7, <1>8 DEF Next, ParentStep, ChildStep, Terminating

(* Every step keeps the winner unique and the caller awake: the exchange   *)
(* makes a winner only of the child that finds the flag down.              *)
LEMMA WinnerStep ==
  ASSUME WhenAnyAssumption, IInv, [Next]_vars PROVE OneWinner' /\ NoSleepOnWinner'
<1> USE DEF WhenAnyAssumption, IInv, TypeOK, OneWinner, NoSleepOnWinner, Children, MoveChild
<1>1. CASE Launch
  BY <1>1 DEF Launch
<1>2. CASE AllLaunched \/ Loop \/ Recheck \/ ReadResult
  BY <1>2 DEF AllLaunched, Loop, Recheck, ReadResult
<1>3. CASE LoopLock \/ WakeUp \/ SpuriousWake
  BY <1>3 DEF LoopLock, WakeUp, SpuriousWake
<1>4. ASSUME NEW i \in Children, ChildSuspends(i) \/ ChildResumes(i)
      PROVE  OneWinner' /\ NoSleepOnWinner'
  BY <1>4 DEF ChildSuspends, ChildResumes
<1>5. ASSUME NEW i \in Children, ChildSucceeds(i) \/ ChildFails(i)
      PROVE  OneWinner' /\ NoSleepOnWinner'
  BY <1>5 DEF ChildSucceeds, ChildFails
<1>6. ASSUME NEW i \in Children, Lock(i) \/ Unlock(i)
      PROVE  OneWinner' /\ NoSleepOnWinner'
  BY <1>6 DEF Lock, Unlock
<1>7. ASSUME NEW i \in Children, Exchange(i) PROVE OneWinner' /\ NoSleepOnWinner'
  <2>1. CASE completed
    BY <1>7, <2>1 DEF Exchange
  <2>2. CASE ~completed
    BY <1>7, <2>2 DEF Exchange
  <2> QED
    BY <2>1, <2>2
<1>8. ASSUME NEW i \in Children, Store(i) PROVE OneWinner' /\ NoSleepOnWinner'
  BY <1>8 DEF Store
<1>9. CASE UNCHANGED vars
  BY <1>9 DEF vars
<1> QED
  BY <1>1, <1>2, <1>3, <1>4, <1>5, <1>6, <1>7, <1>8, <1>9
     DEF Next, ParentStep, ChildStep, Terminating

(* The inductive invariant holds throughout.                               *)
LEMMA Invariance == ASSUME WhenAnyAssumption PROVE Spec => []IInv
<1>1. IInv /\ [Next]_vars => IInv'
  BY TypeStep, WinnerStep DEF IInv
<1> QED
  BY InitIInv, <1>1, PTL DEF Spec

(* The variables keep their types.                                         *)
THEOREM TypeCorrect == ASSUME WhenAnyAssumption PROVE Spec => []TypeOK
  BY Invariance, PTL DEF IInv

(* The caller does not sleep on a flag that is up, unless the winner has   *)
(* still to notify it (when_any.h: exchange, notify_all, the second load). *)
THEOREM NoSleep == ASSUME WhenAnyAssumption PROVE Spec => []NoSleepOnWinner
  BY Invariance, PTL DEF IInv

(* The first success is the result: it is stored once, with its index, and *)
(* no later child touches it while the caller reads it without the mutex.  *)
THEOREM WrittenOnce == ASSUME WhenAnyAssumption PROVE Spec => ResultWrittenOnce
<1>1. ASSUME IInv, [Next]_vars
      PROVE  [winner # 0 => winner' = winner /\ index' = index]_vars
  <2>1. ASSUME NEW i \in Children, Store(i) PROVE winner = 0
    BY <1>1, <2>1 DEF Store, IInv, OneWinner
  <2>2. ASSUME NEW i \in Children,
               \/ ChildSuspends(i) \/ ChildResumes(i) \/ ChildSucceeds(i) \/ ChildFails(i)
               \/ Lock(i) \/ Exchange(i) \/ Unlock(i)
        PROVE  winner' = winner /\ index' = index
    BY <2>2 DEF ChildSuspends, ChildResumes, ChildSucceeds, ChildFails, Lock, Exchange, Unlock
  <2>3. CASE ParentStep \/ LoopLock \/ WakeUp \/ SpuriousWake \/ UNCHANGED vars
    BY <2>3 DEF ParentStep, Launch, AllLaunched, Loop, Recheck, ReadResult, LoopLock, WakeUp,
                SpuriousWake, vars
  <2> QED
    BY <1>1, <2>1, <2>2, <2>3 DEF Next, ChildStep, Terminating
<1> QED
  BY <1>1, Invariance, PTL DEF Spec, ResultWrittenOnce
=============================================================================
