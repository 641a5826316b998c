--------------------------- MODULE TaskGroupProofs ---------------------------
(***************************************************************************)
(* What wait() and the scoped destructor cover, for any number of tasks    *)
(* spawned.  A task is started before it is tracked, so the scan may miss  *)
(* tasks; but whoever is inside spawn() is itself running, and was spawned *)
(* earlier.  Of the tasks the scan misses take the one spawned first: its  *)
(* spawner is running and not missed, and the scan found it.               *)
(***************************************************************************)
EXTENDS TaskGroup, WellFoundedInduction, TLAPS

(* A nonempty set of naturals has a least element.                         *)
LEMMA Least ==
  ASSUME NEW S \in SUBSET Nat, S # {}
  PROVE  \E n \in S : \A m \in S : ~(m < n)
<1> DEFINE R == {p \in Nat \X Nat : p[1] < p[2]}
<1>1. IsWellFoundedOn(R, Nat)
  BY NatLessThanWellFounded DEF OpToRel
<1>2. PICK n \in S : \A m \in S : ~(<<m, n>> \in R)
  <2> HIDE DEF R
  <2> QED
    BY <1>1, WFMin
<1>3. ASSUME NEW m \in S, m < n PROVE <<m, n>> \in R
  BY <1>3
<1> QED
  BY <1>2, <1>3

(* Tasks are spawned in order; the caller of spawn() is the owner with the *)
(* group open, or a task spawned before that runs its body.                *)
SpawnTree ==
  /\ \A t \in Tasks : task[t] # "new" => \A u \in 1 .. t - 1 : task[u] # "new"
  /\ \A t \in Tasks : spawner[t] = Owner => owner = "open"
  /\ \A t \in Tasks : spawner[t] \in Tasks => spawner[t] < t /\ task[spawner[t]] = "body"

(* A started task is tracked or its spawn() has not returned; only a task  *)
(* whose body has ended has failed.                                        *)
Accounted ==
  /\ \A t \in Launched : spawner[t] # Nobody \/ t \in Tracked
  /\ \A t \in failed : task[t] \in {"caught", "completed"}

(* The inductive invariant.                                                *)
IInv ==
  /\ TypeOK /\ SpawnTree /\ Accounted
  /\ WaitCoversNestedSpawns /\ WaitReportsFailure /\ ScopeWaits

(* It holds of an empty group.                                             *)
LEMMA InitIInv == ASSUME TaskGroupAssumption PROVE Init => IInv
<1> SUFFICES ASSUME Init PROVE IInv
  OBVIOUS
<1> USE DEF TaskGroupAssumption, Init
<1>1. TypeOK
  <2>1. task \in [Tasks -> TaskStates] /\ spawner \in [Tasks -> {Owner, Nobody} \cup Tasks]
    BY DEF TaskStates
  <2>2. tracked \in Seq(Tasks)
    OBVIOUS
  <2> QED
    BY <2>1, <2>2 DEF TypeOK, OwnerStates
<1>2. SpawnTree /\ Accounted
  BY DEF SpawnTree, Accounted, Launched, Tasks, Owner, Nobody
<1>3. WaitCoversNestedSpawns /\ WaitReportsFailure /\ ScopeWaits
  BY DEF WaitCoversNestedSpawns, WaitReportsFailure, ScopeWaits
<1> QED
  BY <1>1, <1>2, <1>3 DEF IInv

(* spawn() adds one task to the tracked.                                   *)
LEMMA TrackedGrows ==
  ASSUME TypeOK, NEW t \in Tasks, tracked' = Append(tracked, t)
  PROVE  tracked' \in Seq(Tasks) /\ Tracked' = Tracked \cup {t}
<1>1. /\ Len(tracked) \in Nat /\ Len(tracked') = Len(tracked) + 1
      /\ tracked' \in Seq(Tasks) /\ tracked'[Len(tracked) + 1] = t
      /\ \A k \in 1 .. Len(tracked) : tracked'[k] = tracked[k]
  BY DEF TypeOK
<1>2. Tracked' \subseteq Tracked \cup {t}
  BY <1>1 DEF Tracked
<1>3. Tracked \cup {t} \subseteq Tracked'
  BY <1>1 DEF Tracked
<1> QED
  BY <1>1, <1>2, <1>3

(* When the scan finds all tracked tasks completed and the owner is not in *)
(* spawn(), every started task is tracked and completed.                   *)
LEMMA ScanCoversAll ==
  ASSUME TaskGroupAssumption, TypeOK, SpawnTree, Accounted, AllDone,
         \A t \in Tasks : spawner[t] # Owner
  PROVE  Launched \subseteq Tracked /\ Launched = Completed
<1> DEFINE Missed == Launched \ Tracked
<1>1. ASSUME NEW t \in Missed PROVE \E s \in Missed : s < t
  <2>1. spawner[t] \in Tasks
    BY <1>1 DEF Accounted, Launched, TypeOK
  <2>2. spawner[t] < t /\ task[spawner[t]] = "body"
    BY <1>1, <2>1 DEF SpawnTree, Launched
  <2>3. spawner[t] \in Launched \ Completed
    BY <2>1, <2>2 DEF Launched, Completed
  <2> QED
    BY <2>2, <2>3 DEF AllDone
<1>2. Missed \in SUBSET Nat
  BY DEF Launched, Tasks, TaskGroupAssumption
<1>3. Missed = {}
  <2> HIDE DEF Missed
  <2> QED
    BY <1>1, <1>2, Least
<1>4. Completed \subseteq Launched
  BY DEF Completed, Launched
<1> QED
  BY <1>3, <1>4 DEF AllDone

(* Every step keeps the types.                                             *)
LEMMA TypeStep == ASSUME TaskGroupAssumption, TypeOK, [Next]_vars PROVE TypeOK'
<1> USE DEF TypeOK, OwnerStates, TaskStates, MoveTask
<1>1. ASSUME NEW s \in {Owner} \cup Tasks, NEW t \in Tasks, Launch(s, t) PROVE TypeOK'
  BY <1>1 DEF Launch
<1>2. ASSUME NEW t \in Tasks, Track(t) PROVE TypeOK'
  BY <1>2, TrackedGrows DEF Track
<1>3. ASSUME NEW t \in Tasks, CheckToken(t) \/ Suspend(t) PROVE TypeOK'
  BY <1>3 DEF CheckToken, Suspend
<1>4. ASSUME NEW t \in Tasks, BodyReturns(t) \/ BodyThrows(t) \/ Caught(t) PROVE TypeOK'
  BY <1>4 DEF BodyReturns, BodyThrows, Caught
<1>5. CASE CancelAll \/ CallWait \/ UNCHANGED vars
  BY <1>5 DEF CancelAll, CallWait, vars
<1>6. CASE Wait
  BY <1>6 DEF Wait, ScanDone, WaitResult, ScanAgain, Delayed, CloseScoped
<1>7. CASE Destroy \/ DestroyScoped
  BY <1>7 DEF Destroy, DestroyScoped
<1> QED
  BY <1>1, <1>2, <1>3, <1>4, <1>5, <1>6, <1>7 DEF Next, TaskStep, Terminating

(* Every step keeps the spawners where they are: whoever is inside spawn() *)
(* does nothing else.                                                      *)
LEMMA TreeStep ==
  ASSUME TaskGroupAssumption, TypeOK, SpawnTree, [Next]_vars PROVE SpawnTree'
<1> USE DEF TaskGroupAssumption, TypeOK, SpawnTree, TaskStates, MoveTask, Tasks, Owner, Nobody
<1>1. ASSUME NEW s \in {Owner} \cup Tasks, NEW t \in Tasks, Launch(s, t) PROVE SpawnTree'
  BY <1>1 DEF Launch, MayAct
<1>2. ASSUME NEW t \in Tasks, Track(t) PROVE SpawnTree'
  BY <1>2 DEF Track
<1>3. ASSUME NEW t \in Tasks, CheckToken(t) \/ Suspend(t) PROVE SpawnTree'
  BY <1>3 DEF CheckToken, Suspend
<1>4. ASSUME NEW t \in Tasks, BodyReturns(t) \/ BodyThrows(t) \/ Caught(t) PROVE SpawnTree'
  BY <1>4 DEF BodyReturns, BodyThrows, Caught, MayAct
<1>5. CASE CancelAll \/ CallWait \/ UNCHANGED vars
  BY <1>5 DEF CancelAll, CallWait, MayAct, vars
<1>6. CASE Wait
  BY <1>6 DEF Wait, ScanDone, ScanAgain, Delayed, CloseScoped
<1>7. CASE Destroy \/ DestroyScoped
  BY <1>7 DEF Destroy, DestroyScoped, MayAct
<1> QED
  BY <1>1, <1>2, <1>3, <1>4, <1>5, <1>6, <1>7 DEF Next, TaskStep, Terminating

(* Every step keeps the accounts: a task is tracked as its spawn() returns.*)
LEMMA AccountedStep ==
  ASSUME TaskGroupAssumption, TypeOK, Accounted, [Next]_vars PROVE Accounted'
<1> USE DEF TaskGroupAssumption, TypeOK, Accounted, Launched, TaskStates, MoveTask
<1>1. ASSUME NEW s \in {Owner} \cup Tasks, NEW t \in Tasks, Launch(s, t) PROVE Accounted'
  <2>1. Tracked' = Tracked
    BY <1>1 DEF Launch, Tracked
  <2> QED
    BY <1>1, <2>1 DEF Launch, Owner, Nobody, Tasks
<1>2. ASSUME NEW t \in Tasks, Track(t) PROVE Accounted'
  BY <1>2, TrackedGrows DEF Track
<1>3. ASSUME Tracked' = Tracked, NEW t \in Tasks, CheckToken(t) \/ Suspend(t)
      PROVE  Accounted'
  BY <1>3 DEF CheckToken, Suspend
<1>4. ASSUME Tracked' = Tracked, NEW t \in Tasks, BodyReturns(t) \/ BodyThrows(t) \/ Caught(t)
      PROVE  Accounted'
  BY <1>4 DEF BodyReturns, BodyThrows, Caught
<1>5. ASSUME UNCHANGED tracked PROVE Tracked' = Tracked
  BY <1>5 DEF Tracked
<1>6. ASSUME NEW t \in Tasks,
             CheckToken(t) \/ Suspend(t) \/ BodyReturns(t) \/ BodyThrows(t) \/ Caught(t)
      PROVE  UNCHANGED tracked
  BY <1>6 DEF CheckToken, Suspend, BodyReturns, BodyThrows, Caught
<1>7. CASE CancelAll \/ CallWait \/ Wait \/ Destroy \/ DestroyScoped \/ UNCHANGED vars
  <2>1. UNCHANGED <<tracked, task, spawner, failed>>
    BY <1>7 DEF CancelAll, CallWait, Wait, ScanDone, ScanAgain, Delayed, CloseScoped,
                Destroy, DestroyScoped, vars
  <2> QED
    BY <1>5, <2>1
<1> QED
  BY <1>1, <1>2, <1>3, <1>4, <1>5, <1>6, <1>7 DEF Next, TaskStep, Terminating

(* Every step keeps what wait() promises: a scan that ends makes it true;  *)
(* afterwards no task runs that could spawn, throw or complete, until the  *)
(* owner spawns again, which takes the outcome back and needs an open      *)
(* group.                                                                  *)
Promise == WaitCoversNestedSpawns /\ WaitReportsFailure /\ ScopeWaits

LEMMA PromiseStep ==
  ASSUME TaskGroupAssumption, IInv, [Next]_vars PROVE Promise'
<1> USE DEF TaskGroupAssumption, IInv, Promise, WaitCoversNestedSpawns, WaitReportsFailure, ScopeWaits
<1>1. ASSUME NEW s \in {Owner} \cup Tasks, NEW t \in Tasks, Launch(s, t) PROVE Promise'
  <2>1. outcome' = "none" /\ owner' = owner /\ scoped' = scoped
    BY <1>1 DEF Launch
  <2>2. owner = "open" \/ Launched # Completed
    BY <1>1 DEF Launch, MayAct, Launched, Completed
  <2>3. owner # "closed"
    BY <1>1 DEF Launch
  <2> QED
    BY <2>1, <2>2, <2>3
<1>2. ASSUME UNCHANGED <<scoped, owner, outcome, task, failed>> PROVE Promise'
  BY <1>2 DEF Launched, Completed
<1>3. ASSUME NEW t \in Tasks, Track(t) \/ Suspend(t) PROVE Promise'
  BY <1>2, <1>3 DEF Track, Suspend
<1>4. ASSUME NEW t \in Tasks, CheckToken(t) \/ BodyReturns(t) \/ BodyThrows(t) \/ Caught(t)
      PROVE  Promise'
  <2>1. Launched # Completed
    BY <1>4 DEF CheckToken, BodyReturns, BodyThrows, Caught, Launched, Completed
  <2>2. UNCHANGED <<scoped, owner, outcome>>
    BY <1>4 DEF CheckToken, BodyReturns, BodyThrows, Caught
  <2>3. outcome \notin {"returned", "threw"} /\ ~(scoped /\ owner \in {"closed", "terminated"})
    BY <2>1
  <2> QED
    BY <2>2, <2>3 DEF TypeOK
<1>5. CASE CancelAll \/ UNCHANGED vars
  BY <1>2, <1>5 DEF CancelAll, vars
<1>6. ASSUME UNCHANGED <<task, failed>> PROVE Launched' = Launched /\ Completed' = Completed
  BY <1>6 DEF Launched, Completed
<1>7. CASE CallWait \/ ScanAgain \/ Delayed
  BY <1>6, <1>7 DEF CallWait, ScanAgain, Delayed
<1>8. CASE ScanDone
  <2>1. Launched \subseteq Tracked /\ Launched = Completed
    BY <1>8, ScanCoversAll DEF ScanDone, SpawnTree
  <2>2. failed \subseteq Launched
    BY DEF Accounted, Launched, TypeOK
  <2>3. outcome' = "returned" => failed' = {}
    BY <1>8, <2>1, <2>2 DEF ScanDone, WaitResult
  <2> QED
    BY <1>6, <1>8, <2>1, <2>3 DEF ScanDone
<1>9. CASE Destroy
  BY <1>6, <1>9 DEF Destroy
<1>10. CASE DestroyScoped
  <2>1. AllDone => Launched = Completed
    BY <1>10, ScanCoversAll DEF DestroyScoped, MayAct
  <2> QED
    BY <1>6, <1>10, <2>1 DEF DestroyScoped
<1>11. CASE CloseScoped
  <2>1. Launched = Completed
    BY <1>11, ScanCoversAll DEF CloseScoped, SpawnTree
  <2> QED
    BY <1>6, <1>11, <2>1 DEF CloseScoped
<1> QED
  BY <1>1, <1>3, <1>4, <1>5, <1>7, <1>8, <1>9, <1>10, <1>11 DEF Next, TaskStep, Wait, Terminating

(* The inductive invariant holds throughout.                               *)
LEMMA Invariance == ASSUME TaskGroupAssumption PROVE Spec => []IInv
<1>1. IInv /\ [Next]_vars => IInv'
  BY TypeStep, TreeStep, AccountedStep, PromiseStep DEF IInv, Promise
<1> QED
  BY InitIInv, <1>1, PTL DEF Spec

(* The variables keep their types.                                         *)
THEOREM TypeCorrect == ASSUME TaskGroupAssumption PROVE Spec => []TypeOK
  BY Invariance, PTL DEF IInv

(* wait() covers tasks spawned by tasks, to any depth, although spawn()    *)
(* starts a task before it tracks it (task_group.h: spawn, wait).          *)
THEOREM WaitCovers == ASSUME TaskGroupAssumption PROVE Spec => []WaitCoversNestedSpawns
  BY Invariance, PTL DEF IInv

(* wait() returns normally only if no task failed, tracked or not when the *)
(* call was made (task_group.h: the catch stores the exception first).     *)
THEOREM WaitReports == ASSUME TaskGroupAssumption PROVE Spec => []WaitReportsFailure
  BY Invariance, PTL DEF IInv

(* A scope is left only when every task ever spawned into it has completed *)
(* (task_group.h: ~scoped_task_group).                                     *)
THEOREM ScopeIsLeftLast == ASSUME TaskGroupAssumption PROVE Spec => []ScopeWaits
  BY Invariance, PTL DEF IInv
=============================================================================
