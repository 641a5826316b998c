---------------------------- MODULE WhenAllProofs ----------------------------
(***************************************************************************)
(* What holds of calls of when_all and when_all_void for any number of     *)
(* calls, children and workers.  The counter is the number of children     *)
(* that have stored their outcome, so a caller that finds it at the total  *)
(* finds all outcomes.  In when_all it cannot move while the caller holds  *)
(* the mutex, which when_all_void gives up.                                *)
(***************************************************************************)
EXTENDS WhenAll, FiniteSetTheorems, TLAPS

(* Each variable is a function on the calls.                               *)
Total ==
  /\ DOMAIN launched = Calls /\ DOMAIN child = Calls /\ DOMAIN own = Calls
  /\ DOMAIN completed = Calls /\ DOMAIN exception = Calls

Stored(c) == {i \in Children(c) : child[c][i] \in {"notify", "done"}}

(* The counter counts the children that have stored their outcome          *)
(* (when_all.h: completed, completed_count).                               *)
Counted == \A c \in Calls : completed[c] = Cardinality(Stored(c))

(* Only children of when_all_void advance the counter without the mutex,   *)
(* so between the second is_done() of when_all and its wait some child has *)
(* still to store its outcome.                                             *)
Guarded ==
  \A c \in Calls \ Void :
    /\ \A i \in Children(c) : child[c][i] # "counting"
    /\ parent[c] = "holding" => Stored(c) # Children(c)

(* Children are started in order.                                          *)
InOrder == \A c \in Calls : \A i \in Children(c) : launched[c] < i => child[c][i] = "new"

(* The inductive invariant.                                                *)
IInv == TypeOK /\ Total /\ InOrder /\ Counted /\ Guarded /\ ReturnsAfterAll /\ WakeupPending

-----------------------------------------------------------------------------
(* The children that have stored are finitely many, at most N[c], and all  *)
(* of them when they are N[c].                                             *)
LEMMA StoredSize ==
  ASSUME WhenAllAssumption, NEW c \in Calls, Counted
  PROVE  /\ IsFiniteSet(Stored(c)) /\ completed[c] \in 0 .. N[c]
         /\ completed[c] = N[c] <=> Stored(c) = Children(c)
<1>1. N[c] \in Nat /\ IsFiniteSet(Children(c)) /\ Cardinality(Children(c)) = N[c]
  BY FS_Interval DEF WhenAllAssumption, Children
<1>2. Stored(c) \subseteq Children(c)
  BY DEF Stored
<1>3. /\ IsFiniteSet(Stored(c)) /\ Cardinality(Stored(c)) <= N[c]
      /\ Cardinality(Stored(c)) = N[c] => Stored(c) = Children(c)
  BY <1>1, <1>2, FS_Subset
<1>4. Cardinality(Stored(c)) \in Nat
  BY <1>3, FS_CardinalityType
<1> QED
  BY <1>1, <1>3, <1>4 DEF Counted

(* A child that has not stored its outcome may be on its way, as may one   *)
(* that has: what a step of child i of call c may do to the others.        *)
OnlyChild(c, i) ==
  \A d \in Calls : \A j \in Children(d) : <<d, j>> # <<c, i>> => child'[d][j] = child[d][j]

LEMMA MoveOne ==
  ASSUME WhenAllAssumption, TypeOK, Total, NEW c \in Calls, NEW i \in Children(c),
         NEW s \in ChildStates, MoveChild(c, i, s)
  PROVE  /\ DOMAIN child' = Calls /\ OnlyChild(c, i) /\ child'[c][i] = s
         /\ \A d \in Calls : child'[d] \in [Children(d) -> ChildStates]
  BY DEF WhenAllAssumption, TypeOK, Total, MoveChild, OnlyChild

(* No call has started.                                                    *)
LEMMA InitIInv == ASSUME WhenAllAssumption PROVE Init => IInv
<1> SUFFICES ASSUME Init PROVE IInv
  OBVIOUS
<1> USE DEF Init
<1>1. Total
  BY DEF Total
<1>2. ASSUME NEW c \in Calls
      PROVE  /\ N[c] \in Nat /\ 0 \in 0 .. N[c]
             /\ child[c] \in [Children(c) -> ChildStates] /\ Stored(c) = {}
  BY DEF WhenAllAssumption, Stored, ChildStates
<1>3. TypeOK
  BY <1>2 DEF TypeOK, ParentStates
<1>4. Counted
  BY <1>2, FS_EmptySet DEF Counted
<1>5. InOrder /\ Guarded /\ ReturnsAfterAll /\ WakeupPending
  BY DEF InOrder, Guarded, ReturnsAfterAll, WakeupPending
<1> QED
  BY <1>1, <1>3, <1>4, <1>5 DEF IInv

-----------------------------------------------------------------------------
(* The steps, by what they do to the children: nothing (the caller's own), *)
(* a move before the outcome is stored, the storing, and the notification. *)
CallerStep(c) ==
  \/ Begin(c) \/ AllLaunched(c) \/ LoopDone(c) \/ LoopLock(c) \/ Recheck(c)
  \/ Sleep(c) \/ SpuriousWake(c) \/ WakeUp(c)
Before(c, i) ==
  \/ Launch(c) /\ i = launched[c] + 1
  \/ ChildSuspends(c, i) \/ ChildResumes(c, i) \/ ChildEnds(c, i) \/ StoreException(c, i)
Stores(c, i) == SetLocked(c, i) \/ Count(c, i)

LEMMA Classes ==
  ASSUME WhenAllAssumption, TypeOK, [Next]_vars
  PROVE  \/ \E c \in Calls :
              CallerStep(c) \/ \E i \in Children(c) :
                                 Before(c, i) \/ Stores(c, i) \/ NotifyAll(c, i)
         \/ UNCHANGED vars
<1>1. ASSUME NEW c \in Calls, Launch(c) PROVE launched[c] + 1 \in Children(c)
  BY <1>1 DEF Launch, TypeOK, WhenAllAssumption, Children
<1> QED
  BY <1>1 DEF Next, ParentStep, ChildStep, ChildLocks, Terminating, CallerStep, Before, Stores

(* The caller's own steps leave everything but its own place alone.        *)
LEMMA CallerEffect ==
  ASSUME TypeOK, Total, NEW c \in Calls, CallerStep(c)
  PROVE  /\ UNCHANGED <<launched, child, own, completed, exception>>
         /\ parent' \in [Calls -> ParentStates]
         /\ \A d \in Calls : d # c => parent'[d] = parent[d]
         /\ parent'[c] = "returned" => completed[c] >= N[c]
         /\ parent'[c] = "holding" => completed[c] < N[c]
         /\ parent'[c] = "asleep" => parent[c] = "holding"
  BY DEF CallerStep, Begin, AllLaunched, LoopDone, LoopLock, Recheck, Sleep, SpuriousWake,
         WakeUp, MoveParent, TypeOK, ParentStates

(* A child on its way neither stores nor wakes.                            *)
LEMMA BeforeEffect ==
  ASSUME WhenAllAssumption, TypeOK, Total, InOrder,
         NEW c \in Calls, NEW i \in Children(c), Before(c, i)
  PROVE  /\ UNCHANGED <<parent, completed>>
         /\ \E s \in ChildStates \ {"notify", "done"} :
              MoveChild(c, i, s) /\ (s = "counting" => c \in Void)
         /\ child[c][i] \notin {"notify", "done"}
         /\ i <= launched'[c]
         /\ DOMAIN launched' = Calls /\ DOMAIN own' = Calls /\ DOMAIN exception' = Calls
         /\ \A d \in Calls : /\ launched'[d] \in 0 .. N[d] /\ launched[d] <= launched'[d]
                            /\ own'[d] \in SUBSET Children(d)
                            /\ exception'[d] \in 0 .. N[d]
<1> USE DEF WhenAllAssumption, TypeOK, Total, ChildStates, Ending
<1>1. /\ \A d \in Calls : N[d] \in Nat /\ launched[d] \in Nat
      /\ i \in 1 .. N[c] /\ (child[c][i] # "new" => i <= launched[c])
  BY DEF InOrder, Children
<1>2. CASE Launch(c) /\ i = launched[c] + 1
  <2>1. launched[c] + 1 \in 0 .. N[c] /\ child[c][i] = "new"
    BY <1>1, <1>2
  <2>2. launched'[c] = i /\ \A d \in Calls \ {c} : launched'[d] = launched[d]
    BY <1>2 DEF Launch
  <2>3. \A d \in Calls : launched'[d] \in 0 .. N[d] /\ launched[d] <= launched'[d]
    BY <1>1, <1>2, <2>1, <2>2
  <2> QED
    BY <1>1, <1>2, <2>1, <2>2, <2>3 DEF Launch
<1>3. ASSUME UNCHANGED launched, child[c][i] # "new"
      PROVE  /\ DOMAIN launched' = Calls /\ i <= launched'[c]
             /\ \A d \in Calls : launched'[d] \in 0 .. N[d] /\ launched[d] <= launched'[d]
  BY <1>1, <1>3
<1>4. CASE ChildSuspends(c, i)
  BY <1>3, <1>4 DEF ChildSuspends
<1>5. CASE ChildResumes(c, i)
  BY <1>3, <1>5 DEF ChildResumes
<1>6. CASE ChildEnds(c, i)
  BY <1>3, <1>6 DEF ChildEnds
<1>7. CASE StoreException(c, i)
  <2>1. /\ UNCHANGED <<parent, completed, launched, own>> /\ c \in Void
        /\ MoveChild(c, i, "counting") /\ child[c][i] \in {"ok", "failed"}
    BY <1>7 DEF StoreException
  <2>2. DOMAIN exception' = Calls /\ \A d \in Calls : exception'[d] \in 0 .. N[d]
    BY <1>1, <1>7 DEF StoreException, KeepFirst
  <2> QED
    BY <1>3, <2>1, <2>2
<1> QED
  BY <1>2, <1>4, <1>5, <1>6, <1>7 DEF Before

(* A child stores its outcome and counts itself in one step, in when_all   *)
(* not while the caller is on its way to sleep.                            *)
LEMMA StoresEffect ==
  ASSUME WhenAllAssumption, TypeOK, Total, Guarded,
         NEW c \in Calls, NEW i \in Children(c), Stores(c, i)
  PROVE  /\ UNCHANGED <<parent, launched, own>>
         /\ MoveChild(c, i, "notify") /\ child[c][i] \in {"ok", "failed", "counting"}
         /\ completed' = [completed EXCEPT ![c] = @ + 1]
         /\ c \notin Void => parent[c] # "holding"
         /\ DOMAIN exception' = Calls
         /\ \A d \in Calls : exception'[d] \in 0 .. N[d]
<1> USE DEF TypeOK, Total
<1>1. CASE SetLocked(c, i)
  <2>1. i \in 0 .. N[c]
    BY DEF Children, WhenAllAssumption
  <2>2. DOMAIN exception' = Calls /\ \A d \in Calls : exception'[d] \in 0 .. N[d]
    BY <1>1, <2>1 DEF SetLocked, KeepFirst
  <2> QED
    BY <1>1, <2>2 DEF SetLocked
<1>2. CASE Count(c, i)
  BY <1>2 DEF Count, Guarded
<1> QED
  BY <1>1, <1>2 DEF Stores

-----------------------------------------------------------------------------
(* The caller's own steps keep the invariant.                              *)
LEMMA CallerKeeps ==
  ASSUME WhenAllAssumption, IInv, NEW c \in Calls, CallerStep(c) PROVE IInv'
<1> USE DEF IInv
<1>1. \A d \in Calls : Stored(d)' = Stored(d)
  BY CallerEffect DEF Stored
<1>2. TypeOK' /\ Total'
  BY CallerEffect DEF TypeOK, Total
<1>3. Counted'
  BY CallerEffect, <1>1 DEF Counted
<1>4. N[c] \in Nat /\ completed[c] \in 0 .. N[c] /\ (completed[c] = N[c] <=> Stored(c) = Children(c))
  BY StoredSize DEF WhenAllAssumption
<1>5. Guarded'
  BY CallerEffect, <1>1, <1>4 DEF Guarded
<1>6. ReturnsAfterAll'
  <2>1. parent'[c] = "returned" => Stored(c) = Children(c)
    BY CallerEffect, <1>4
  <2> QED
    BY CallerEffect, <2>1 DEF ReturnsAfterAll, Stored
<1>7. InOrder'
  BY CallerEffect DEF InOrder
<1>8. WakeupPending'
  <2>1. ASSUME c \notin Void, parent'[c] \in {"holding", "asleep"}
        PROVE  Stored(c) # Children(c)
    BY CallerEffect, <1>4, <2>1 DEF Guarded
  <2>2. ASSUME c \notin Void, parent'[c] \in {"holding", "asleep"}
        PROVE  \E i \in Children(c) : child[c][i] # "done"
    BY <2>1, <2>2 DEF Stored
  <2> QED
    BY CallerEffect, <2>2 DEF WakeupPending
<1> QED
  BY <1>2, <1>3, <1>5, <1>6, <1>7, <1>8

(* So do a child's steps before it stores its outcome ...                  *)
LEMMA BeforeKeeps ==
  ASSUME WhenAllAssumption, IInv, NEW c \in Calls, NEW i \in Children(c), Before(c, i)
  PROVE  IInv'
<1> USE DEF IInv
<1>1. PICK s \in ChildStates \ {"notify", "done"} :
        MoveChild(c, i, s) /\ (s = "counting" => c \in Void)
  BY BeforeEffect
<1>2. /\ DOMAIN child' = Calls /\ OnlyChild(c, i) /\ child'[c][i] = s
      /\ \A d \in Calls : child'[d] \in [Children(d) -> ChildStates]
  BY <1>1, MoveOne
<1>3. \A d \in Calls : Stored(d)' = Stored(d)
  BY <1>1, <1>2, BeforeEffect DEF Stored, OnlyChild
<1>4. TypeOK' /\ Total'
  BY <1>2, BeforeEffect DEF TypeOK, Total
<1>5. Counted'
  BY <1>3, BeforeEffect DEF Counted
<1>6. Guarded'
  BY <1>1, <1>2, <1>3, BeforeEffect DEF Guarded, OnlyChild
<1>7. ReturnsAfterAll'
  BY <1>2, BeforeEffect DEF ReturnsAfterAll, OnlyChild
<1>8. WakeupPending'
  BY <1>1, <1>2, BeforeEffect DEF WakeupPending, OnlyChild
<1>9. InOrder'
  <2>1. ASSUME NEW d \in Calls, NEW j \in Children(d), launched'[d] < j
        PROVE  child'[d][j] = "new"
    <3>1. /\ j \in Nat /\ launched[d] \in Nat /\ launched'[d] \in Nat
          /\ launched[d] <= launched'[d]
      BY BeforeEffect DEF TypeOK, WhenAllAssumption, Children
    <3>2. launched[d] < j
      BY <2>1, <3>1
    <3>3. <<d, j>> # <<c, i>>
      BY <2>1, <3>1, BeforeEffect
    <3> QED
      BY <1>2, <3>2, <3>3 DEF InOrder, OnlyChild
  <2> QED
    BY <2>1 DEF InOrder
<1> QED
  BY <1>4, <1>5, <1>6, <1>7, <1>8, <1>9

(* ... the storing itself ...                                              *)
LEMMA StoresKeeps ==
  ASSUME WhenAllAssumption, IInv, NEW c \in Calls, NEW i \in Children(c), Stores(c, i)
  PROVE  IInv'
<1> USE DEF IInv
<1>1. /\ DOMAIN child' = Calls /\ OnlyChild(c, i) /\ child'[c][i] = "notify"
      /\ \A d \in Calls : child'[d] \in [Children(d) -> ChildStates]
  BY StoresEffect, MoveOne DEF ChildStates, Ending
<1>2. Stored(c)' = Stored(c) \cup {i} /\ i \notin Stored(c)
  BY <1>1, StoresEffect DEF Stored, OnlyChild
<1>3. \A d \in Calls \ {c} : Stored(d)' = Stored(d)
  BY <1>1 DEF Stored, OnlyChild
<1>4. IsFiniteSet(Stored(c)) /\ completed[c] \in 0 .. N[c] /\ completed[c] # N[c] /\ N[c] \in Nat
  BY <1>2, StoredSize DEF WhenAllAssumption
<1>5. Cardinality(Stored(c)') = completed[c] + 1
  BY <1>2, <1>4, FS_AddElement DEF Counted
<1>6. /\ DOMAIN completed' = Calls /\ completed'[c] = completed[c] + 1
      /\ \A d \in Calls \ {c} : completed'[d] = completed[d]
  BY StoresEffect DEF Total
<1>7. TypeOK' /\ Total'
  <2>1. completed'[c] \in 0 .. N[c]
    BY <1>4, <1>6
  <2>2. \A d \in Calls : completed'[d] \in 0 .. N[d]
    BY <1>6, <2>1 DEF TypeOK
  <2> QED
    BY <1>1, <1>6, <2>2, StoresEffect DEF TypeOK, Total
<1>8. Counted'
  BY <1>3, <1>5, <1>6 DEF Counted
<1>9. Guarded'
  BY <1>1, <1>3, StoresEffect DEF Guarded, OnlyChild
<1>10. ReturnsAfterAll'
  BY <1>1, StoresEffect DEF ReturnsAfterAll, OnlyChild
<1>11. WakeupPending'
  BY <1>1, StoresEffect DEF WakeupPending, OnlyChild
<1>12. InOrder'
  BY <1>1, StoresEffect DEF InOrder, OnlyChild
<1> QED
  BY <1>7, <1>8, <1>9, <1>10, <1>11, <1>12

(* ... and the notification, which leaves no sleeper behind.               *)
LEMMA NotifyKeeps ==
  ASSUME WhenAllAssumption, IInv, NEW c \in Calls, NEW i \in Children(c), NotifyAll(c, i)
  PROVE  IInv'
<1> USE DEF IInv
<1>1. /\ DOMAIN child' = Calls /\ OnlyChild(c, i) /\ child'[c][i] = "done"
      /\ \A d \in Calls : child'[d] \in [Children(d) -> ChildStates]
  BY MoveOne DEF NotifyAll, ChildStates
<1>2. child[c][i] = "notify" /\ UNCHANGED <<launched, own, completed, exception>>
  BY DEF NotifyAll
<1>3. \A d \in Calls : Stored(d)' = Stored(d)
  BY <1>1, <1>2 DEF Stored, OnlyChild
<1>4. /\ parent' \in [Calls -> ParentStates]
      /\ parent'[c] = IF parent[c] = "asleep" THEN "awake" ELSE parent[c]
      /\ \A d \in Calls \ {c} : parent'[d] = parent[d]
  BY DEF NotifyAll, TypeOK, ParentStates
<1>5. TypeOK' /\ Total'
  BY <1>1, <1>2, <1>4 DEF TypeOK, Total
<1>6. Counted'
  BY <1>2, <1>3 DEF Counted
<1>7. Guarded'
  BY <1>1, <1>3, <1>4 DEF Guarded, OnlyChild
<1>8. ReturnsAfterAll'
  BY <1>1, <1>4 DEF ReturnsAfterAll, OnlyChild
<1>9. WakeupPending'
  <2>1. ASSUME c \notin Void, parent[c] = "holding"
        PROVE  \E j \in Children(c) : child'[c][j] # "done"
    BY <1>1, <1>2, <2>1 DEF Guarded, Stored, OnlyChild
  <2> QED
    BY <1>1, <1>4, <2>1 DEF WakeupPending, OnlyChild
<1>10. InOrder'
  BY <1>1, <1>2 DEF InOrder, OnlyChild
<1> QED
  BY <1>5, <1>6, <1>7, <1>8, <1>9, <1>10

(* The inductive invariant holds throughout.                               *)
LEMMA Invariance == ASSUME WhenAllAssumption PROVE Spec => []IInv
<1>1. IInv /\ UNCHANGED vars => IInv'
  BY DEF IInv, TypeOK, Total, InOrder, Counted, Stored, Guarded, ReturnsAfterAll, WakeupPending, vars
<1>2. IInv /\ [Next]_vars => IInv'
  BY <1>1, Classes, CallerKeeps, BeforeKeeps, StoresKeeps, NotifyKeeps DEF IInv
<1> QED
  BY InitIInv, <1>2, PTL DEF Spec

(* The variables keep their types.                                         *)
THEOREM TypeCorrect == ASSUME WhenAllAssumption PROVE Spec => []TypeOK
  BY Invariance, PTL DEF IInv

(* A call returns only when every child has stored its outcome             *)
(* (when_all.h: is_done(), the results read after the loop).               *)
THEOREM Returns == ASSUME WhenAllAssumption PROVE Spec => []ReturnsAfterAll
  BY Invariance, PTL DEF IInv

(* The counter is the number of outcomes stored: no child is counted twice *)
(* or lost, inside the mutex or outside it (when_all.h: completed,         *)
(* completed_count).                                                       *)
THEOREM Counter == ASSUME WhenAllAssumption PROVE Spec => []Counted
  BY Invariance, PTL DEF IInv

(* A caller of when_all that sleeps, or holds the mutex on its way there,  *)
(* has a child left that will notify it (when_all.h: set_result under the  *)
(* mutex, the second is_done()).                                           *)
THEOREM Wakeup == ASSUME WhenAllAssumption PROVE Spec => []WakeupPending
  BY Invariance, PTL DEF IInv
=============================================================================
