---------------------------- MODULE PriorityQueue ---------------------------
(***************************************************************************)
(* The priority queue of ctl (src/ctl/pqu.h): a binary heap in a vector.   *)
(* compare(x, y) is x < y: the least element is to be on top.              *)
(***************************************************************************)
EXTENDS Vec, FiniteSets
LOCAL INSTANCE SequencesExt

CONSTANTS Values, MaxSize    (* bound                                      *)

VARIABLES queue,     (* the vector                                         *)
          history    (* held[x]: how often it should contain x;            *)
                     (* phase: "filled" since it last had at most one      *)
                     (* element, then "emptied" from, then "mixed" use     *)

vars == <<queue, history>>

Swap(v, i, j) == [v EXCEPT !.value[i] = v.value[j], !.value[j] = v.value[i]]

RECURSIVE SiftUp(_, _)
SiftUp(v, n) ==
  LET p == (n - 1) \div 2 IN
  IF n > 0 /\ v.value[n] < v.value[p] THEN SiftUp(Swap(v, n, p), p) ELSE v

(* down: a node that has a left child only is left where it is, unless it  *)
(* is the root of two.                                                     *)
RECURSIVE SiftDown(_, _)
SiftDown(v, n) ==
  LET l == 2 * n + 1
      r == 2 * n + 2
      index == IF v.value[r] < v.value[l] THEN r ELSE l
  IN  IF v.size = 2 THEN IF v.value[0] < v.value[1] THEN v ELSE Swap(v, 0, 1)
      ELSE IF r < v.size /\ v.value[index] < v.value[n]
           THEN SiftDown(Swap(v, index, n), index)
      ELSE v

-----------------------------------------------------------------------------
Init == queue = NewVec /\ history = [held |-> [x \in Values |-> 0], phase |-> "filled"]

Enqueue(x) ==
  /\ queue.size < MaxSize
  /\ queue' = SiftUp(PushBack(queue, x), queue.size)
  /\ history' = [history EXCEPT !.held[x] = @ + 1,
                                !.phase = IF @ = "emptied" THEN "mixed" ELSE @]

Dequeue ==
  /\ queue.size > 0
  /\ queue' = SiftDown(PopBack(Swap(queue, 0, queue.size - 1)), 0)
  /\ history' = [history EXCEPT !.held[queue.value[0]] = @ - 1,
                                !.phase = IF queue.size <= 2 THEN "filled"
                                          ELSE IF @ = "filled" THEN "emptied" ELSE @]

Next == Dequeue \/ \E x \in Values : Enqueue(x)

Spec == Init /\ [][Next]_vars
-----------------------------------------------------------------------------
(* Properties                                                              *)

(* Nothing is lost or invented, and, from when it last had at most one     *)
(* element, the queue has the least element on top as long as it has only  *)
(* been filled and then emptied.  (When pushes follow pops it need not: a  *)
(* node that only has a left child is not repaired, pqu.h:81, and the next *)
(* push gives it a right child.)                                           *)
PriorityQueueOrders ==
  /\ \A x \in Values : Cardinality({i \in 1 .. queue.size : Each(queue)[i] = x}) = history.held[x]
  /\ history.phase # "mixed" => \A i \in 0 .. queue.size - 1 : queue.value[0] <= queue.value[i]
=============================================================================
