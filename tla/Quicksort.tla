------------------------------ MODULE Quicksort -----------------------------
(***************************************************************************)
(* ranged_sort, written out alike in src/ctl/vec.h and src/ctl/deq.h, on   *)
(* the sequence of a container's elements.  Indices are from 1.            *)
(***************************************************************************)
EXTENDS Integers, Sequences
LOCAL INSTANCE SequencesExt

Swapped(s, i, j) == [s EXCEPT ![i] = s[j], ![j] = s[i]]

(* compare(x, y) is x > y in every caller: an ascending sort.  The element *)
(* of the middle goes to a, the smaller ones behind it, then it goes to z. *)
RECURSIVE RangedSort(_, _, _)
RangedSort(s, a, b) ==
  LET step(acc, i) ==
        IF acc.s[a] > acc.s[i]
        THEN [s |-> Swapped(acc.s, acc.z + 1, i), z |-> acc.z + 1]
        ELSE acc
      mid == (a - 1 + b - 1) \div 2 + 1
      end == FoldLeft(step, [s |-> Swapped(s, a, mid), z |-> a], [i \in 1 .. b - a |-> a + i])
      z == end.z
  IN  IF a >= b THEN s
      ELSE RangedSort(RangedSort(Swapped(end.s, a, z), a, z - 1), z + 1, b)

Sorted(s) == RangedSort(s, 1, Len(s))

-----------------------------------------------------------------------------
(* What a sort should give: the i-th element has fewer than i before it    *)
(* and at least i up to it.                                                *)
Smaller(s, x) == Len(SelectSeq(s, LAMBDA y : y < x))
NotGreater(s, x) == Len(SelectSeq(s, LAMBDA y : y <= x))
InOrderOf(s) ==
  [i \in DOMAIN s |-> CHOOSE x \in {s[j] : j \in DOMAIN s} : Smaller(s, x) < i /\ i <= NotGreater(s, x)]
=============================================================================
