--------------------------------- MODULE Vec --------------------------------
(***************************************************************************)
(* The operations of the vector of ctl (src/ctl/vec.h) on the record of    *)
(* its array value, size and capacity.  str.h is this vector with          *)
(* MUST_ALIGN_16 true, pqu.h with its operations renamed.  Indices are     *)
(* from 0.                                                                 *)
(***************************************************************************)
EXTENDS Integers, Sequences
LOCAL INSTANCE SequencesExt
LOCAL INSTANCE Quicksort

CONSTANTS MustAlign16     (* T is char: one slot more than the capacity    *)

Zero == 0
NewVec == [value |-> [i \in {} |-> Zero], size |-> 0, capacity |-> 0]

Each(v) == [i \in 1 .. v.size |-> v.value[i - 1]]
Up(i, j) == IF j < i THEN <<>> ELSE [k \in 1 .. j - i + 1 |-> i + k - 1]

-----------------------------------------------------------------------------
(* Capacity                                                                *)

(* fit: chars past the old capacity are zeroed, the terminator included.   *)
(* Other elements are not; no slot from size on is read, and Zero stands   *)
(* for what it holds.                                                      *)
Fit(v, capacity) ==
  LET overall == IF MustAlign16 THEN capacity + 1 ELSE capacity IN
  [v EXCEPT !.capacity = capacity,
            !.value = [i \in 0 .. overall - 1 |-> IF i < v.capacity THEN v.value[i] ELSE Zero]]

ReserveActual(v, capacity) ==
  IF ~MustAlign16 THEN IF capacity > v.capacity THEN capacity ELSE 0
  ELSE IF capacity <= v.size THEN v.size
  ELSE IF capacity < v.capacity THEN capacity
  ELSE IF capacity > 2 * v.capacity THEN capacity
  ELSE 2 * v.capacity

(* Only chars are ever reserved less than they have.                       *)
Reserve(v, capacity) ==
  IF capacity # v.capacity /\ ReserveActual(v, capacity) > 0
  THEN Fit(v, ReserveActual(v, capacity))
  ELSE v

-----------------------------------------------------------------------------
(* Elements                                                                *)

SetAt(v, i, x) == [v EXCEPT !.value[i] = x]

PushBack(v, x) ==
  LET u == IF v.size = v.capacity
           THEN Reserve(v, IF v.capacity = 0 THEN 1 ELSE 2 * v.capacity) ELSE v
  IN  [u EXCEPT !.value[u.size] = x, !.size = @ + 1]

PopBack(v) == [v EXCEPT !.size = @ - 1, !.value[v.size - 1] = Zero]

Wipe(v, n) == FoldLeft(LAMBDA u, i : PopBack(u), v, Up(1, n))

Resize(v, size, x) ==
  LET u == IF size > v.capacity
           THEN Reserve(v, IF size > 2 * v.size THEN size ELSE 2 * v.size) ELSE v
  IN  IF size < v.size THEN Wipe(v, v.size - size)
      ELSE FoldLeft(LAMBDA w, i : PushBack(w, x), u, Up(v.size, size - 1))

Assign(v, size, x) ==
  FoldLeft(LAMBDA u, i : SetAt(u, i, x), Resize(v, size, x), Up(0, size - 1))

(* insert: everything from index on moves up by one.                       *)
InsertBefore(v, index, x) ==
  LET u == PushBack(v, v.value[v.size - 1])
      push(w, i) == SetAt(w, i, w.value[i - 1])
  IN  IF v.size = 0 THEN PushBack(v, x)
      ELSE SetAt(FoldLeft(push, u, Reverse(Up(index + 1, u.size - 2))), index, x)

EraseAt(v, index) ==
  LET pull(u, i) == SetAt(SetAt(u, i, u.value[i + 1]), i + 1, Zero)
  IN  [FoldLeft(pull, SetAt(v, index, Zero), Up(index, v.size - 2)) EXCEPT !.size = @ - 1]

(* remove_if: after an erasure the same place is looked at again.          *)
RECURSIVE RemoveFrom(_, _, _)
RemoveFrom(v, index, x) ==
  IF index = v.size THEN v
  ELSE IF v.value[index] = x THEN RemoveFrom(EraseAt(v, index), index, x)
  ELSE RemoveFrom(v, index + 1, x)

Sort(v) ==
  LET s == Sorted(Each(v)) IN FoldLeft(LAMBDA u, i : SetAt(u, i, s[i + 1]), v, Up(0, v.size - 1))

Copy(v) == FoldLeft(PushBack, Reserve(NewVec, v.size), Each(v))
=============================================================================
