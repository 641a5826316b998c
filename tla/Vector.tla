------------------------------- MODULE Vector -------------------------------
(***************************************************************************)
(* The vector of ctl (src/ctl/vec.h) against the sequence it stands for.   *)
(***************************************************************************)
EXTENDS Vec
LOCAL INSTANCE SequencesExt
LOCAL INSTANCE Quicksort

CONSTANTS Values, MaxCapacity, MaxSize    (* the bounds of the model       *)

VARIABLES vector,        (* value, size, capacity                          *)
          elements       (* what it should contain                         *)

vars == <<vector, elements>>

Init == vector = NewVec /\ elements = <<>>

Becomes(v, s) ==
  /\ v.capacity <= MaxCapacity /\ Len(s) <= MaxSize
  /\ vector' = v /\ elements' = s

Times(n, x) == [i \in 1 .. n |-> x]

Elements ==
  \/ \E x \in Values : Becomes(PushBack(vector, x), Append(elements, x))
  \/ elements # <<>> /\ Becomes(PopBack(vector), SubSeq(elements, 1, Len(elements) - 1))
  \/ \E i \in 1 .. Len(elements) : Becomes(EraseAt(vector, i - 1), RemoveAt(elements, i))
  \/ \E i \in 1 .. Len(elements) + 1, x \in Values :
       Becomes(InsertBefore(vector, i - 1, x), InsertAt(elements, i, x))
  \/ \E x \in Values :
       Becomes(RemoveFrom(vector, 0, x), SelectSeq(elements, LAMBDA y : y # x))

Whole ==
  \/ \E n \in 0 .. MaxSize, x \in Values :
       \/ Becomes(Resize(vector, n, x), SubSeq(elements \o Times(n, x), 1, n))
       \/ Becomes(Assign(vector, n, x), Times(n, x))
  \/ Becomes(Sort(vector), InOrderOf(elements))
  \/ Becomes(NewVec, <<>>)

Capacity ==
  \/ \E n \in 0 .. MaxCapacity : Becomes(Reserve(vector, n), elements)
  \/ Becomes(Fit(vector, vector.size), elements)

ReplaceByCopy == Becomes(Copy(vector), elements)

Next == Elements \/ Whole \/ Capacity \/ ReplaceByCopy

Spec == Init /\ [][Next]_vars
-----------------------------------------------------------------------------
(* Properties                                                              *)

(* However the capacity is raised, lowered and fitted in between, the      *)
(* vector holds the sequence, within its capacity, and what it no longer   *)
(* holds has been zeroed: a string is always terminated, in the slot that  *)
(* is allocated behind its capacity.                                       *)
VectorIsSequence ==
  /\ vector.size <= vector.capacity
  /\ Each(vector) = elements
  /\ \A i \in DOMAIN vector.value : i >= vector.size => vector.value[i] = Zero
  /\ MustAlign16 /\ vector.value # NewVec.value => vector.capacity \in DOMAIN vector.value
=============================================================================
