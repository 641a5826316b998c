-------------------------------- MODULE Deque -------------------------------
(***************************************************************************)
(* The double ended queue of ctl (src/ctl/deq.h; que.h and stk.h rename    *)
(* its operations): pages of a fixed size in an array of page pointers,    *)
(* against the sequence it stands for.                                     *)
(*                                                                         *)
(* A page is the record of a, b (its elements are in slots a to b - 1) and *)
(* value; NoPage is a pointer that was freed or never set.  Indices are    *)
(* from 0, as in the code.                                                 *)
(***************************************************************************)
EXTENDS Integers, FiniteSets, Sequences
LOCAL INSTANCE SequencesExt
LOCAL INSTANCE Quicksort

CONSTANTS Values,        (* a set of positive numbers                      *)
          BucketSize,    (* DEQ_BUCKET_SIZE, 512 in the code               *)
          MaxCapacity,   (* bound: pages                                   *)
          MaxSize        (* bound: elements                                *)

VARIABLES deque,         (* pages, mark_a, mark_b, capacity and size       *)
          elements       (* what it should contain                         *)

vars == <<deque, elements>>

NoPage == [a |-> 0, b |-> 0, value |-> <<>>]

(* Slots outside a to b - 1 are never read: 0 stands for what they hold.   *)
NewPage(cut) == [a |-> cut, b |-> cut, value |-> [r \in 0 .. BucketSize - 1 |-> 0]]

NewDeque ==
  [pages |-> [i \in {} |-> NoPage], mark_a |-> 0, mark_b |-> 0, capacity |-> 0, size |-> 0]

FirstPage(d) == d.pages[d.mark_a]
LastPage(d) == d.pages[d.mark_b - 1]

(* at: the position is counted from the first slot of the first page.      *)
Page(d, i) == d.mark_a + (i + FirstPage(d).a) \div BucketSize
Slot(d, i) == (i + FirstPage(d).a) % BucketSize
At(d, i) == d.pages[Page(d, i)].value[Slot(d, i)]
SetAt(d, i, v) == [d EXCEPT !.pages[Page(d, i)].value[Slot(d, i)] = v]

(* foreach                                                                 *)
Each(d) == [i \in 1 .. d.size |-> At(d, i - 1)]

-----------------------------------------------------------------------------
(* Both ends                                                               *)

(* alloc: a longer array, the pages moved towards its middle.              *)
Alloc(d, capacity, shiftFrom) ==
  LET shift == (capacity - shiftFrom) \div 2 IN
  [d EXCEPT !.capacity = capacity, !.mark_a = @ + shift, !.mark_b = @ + shift,
            !.pages = [i \in 0 .. capacity - 1 |->
               IF i \in shift .. shift + d.mark_b - 1 THEN d.pages[i - shift] ELSE NoPage]]

(* The first page of an empty deque, in an array of one pointer.           *)
OnePage(cut) == [NewDeque EXCEPT !.mark_b = 1, !.capacity = 1, !.pages = [i \in {0} |-> NewPage(cut)]]

RoomInFront(d) ==
  LET u == IF d.mark_a = 0 THEN Alloc(d, 2 * d.capacity, d.mark_a) ELSE d IN
  IF d.size = 0 THEN OnePage(BucketSize)
  ELSE IF FirstPage(d).a = 0
       THEN [u EXCEPT !.mark_a = @ - 1, !.pages[u.mark_a - 1] = NewPage(BucketSize)]
  ELSE d

RoomBehind(d) ==
  LET u == IF d.mark_b = d.capacity THEN Alloc(d, 2 * d.capacity, d.mark_b) ELSE d IN
  IF d.size = 0 THEN OnePage(0)
  ELSE IF LastPage(d).b = BucketSize
       THEN [u EXCEPT !.mark_b = @ + 1, !.pages[u.mark_b] = NewPage(0)]
  ELSE d

PushFront(d, v) ==
  LET u == RoomInFront(d)
      a == FirstPage(u).a - 1
  IN  [u EXCEPT !.pages[u.mark_a].a = a, !.pages[u.mark_a].value[a] = v, !.size = @ + 1]

PushBack(d, v) ==
  LET u == RoomBehind(d)
      b == LastPage(u).b
  IN  [u EXCEPT !.pages[u.mark_b - 1].b = b + 1, !.pages[u.mark_b - 1].value[b] = v,
                !.size = @ + 1]

PopFront(d) ==
  LET a == FirstPage(d).a IN
  IF a + 1 = FirstPage(d).b
  THEN [d EXCEPT !.pages[d.mark_a] = NoPage, !.mark_a = @ + 1, !.size = @ - 1]
  ELSE [d EXCEPT !.pages[d.mark_a].a = a + 1, !.pages[d.mark_a].value[a] = 0, !.size = @ - 1]

PopBack(d) ==
  LET b == LastPage(d).b - 1 IN
  IF b = LastPage(d).a
  THEN [d EXCEPT !.pages[d.mark_b - 1] = NoPage, !.mark_b = @ - 1, !.size = @ - 1]
  ELSE [d EXCEPT !.pages[d.mark_b - 1].b = b, !.pages[d.mark_b - 1].value[b] = 0, !.size = @ - 1]

-----------------------------------------------------------------------------
(* The middle: the shorter side moves over.                                *)

Pull(d, i) == SetAt(d, i, At(d, i + 1))
Push(d, i) == SetAt(d, i, At(d, i - 1))
Up(i, j) == [k \in 1 .. j - i + 1 |-> i + k - 1]

EraseAt(d, index) ==
  IF index < d.size \div 2
  THEN PopFront(FoldLeft(Push, d, Reverse(Up(1, index))))
  ELSE PopBack(FoldLeft(Pull, d, Up(index, d.size - 2)))

InsertBefore(d, index, v) ==
  LET pulled == FoldLeft(Pull, PushFront(d, At(d, 0)), Up(0, index - 1))
      pushed == FoldLeft(Push, PushBack(d, At(d, d.size - 1)), Reverse(Up(index + 1, d.size)))
  IN  IF d.size = 0 THEN PushBack(d, v)
      ELSE SetAt(IF index < d.size \div 2 THEN pulled ELSE pushed, index, v)

RECURSIVE Resized(_, _, _)
Resized(d, size, v) ==
  IF d.size = size THEN d
  ELSE Resized(IF size < d.size THEN PopBack(d) ELSE PushBack(d, v), size, v)

Assigned(d, size, v) ==
  FoldLeft(LAMBDA e, i : SetAt(e, i, v), Resized(d, size, v), Up(0, size - 1))

Copy(d) == FoldLeft(PushBack, NewDeque, Each(d))

SortedDeque(d) ==
  LET s == Sorted(Each(d)) IN
  FoldLeft(LAMBDA e, i : SetAt(e, i, s[i + 1]), d, Up(0, d.size - 1))

(* remove_if: after an erasure the same index is looked at again.          *)
RECURSIVE RemoveFrom(_, _, _)
RemoveFrom(d, index, v) ==
  IF index = d.size THEN d
  ELSE IF At(d, index) = v THEN RemoveFrom(EraseAt(d, index), index, v)
  ELSE RemoveFrom(d, index + 1, v)

-----------------------------------------------------------------------------
Init == deque = NewDeque /\ elements = <<>>

Becomes(d, s) ==
  /\ d.capacity <= MaxCapacity /\ d.size <= MaxSize
  /\ deque' = d /\ elements' = s

Times(n, v) == [i \in 1 .. n |-> v]

Ends ==
  \/ \E v \in Values : Becomes(PushFront(deque, v), <<v>> \o elements)
  \/ \E v \in Values : Becomes(PushBack(deque, v), Append(elements, v))
  \/ deque.size > 0 /\ Becomes(PopFront(deque), Tail(elements))
  \/ deque.size > 0 /\ Becomes(PopBack(deque), SubSeq(elements, 1, Len(elements) - 1))

Middle ==
  \/ \E i \in 0 .. deque.size - 1 : Becomes(EraseAt(deque, i), RemoveAt(elements, i + 1))
  \/ \E i \in 0 .. deque.size, v \in Values :
       Becomes(InsertBefore(deque, i, v), InsertAt(elements, i + 1, v))
  \/ \E v \in Values :
       Becomes(RemoveFrom(deque, 0, v), SelectSeq(elements, LAMBDA x : x # v))

Whole ==
  \/ \E n \in 0 .. MaxSize, v \in Values :
       Becomes(Resized(deque, n, v),
               SubSeq(elements \o Times(n, v), 1, n))
  \/ \E n \in 0 .. MaxSize, v \in Values : Becomes(Assigned(deque, n, v), Times(n, v))
  \/ Becomes(Copy(deque), elements)
  \/ Becomes(SortedDeque(deque), InOrderOf(elements))
  \/ Becomes(NewDeque, <<>>)

Next == Ends \/ Middle \/ Whole

Spec == Init /\ [][Next]_vars
-----------------------------------------------------------------------------
(* Properties                                                              *)

(* Through every growth of the array of pages, at either end, and every    *)
(* shift of the shorter side, the elements are where at() computes them to *)
(* be: all pages but the first and the last are full, the first is full to *)
(* its end and the last from its beginning, and no page is lost.           *)
DequeIsSequence ==
  LET used == deque.mark_a .. deque.mark_b - 1
      count(i) == deque.pages[i].b - deque.pages[i].a
      full(i) == count(i) = BucketSize
  IN  /\ deque.size = Len(elements)
      /\ deque.size > 0 =>
           /\ deque.mark_a < deque.mark_b /\ deque.mark_b <= deque.capacity
           /\ {i \in DOMAIN deque.pages : deque.pages[i] # NoPage} = used
           /\ \A i \in used :
                /\ count(i) > 0
                /\ i > deque.mark_a => deque.pages[i].a = 0
                /\ i < deque.mark_b - 1 => deque.pages[i].b = BucketSize
                /\ i \in deque.mark_a + 1 .. deque.mark_b - 2 => full(i)
           /\ Each(deque) = elements
=============================================================================
