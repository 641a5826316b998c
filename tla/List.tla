--------------------------------- MODULE List -------------------------------
(***************************************************************************)
(* The doubly linked list of ctl (src/ctl/lst.h), against the sequence it  *)
(* stands for.                                                             *)
(*                                                                         *)
(* Nodes are numbers, the null pointer is 0; heap.prev, next and value are *)
(* their fields and a free node has value 0.  heap.of[w] is the header     *)
(* (head, tail, size) of list w: the list itself, the other operand of     *)
(* splice and merge, and the carry and temp[0 ..] of sort.  Following a    *)
(* null pointer is an application outside a function's domain.             *)
(***************************************************************************)
EXTENDS Integers, Sequences
LOCAL INSTANCE SequencesExt

CONSTANTS Values,      (* a set of positive numbers                        *)
          Rank,        (* Rank[v]: what compare and equal look at          *)
          Others,      (* other operands: some sequences of Values         *)
          MaxNodes,    (* bound                                            *)
          MaxSize      (* bound                                            *)

VARIABLES heap, elements
vars == <<heap, elements>>

Null == 0
Nodes == 1 .. MaxNodes

Self == 0
Other == 1
Carry == 2
Temp == 3              (* temp[i] is list Temp + i                         *)
Lists == Self .. Temp + 3

Init ==
  /\ heap = [prev |-> [n \in Nodes |-> Null], next |-> [n \in Nodes |-> Null],
             value |-> [n \in Nodes |-> 0],
             of |-> [w \in Lists |-> [head |-> Null, tail |-> Null, size |-> 0]]]
  /\ elements = <<>>

HeadOf(l, w) == l.of[w].head
TailOf(l, w) == l.of[w].tail
Empty(l, w) == l.of[w].size = 0
Swap(l, w, o) == [l EXCEPT !.of[w] = l.of[o], !.of[o] = l.of[w]]
NextSet(l, n, m) == IF n = Null THEN l ELSE [l EXCEPT !.next[n] = m]
PrevSet(l, n, m) == IF n = Null THEN l ELSE [l EXCEPT !.prev[n] = m]

(* foreach: the values from node n on.                                     *)
RECURSIVE From(_, _)
From(l, n) == IF n = Null THEN <<>> ELSE <<n>> \o From(l, l.next[n])
Each(l, w) == IF Empty(l, w) THEN <<>> ELSE From(l, HeadOf(l, w))

-----------------------------------------------------------------------------
(* Links                                                                   *)

Disconnect(l, w, n) ==
  LET p == l.prev[n]
      x == l.next[n]
      u == PrevSet(NextSet(l, p, x), x, p)
  IN  [u EXCEPT !.prev[n] = Null, !.next[n] = Null,
                !.of[w] = [head |-> IF n = @.head THEN x ELSE @.head,
                           tail |-> IF n = @.tail THEN p ELSE @.tail,
                           size |-> @.size - 1]]

(* Mutant: the head of the list stays what it was.                         *)
ConnectBeforeKeepsHead(l, w, position, n) ==
  LET p == l.prev[position]
      u == NextSet(l, p, n)
  IN  [u EXCEPT !.next[n] = position, !.prev[n] = p, !.prev[position] = n]

ConnectBefore(l, w, position, n) ==
  LET p == l.prev[position]
      u == NextSet(l, p, n)
  IN  [u EXCEPT !.next[n] = position, !.prev[n] = p, !.prev[position] = n,
                !.of[w].head = IF position = @ THEN n ELSE @]

ConnectBehind(l, w, position, n) ==
  LET x == l.next[position]
      u == PrevSet(l, x, n)
  IN  [u EXCEPT !.prev[n] = position, !.next[n] = x, !.next[position] = n,
                !.of[w].tail = IF position = @ THEN n ELSE @]

Connect(l, w, position, n, before) ==
  LET u == IF Empty(l, w) THEN [l EXCEPT !.of[w].head = n, !.of[w].tail = n]
           ELSE IF before THEN ConnectBefore(l, w, position, n)
           ELSE ConnectBehind(l, w, position, n)
  IN  [u EXCEPT !.of[w].size = @ + 1]

Transfer(l, w, o, position, n, before) ==
  Connect(Disconnect(l, o, n), w, position, n, before)

(* malloc: the first free node                                             *)
NewNode(l) == CHOOSE n \in Nodes : l.value[n] = 0 /\ \A m \in 1 .. n - 1 : l.value[m] # 0
Insert(l, w, position, v, before) ==
  Connect([l EXCEPT !.value[NewNode(l)] = v], w, position, NewNode(l), before)

PushBack(l, w, v) == Insert(l, w, TailOf(l, w), v, FALSE)
PushFront(l, w, v) == Insert(l, w, HeadOf(l, w), v, TRUE)
Erase(l, w, n) == [Disconnect(l, w, n) EXCEPT !.value[n] = 0]
Build(l, w, s) == FoldLeft(LAMBDA m, v : PushBack(m, w, v), l, s)

-----------------------------------------------------------------------------
(* Whole lists                                                             *)

RECURSIVE Resized(_, _, _)
Resized(l, size, v) ==
  IF l.of[Self].size = size THEN l
  ELSE Resized(IF size < l.of[Self].size THEN Erase(l, Self, TailOf(l, Self))
               ELSE PushBack(l, Self, v), size, v)

Assigned(l, size, v) ==
  FoldLeft(LAMBDA m, n : [m EXCEPT !.value[n] = v],
           Resized(l, size, v), Each(Resized(l, size, v), Self))

(* The iterator has taken the next node before the links are swapped.      *)
Reversed(l) ==
  LET turn(m, n) == [m EXCEPT !.prev[n] = m.next[n], !.next[n] = m.prev[n]]
  IN  [FoldLeft(turn, l, Each(l, Self)) EXCEPT
         !.of[Self].head = TailOf(l, Self), !.of[Self].tail = HeadOf(l, Self)]

(* copy(self), from which the old list is freed.                           *)
Copied(l) ==
  LET both == Build(l, Other, [i \in DOMAIN Each(l, Self) |-> l.value[Each(l, Self)[i]]])
      erase(m, n) == Erase(m, Self, n)
  IN  Swap(FoldLeft(erase, both, Reverse(Each(l, Self))), Self, Other)

RemoveIf(l, v) ==
  LET erase(m, n) == IF l.value[n] = v THEN Erase(m, Self, n) ELSE m
  IN  FoldLeft(erase, l, Each(l, Self))

(* An element that is equal to the one behind it goes: the last stays.     *)
Unique(l) ==
  LET erase(m, n) ==
        IF l.next[n] # Null /\ Rank[l.value[n]] = Rank[l.value[l.next[n]]]
        THEN Erase(m, Self, n) ELSE m
  IN  FoldLeft(erase, l, Each(l, Self))

Splice(l, position) ==
  LET move(m, n) == Transfer(m, Self, Other, position, n, TRUE) IN
  IF Empty(l, Self) /\ position = Null THEN Swap(l, Self, Other)
  ELSE FoldLeft(move, l, Each(l, Other))

(* Before node, and then its successors, what is less in list o.           *)
RECURSIVE MergeAt(_, _, _, _)
MergeAt(l, w, o, n) ==
  IF n = Null THEN l
  ELSE IF ~Empty(l, o) /\ Rank[l.value[n]] > Rank[l.value[HeadOf(l, o)]]
       THEN MergeAt(Transfer(l, w, o, n, HeadOf(l, o), TRUE), w, o, n)
       ELSE MergeAt(l, w, o, l.next[n])

Merge(l, w, o) ==
  LET u == MergeAt(l, w, o, HeadOf(l, w))
      append(m, n) == Transfer(m, w, o, TailOf(m, w), n, FALSE)
  IN  IF Empty(l, w) THEN Swap(l, w, o) ELSE FoldLeft(append, u, Each(u, o))

-----------------------------------------------------------------------------
(* sort: lists of 1, 2, 4, ... elements in temp, as the digits of a binary *)
(* counter; fill is one past the longest.                                  *)

(* The inner for loop and the swap after it.                               *)
RECURSIVE CarryInto(_, _, _)
CarryInto(l, counter, fill) ==
  IF counter = fill \/ Empty(l, counter)
  THEN [heap |-> Swap(l, Carry, counter), fill |-> IF counter = fill THEN fill + 1 ELSE fill]
  ELSE CarryInto(Swap(Merge(l, counter, Carry), Carry, counter), counter + 1, fill)

RECURSIVE Distribute(_, _)
Distribute(l, fill) ==
  LET one == Transfer(l, Carry, Self, HeadOf(l, Carry), HeadOf(l, Self), TRUE)
      u == CarryInto(one, Temp, fill)
  IN  IF Empty(u.heap, Self) THEN u ELSE Distribute(u.heap, u.fill)

SortedList(l) ==
  LET d == Distribute(l, Temp)
      up(m, i) == Merge(m, Temp + i, Temp + i - 1)
      whole == FoldLeft(up, d.heap, [i \in 1 .. d.fill - Temp - 1 |-> i])
  IN  IF l.of[Self].size > 1 THEN Swap(whole, Self, d.fill - 1) ELSE l

-----------------------------------------------------------------------------
(* What sequences say of these.                                            *)

Times(k, v) == [i \in 1 .. k |-> v]
Ascends(s) == \A i, j \in DOMAIN s : i < j => Rank[s[i]] <= Rank[s[j]]

(* Stably: equal elements stay in the order they had.                      *)
InOrderOf(s) ==
  LET ranks == [r \in 1 .. 9 |-> SelectSeq(s, LAMBDA v : Rank[v] = r)] IN FlattenSeq(ranks)
LastOfRuns(s) ==
  LET last == {i \in DOMAIN s : i < Len(s) => Rank[s[i]] # Rank[s[i + 1]]}
      numbered == SelectSeq([i \in DOMAIN s |-> <<i, s[i]>>], LAMBDA e : e[1] \in last)
  IN  [i \in DOMAIN numbered |-> numbered[i][2]]

NodeAt(l, i) == Each(l, Self)[i]
Becomes(l, s) == heap' = l /\ elements' = s
Fits(k) == Len(elements) + k <= MaxSize

Ends ==
  \/ \E v \in Values : Fits(1) /\ Becomes(PushFront(heap, Self, v), <<v>> \o elements)
  \/ \E v \in Values : Fits(1) /\ Becomes(PushBack(heap, Self, v), Append(elements, v))

(* erase (of the head: pop_front, of the tail: pop_back) and insert        *)
Middle ==
  \/ \E i \in DOMAIN elements :
       Becomes(Erase(heap, Self, NodeAt(heap, i)), RemoveAt(elements, i))
  \/ \E i \in DOMAIN elements, v \in Values :
       Fits(1) /\ Becomes(Insert(heap, Self, NodeAt(heap, i), v, TRUE), InsertAt(elements, i, v))

(* Erasing and assigning along the list.  Resizing to 0 is clear.          *)
Along ==
  \/ \E v \in Values : Becomes(RemoveIf(heap, v), SelectSeq(elements, LAMBDA x : x # v))
  \/ Becomes(Unique(heap), LastOfRuns(elements))
  \/ Becomes(Reversed(heap), Reverse(elements))
  \/ \E k \in 0 .. MaxSize, v \in Values :
       \/ Becomes(Resized(heap, k, v), SubSeq(elements \o Times(k, v), 1, k))
       \/ Becomes(Assigned(heap, k, v), Times(k, v))
  \/ 2 * Len(elements) <= MaxNodes /\ Becomes(Copied(heap), elements)
  \/ Becomes(SortedList(heap), InOrderOf(elements))

(* Merging is for lists that are sorted.                                   *)
Together ==
  \E s \in Others :
    LET l == Build(heap, Other, s) IN
    /\ Fits(Len(s))
    /\ \/ \E i \in DOMAIN elements :
            Becomes(Splice(l, NodeAt(heap, i)),
                    SubSeq(elements, 1, i - 1) \o s \o SubSeq(elements, i, Len(elements)))
       \/ elements = <<>> /\ Becomes(Splice(l, Null), s)
       \/ /\ Ascends(elements) /\ Ascends(s)
          /\ Becomes(Merge(l, Self, Other), InOrderOf(elements \o s))

Next == Ends \/ Middle \/ Along \/ Together

Spec == Init /\ [][Next]_vars
-----------------------------------------------------------------------------
(* Properties                                                              *)

(* Whatever is spliced, merged, reversed, sorted and erased along the way, *)
(* the list read forwards is the sequence, the prev links agree with the   *)
(* next links, head and tail are its ends, sorting is stable, no node is   *)
(* lost or in two lists, and every temporary list ends empty.              *)
ListIsSequence ==
  LET s == Each(heap, Self)
      list == heap.of[Self]
  IN  /\ [i \in DOMAIN s |-> heap.value[s[i]]] = elements
      /\ list.size = Len(elements)
      /\ {n \in Nodes : heap.value[n] # 0} = {s[i] : i \in DOMAIN s}
      /\ list.head = IF s = <<>> THEN Null ELSE s[1]
      /\ list.tail = IF s = <<>> THEN Null ELSE s[Len(s)]
      /\ \A i \in DOMAIN s : heap.prev[s[i]] = IF i = 1 THEN Null ELSE s[i - 1]
      /\ \A w \in Lists \ {Self} : Empty(heap, w) /\ HeadOf(heap, w) = Null /\ TailOf(heap, w) = Null
=============================================================================
