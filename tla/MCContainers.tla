---------------------------- MODULE MCContainers ----------------------------
(* One container of each kind, each on its own: kind says which.           *)
EXTENDS Integers, Sequences

VARIABLES kind, structure, model

Set == INSTANCE OrderedSet WITH
  tree <- structure, elements <- model, Keys <- 1 .. 10,
  Arguments <- {{2, 4, 6, 8, 10}, 4 .. 10, {2, 3, 6, 7}}

Map == INSTANCE HashMap WITH
  map <- structure, contents <- model, Keys <- 1 .. 7, Values <- {1},
  HashValue <- [k \in 1 .. 7 |-> IF k <= 6 THEN 0 ELSE 2],
  InitialCapacity <- 2, MaxCapacity <- 16

(* Fewer keys, whose values are put again and replaced.                    *)
Pairs == INSTANCE HashMap WITH
  map <- structure, contents <- model, Keys <- 1 .. 4, Values <- 1 .. 2,
  HashValue <- [k \in 1 .. 4 |-> IF k <= 3 THEN 0 ELSE 2],
  InitialCapacity <- 2, MaxCapacity <- 8

Unordered == INSTANCE HashSet WITH
  table <- structure, elements <- model, Keys <- 1 .. 5,
  HashOf <- [k \in 1 .. 5 |-> 7 * k * k], Counts <- {1, 4, 12},
  Predicates <- {{1, 2}, {2, 4}, {5}}

Deq == INSTANCE Deque WITH
  deque <- structure, elements <- model, Values <- 1 .. 2,
  BucketSize <- 2, MaxCapacity <- 8, MaxSize <- 6

Linked == INSTANCE List WITH
  heap <- structure, elements <- model, Values <- 1 .. 3, Rank <- <<1, 1, 2>>,
  Others <- {<<1>>, <<2, 3>>, <<3, 1, 2>>}, MaxNodes <- 5, MaxSize <- 5

Ints == INSTANCE Vector WITH
  vector <- structure, elements <- model, MustAlign16 <- FALSE,
  Values <- 0 .. 2, MaxCapacity <- 8, MaxSize <- 4

Chars == INSTANCE Str WITH
  vector <- structure, elements <- model, MustAlign16 <- TRUE,
  Values <- 0 .. 2, MaxCapacity <- 8, MaxSize <- 4,
  CStrings <- {<<>>, <<1>>, <<2, 1>>}, MinReserve <- 3

Queue == INSTANCE PriorityQueue WITH
  queue <- structure, history <- model, MustAlign16 <- FALSE,
  Values <- 1 .. 5, MaxSize <- 6

Init ==
  \/ kind = "set" /\ Set!Init
  \/ kind = "map" /\ Map!Init
  \/ kind = "pairs" /\ Pairs!Init
  \/ kind = "unordered" /\ Unordered!Init
  \/ kind = "deque" /\ Deq!Init
  \/ kind = "list" /\ Linked!Init
  \/ kind = "vector" /\ Ints!Init
  \/ kind = "string" /\ Chars!Init
  \/ kind = "queue" /\ Queue!Init

Next ==
  /\ UNCHANGED kind
  /\ \/ kind = "set" /\ Set!Next
     \/ kind = "map" /\ Map!Next
     \/ kind = "pairs" /\ Pairs!Next
     \/ kind = "unordered" /\ Unordered!Next
     \/ kind = "deque" /\ Deq!Next
     \/ kind = "list" /\ Linked!Next
     \/ kind = "vector" /\ Ints!Next
     \/ kind = "string" /\ Chars!WithVectorNext
     \/ kind = "queue" /\ Queue!Next

Spec == Init /\ [][Next]_<<kind, structure, model>>

-----------------------------------------------------------------------------
(* Properties: what the module of each kind of container says of it.       *)

(* The set is red-black and in order; the map has what was put, up to the  *)
(* first removal that crashes (RBTree.h:119); the hash set has each        *)
(* element in its hash's chain, up to the first write past its array       *)
(* (ust.h:248).                                                            *)
LookupsFind ==
  /\ kind = "set" => Set!OrderedSetIsSet
  /\ kind = "map" => Map!HashMapIsMap
  /\ kind = "pairs" => Pairs!HashMapIsMap
  /\ kind = "unordered" => Unordered!HashSetIsSet

(* The sequence is in the deque's pages, in the list's links both ways,    *)
(* and in the array through all changes of capacity, terminated in str.h.  *)
(* pqu.h loses nothing, and what was only filled is emptied in order;      *)
(* nothing is said of the order once a push has followed a pop (pqu.h:81). *)
SequencesKeep ==
  /\ kind = "deque" => Deq!DequeIsSequence
  /\ kind = "list" => Linked!ListIsSequence
  /\ kind = "vector" => Ints!VectorIsSequence
  /\ kind = "string" => Chars!VectorIsSequence
  /\ kind = "queue" => Queue!PriorityQueueOrders
=============================================================================
