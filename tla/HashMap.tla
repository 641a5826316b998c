------------------------------ MODULE HashMap -------------------------------
(***************************************************************************)
(* The hash map (src/hashmap/HashMap.h): buckets of red-black trees, and a *)
(* table that doubles.  put, remove and resize hold the write lock from    *)
(* beginning to end and get the read lock, so each is one step.            *)
(***************************************************************************)
EXTENDS RBTree, FiniteSets
LOCAL INSTANCE SequencesExt

CONSTANTS Values,            (* a set of positive numbers                  *)
          HashValue,         (* HashValue[k]: hash(k) before % capacity    *)
          InitialCapacity,   (* INITIAL_CAPACITY, 16 in the code           *)
          MaxCapacity        (* bound: the table stops doubling            *)

VARIABLES map,       (* buckets, size, capacity                            *)
          contents   (* what it should contain                             *)

vars == <<map, contents>>

Empty(capacity) == [h \in 0 .. capacity - 1 |-> NewTree]

Init ==
  /\ map = [buckets |-> Empty(InitialCapacity), size |-> 0, capacity |-> InitialCapacity]
  /\ contents = <<>>

Hash(k, capacity) == HashValue[k] % capacity
Bucket(k) == map.buckets[Hash(k, map.capacity)]
Crashed(m) == \E h \in DOMAIN m.buckets : m.buckets[h].fate = "null"

(* resize(): bucket by bucket, in order, into a table twice as long.       *)
Resized(m) ==
  LET c == 2 * m.capacity
      keys == FlattenSeq([h \in 1 .. m.capacity |->
                InOrder(m.buckets[h - 1], m.buckets[h - 1].root)])
      move(buckets, k) ==
        [buckets EXCEPT ![Hash(k, c)] =
           Insert(@, k, m.buckets[Hash(k, m.capacity)].val[k])]
  IN  [m EXCEPT !.capacity = c, !.buckets = FoldLeft(move, Empty(c), keys)]

(* size >= capacity * LOAD_FACTOR                                          *)
Full(m) == 4 * m.size >= 3 * m.capacity

(* A key that is there is removed first: size goes down and up again.      *)
Put(k, v) ==
  LET m == IF Full(map) THEN Resized(map) ELSE map
      h == Hash(k, m.capacity)
      t == m.buckets[h]
      there == Find(t, k)
      u == IF there THEN RemoveNode(t, k) ELSE t
  IN  /\ ~Crashed(map)
      /\ Full(map) => map.capacity < MaxCapacity
      /\ map' = [m EXCEPT !.buckets[h] = IF u.fate = "ok" THEN Insert(u, k, v) ELSE u,
                          !.size = IF there THEN @ ELSE @ + 1]
      /\ contents' = [x \in DOMAIN contents \cup {k} |-> IF x = k THEN v ELSE contents[x]]

RemoveKey(k) ==
  LET h == Hash(k, map.capacity)
      there == Find(map.buckets[h], k)
  IN  /\ ~Crashed(map)
      /\ map' = IF there THEN [map EXCEPT !.buckets[h] = RemoveNode(@, k), !.size = @ - 1] ELSE map
      /\ contents' = [x \in DOMAIN contents \ {k} |-> contents[x]]

(* The process has died: not a step of the code.                           *)
Dead == Crashed(map) /\ UNCHANGED vars

Next ==
  \/ \E k \in Keys : RemoveKey(k) \/ \E v \in Values : Put(k, v)
  \/ Dead

Spec == Init /\ [][Next]_vars
-----------------------------------------------------------------------------
(* Properties                                                              *)

RedBlack(t) ==
  /\ ~Red(t, t.root)
  /\ \A n \in Keys : t.val[n] # 0 /\ Red(t, n) =>
       ~Red(t, t.p[n]) /\ \A s \in Sides : ~Red(t, t.kid[s][n])
  /\ Cardinality(BlackHeights(t, t.root)) = 1

(* As long as no removal has followed a null pointer, the map holds what   *)
(* was put and not removed, under the hash of the current capacity, and    *)
(* every bucket is a red-black tree with kids and parents in agreement.    *)
(* deleteFixup (RBTree.h:118) never repairs anything: its loop is entered  *)
(* only with the null pointer that it then follows.                        *)
HashMapIsMap ==
  /\ \A h \in DOMAIN map.buckets : map.buckets[h].fate # "looped"
  /\ ~Crashed(map) =>
       /\ map.size = Cardinality(DOMAIN contents)
       /\ \A k \in Keys :
            /\ Find(Bucket(k), k) <=> k \in DOMAIN contents
            /\ k \in DOMAIN contents => Bucket(k).val[k] = contents[k]
       /\ \A h \in DOMAIN map.buckets :
            LET t == map.buckets[h] IN
            /\ RedBlack(t)
            /\ t.size = Cardinality({k \in DOMAIN contents : Hash(k, map.capacity) = h})
            /\ \A n \in Keys, s \in Sides : t.kid[s][n] # Null => t.p[t.kid[s][n]] = n
=============================================================================
