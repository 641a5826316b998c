----------------------------- MODULE OrderedSet -----------------------------
(***************************************************************************)
(* The ordered set of ctl (src/ctl/set.h): a red-black tree with parent    *)
(* pointers, against the set it stands for.                                *)
(*                                                                         *)
(* A node is named by its key; the null pointer is 0.  The tree is a       *)
(* record of its fields: kid.l[n], kid.r[n], p[n] and red of each node n.  *)
(* What the code writes out for either side is one definition with the     *)
(* side as a parameter.  Following a null pointer is an application        *)
(* outside a function's domain, which TLC reports.                         *)
(***************************************************************************)
EXTENDS Naturals, FiniteSets, Sequences
LOCAL INSTANCE SequencesExt

CONSTANTS Keys,      (* a set of positive numbers                          *)
          Arguments  (* second operands and predicates: some sets of keys  *)

VARIABLES tree,      (* the set                                            *)
          elements   (* what it should contain                             *)

vars == <<tree, elements>>

Null == 0
Sides == {"l", "r"}
Other(s) == CHOOSE x \in Sides : x # s

(* init: fields of a node that does not exist are as malloc'd by the next  *)
(* insertion: no kids, no parent, red.                                     *)
NewTree ==
  [root |-> Null, size |-> 0,
   kid |-> [s \in Sides |-> [n \in Keys |-> Null]],
   p |-> [n \in Keys |-> Null], red |-> [n \in Keys |-> TRUE]]

Red(t, n) == n # Null /\ t.red[n]
Blk(t, n) == ~Red(t, n)
SideOf(t, n) == IF n = t.kid["l"][t.p[n]] THEN "l" ELSE "r"
Sibling(t, n) == t.kid[Other(SideOf(t, n))][t.p[n]]
Grandfather(t, n) == t.p[t.p[n]]
Uncle(t, n) == Sibling(t, t.p[n])
Paint(t, n, red) == [t EXCEPT !.red[n] = red]

-----------------------------------------------------------------------------
(* Walks                                                                   *)

RECURSIVE Outermost(_, _, _)
Outermost(t, n, s) == IF t.kid[s][n] = Null THEN n ELSE Outermost(t, t.kid[s][n], s)

RECURSIVE ClimbFrom(_, _)
ClimbFrom(t, n) ==
  IF t.p[n] # Null /\ n = t.kid["r"][t.p[n]] THEN ClimbFrom(t, t.p[n]) ELSE t.p[n]

NextNode(t, n) ==
  IF t.kid["r"][n] # Null THEN Outermost(t, t.kid["r"][n], "l") ELSE ClimbFrom(t, n)

(* The node with key k, or the one below which it would be inserted.       *)
RECURSIVE Descend(_, _, _)
Descend(t, n, k) ==
  LET s == IF k < n THEN "l" ELSE "r" IN
  IF k = n \/ t.kid[s][n] = Null THEN n ELSE Descend(t, t.kid[s][n], k)

Found(t, k) == t.root # Null /\ Descend(t, t.root, k) = k

(* lower_bound (diff <= 0 goes left) and upper_bound (diff < 0 does).      *)
RECURSIVE Bound(_, _, _, _, _)
Bound(t, n, k, result, equalGoesLeft) ==
  IF n = Null THEN result
  ELSE IF k < n \/ (equalGoesLeft /\ k = n)
       THEN Bound(t, t.kid["l"][n], k, n, equalGoesLeft)
       ELSE Bound(t, t.kid["r"][n], k, result, equalGoesLeft)
LowerBound(t, k) == Bound(t, t.root, k, Null, TRUE)
UpperBound(t, k) == Bound(t, t.root, k, Null, FALSE)

(* foreach                                                                 *)
RECURSIVE KeysFrom(_, _)
KeysFrom(t, n) == IF n = Null THEN <<>> ELSE <<n>> \o KeysFrom(t, NextNode(t, n))
Each(t) == IF t.size = 0 THEN <<>> ELSE KeysFrom(t, Outermost(t, t.root, "l"))

-----------------------------------------------------------------------------
(* Pointer surgery                                                         *)

(* b takes the place of a.                                                 *)
Replace(t, a, b) ==
  LET u == IF t.p[a] = Null THEN [t EXCEPT !.root = b]
           ELSE [t EXCEPT !.kid[SideOf(t, a)][t.p[a]] = b]
  IN  IF b = Null THEN u ELSE [u EXCEPT !.p[b] = t.p[a]]

(* rotate_l is Rotate(., ., "l").                                          *)
Rotate(t, n, s) ==
  LET o == Other(s)
      x == t.kid[o][n]
      y == t.kid[s][x]
      u == [Replace(t, n, x) EXCEPT !.kid[o][n] = y, !.kid[s][x] = n, !.p[n] = x]
  IN  IF y = Null THEN u ELSE [u EXCEPT !.p[y] = n]

-----------------------------------------------------------------------------
(* insert                                                                  *)

(* insert_4 turns an inner grandchild into an outer one, insert_5 rotates  *)
(* the grandfather.                                                        *)
Insert4(t, n) ==
  LET s == SideOf(t, t.p[n])
      inner == SideOf(t, n) # s
      u == IF inner THEN Rotate(t, t.p[n], s) ELSE t
      m == IF inner THEN u.kid[s][n] ELSE n
      g == Grandfather(u, m)
  IN  Rotate([u EXCEPT !.red[u.p[m]] = FALSE, !.red[g] = TRUE], g, Other(s))

(* insert_1, insert_2, insert_3                                            *)
RECURSIVE Insert1(_, _)
Insert1(t, n) ==
  IF t.p[n] = Null THEN Paint(t, n, FALSE)
  ELSE IF Blk(t, t.p[n]) THEN t
  ELSE IF Red(t, Uncle(t, n))
       THEN Insert1([t EXCEPT !.red[t.p[n]] = FALSE, !.red[Uncle(t, n)] = FALSE,
                              !.red[Grandfather(t, n)] = TRUE],
                    Grandfather(t, n))
  ELSE Insert4(t, n)

InsertKey(t, k) ==
  LET n == Descend(t, t.root, k)
      s == IF k < n THEN "l" ELSE "r"
      u == IF t.root = Null THEN [t EXCEPT !.root = k]
           ELSE [t EXCEPT !.kid[s][n] = k, !.p[k] = n]
  IN  IF Found(t, k) THEN t ELSE [Insert1(u, k) EXCEPT !.size = t.size + 1]

-----------------------------------------------------------------------------
(* erase                                                                   *)

(* Mutant: erase_5 is left out, and erase_6 takes a black far nephew for a *)
(* red one.                                                                *)
Erase5Skipped(t, n) == t

(* erase_5: a red near nephew becomes the far one.                         *)
Erase5(t, n) ==
  LET s == SideOf(t, n)
      b == Sibling(t, n)
      near == t.kid[s][b]
      far == t.kid[Other(s)][b]
  IN  IF Blk(t, b) /\ Red(t, near) /\ Blk(t, far)
      THEN Rotate([t EXCEPT !.red[b] = TRUE, !.red[near] = FALSE], b, Other(s))
      ELSE t

Erase6(t, n) ==
  LET s == SideOf(t, n)
      b == Sibling(t, n)
  IN  Rotate([t EXCEPT !.red[b] = t.red[t.p[n]], !.red[t.p[n]] = FALSE,
                       !.red[t.kid[Other(s)][b]] = FALSE],
             t.p[n], s)

(* erase_1 to erase_4                                                      *)
RECURSIVE Erase1(_, _)
Erase1(t, n) ==
  IF t.p[n] = Null THEN t
  ELSE LET q == t.p[n]
           u == IF Red(t, Sibling(t, n))
                THEN Rotate([t EXCEPT !.red[q] = TRUE, !.red[Sibling(t, n)] = FALSE],
                            q, SideOf(t, n))
                ELSE t
           b == Sibling(u, n)
           allBlack == Blk(u, b) /\ \A s \in Sides : Blk(u, u.kid[s][b])
       IN  IF allBlack /\ Blk(u, q) THEN Erase1(Paint(u, b, TRUE), q)
           ELSE IF allBlack THEN [u EXCEPT !.red[b] = TRUE, !.red[q] = FALSE]
           ELSE Erase6(Erase5(u, n), n)

(* free_node; the node's name may be used again.                           *)
Free(t, n) ==
  [t EXCEPT !.kid["l"][n] = Null, !.kid["r"][n] = Null, !.p[n] = Null,
            !.red[n] = TRUE, !.size = @ - 1]

(* SWAP of two nodes' keys, after which the second is freed: the first     *)
(* goes by the name m from then on.                                        *)
Renamed(t, n, m) ==
  LET name(x) == IF x = n THEN m ELSE x
      moved(f, default) ==
        [x \in Keys |-> IF x = m THEN f[n] ELSE IF x = n THEN default ELSE f[x]]
      kids(s) == moved(t.kid[s], Null)
      parents == moved(t.p, Null)
  IN  [t EXCEPT !.root = name(@),
                !.kid = [s \in Sides |-> [x \in Keys |-> name(kids(s)[x])]],
                !.p = [x \in Keys |-> name(parents[x])],
                !.red = moved(@, TRUE)]

EraseNode(t, n) ==
  LET both == t.kid["l"][n] # Null /\ t.kid["r"][n] # Null
      m == IF both THEN Outermost(t, t.kid["l"][n], "r") ELSE n
      child == IF t.kid["r"][m] # Null THEN t.kid["r"][m] ELSE t.kid["l"][m]
      u == IF Blk(t, m) THEN Erase1(Paint(t, m, Red(t, child)), m) ELSE t
      v == Replace(u, m, child)
      w == Free(IF v.p[m] = Null /\ child # Null THEN Paint(v, child, FALSE) ELSE v, m)
  IN  IF both THEN Renamed(w, n, m) ELSE w

EraseKey(t, k) == IF Found(t, k) THEN EraseNode(t, k) ELSE t

(* clear: erase(root->key) until empty.                                    *)
RECURSIVE Cleared(_)
Cleared(t) == IF t.size = 0 THEN t ELSE Cleared(EraseKey(t, t.root))

(* remove_if, from the iterator's node n on: its successor was determined  *)
(* before n is erased.                                                     *)
RECURSIVE RemoveFrom(_, _, _)
RemoveFrom(t, n, match) ==
  LET next == NextNode(t, n)
      u == IF n \in match THEN EraseNode(t, n) ELSE t
  IN  IF next = Null THEN u ELSE RemoveFrom(u, next, match)

-----------------------------------------------------------------------------
(* Whole sets                                                              *)

InsertAll(t, ks) == FoldLeft(InsertKey, t, ks)
EraseAll(t, ks) == FoldLeft(EraseKey, t, ks)
Copy(t) == InsertAll(NewTree, Each(t))
Common(a, b) == SelectSeq(Each(a), LAMBDA k : Found(b, k))
Intersection(a, b) == InsertAll(NewTree, Common(a, b))
Union(a, b) == InsertAll(InsertAll(NewTree, Each(a)), Each(b))
Difference(a, b) == EraseAll(Copy(a), Each(b))
SymmetricDifference(a, b) == EraseAll(Union(a, b), Each(Intersection(a, b)))

(* A second operand, as a caller would build it.                           *)
Ascending(S) ==
  [i \in 1 .. Cardinality(S) |-> CHOOSE x \in S : Cardinality({y \in S : y < x}) = i - 1]
Of(S) == InsertAll(NewTree, Ascending(S))

-----------------------------------------------------------------------------
Init == tree = NewTree /\ elements = {}

Insert(k) == tree' = InsertKey(tree, k) /\ elements' = elements \cup {k}
Erase(k) == tree' = EraseKey(tree, k) /\ elements' = elements \ {k}
Clear == tree' = Cleared(tree) /\ elements' = {}
RemoveIf(match) ==
  /\ tree' = IF tree.size = 0 THEN tree
             ELSE RemoveFrom(tree, Outermost(tree, tree.root, "l"), match)
  /\ elements' = elements \ match

(* a = intersection(a, b) and so on, a's nodes being freed.                *)
Combine(S) ==
  \/ tree' = Intersection(tree, Of(S)) /\ elements' = elements \cap S
  \/ tree' = Union(tree, Of(S)) /\ elements' = elements \cup S
  \/ tree' = Difference(tree, Of(S)) /\ elements' = elements \ S
  \/ /\ tree' = SymmetricDifference(tree, Of(S))
     /\ elements' = (elements \ S) \cup (S \ elements)

Next ==
  \/ \E k \in Keys : Insert(k) \/ Erase(k)
  \/ Clear
  \/ \E S \in Arguments : RemoveIf(S) \/ Combine(S)

Spec == Init /\ [][Next]_vars
-----------------------------------------------------------------------------
(* Properties                                                              *)

(* The black nodes on each path from n down to a null pointer, or {} if    *)
(* two paths differ.                                                       *)
RECURSIVE BlackHeights(_, _)
BlackHeights(t, n) ==
  IF n = Null THEN {0}
  ELSE {h + (IF t.red[n] THEN 0 ELSE 1) :
        h \in BlackHeights(t, t.kid["l"][n]) \cup BlackHeights(t, t.kid["r"][n])}

(* The assertions of verify(): the root is black (2), a red node has black *)
(* neighbours (4), all paths have the same number of black nodes (5).      *)
RedBlack(t) ==
  /\ Blk(t, t.root)
  /\ \A n \in elements : t.red[n] =>
       /\ \A s \in Sides : Blk(t, t.kid[s][n])
       /\ Blk(t, t.p[n])
  /\ Cardinality(BlackHeights(t, t.root)) = 1

(* Every operation, rotations, key swaps and all, leaves a red-black tree  *)
(* that holds the right keys, in order, with parent pointers that agree    *)
(* with the kids, and whose searches give the right answers.               *)
OrderedSetIsSet ==
  LET least(S) == IF S = {} THEN Null ELSE CHOOSE x \in S : \A y \in S : x <= y IN
  /\ RedBlack(tree)
  /\ tree.size = Cardinality(elements)
  /\ Each(tree) = Ascending(elements)
  /\ \A n \in elements, s \in Sides : tree.kid[s][n] # Null => tree.p[tree.kid[s][n]] = n
  /\ tree.root # Null => tree.p[tree.root] = Null
  /\ \A k \in Keys :
       /\ Found(tree, k) <=> k \in elements
       /\ LowerBound(tree, k) = least({x \in elements : k <= x})
       /\ UpperBound(tree, k) = least({x \in elements : k < x})
=============================================================================
