------------------------------- MODULE RBTree -------------------------------
(***************************************************************************)
(* The red-black tree in each bucket of the hash map                       *)
(* (src/hashmap/RBTree.h), as operators on a record of its pointers.       *)
(*                                                                         *)
(* A node is named by its key (the map never inserts a key twice); the     *)
(* null pointer is 0.  What the code writes out for either side is one     *)
(* definition with the side as a parameter.                                *)
(***************************************************************************)
EXTENDS Naturals, Sequences

CONSTANTS Keys       (* a set of positive numbers                          *)

Null == 0
Sides == {"l", "r"}
Other(s) == CHOOSE x \in Sides : x # s

(* fate: "ok", "null" when a null pointer was dereferenced, and "looped"   *)
(* when deleteFixup's loop was entered with a node.  val 0: no node.       *)
NewTree ==
  [root |-> Null, size |-> 0, fate |-> "ok",
   kid |-> [s \in Sides |-> [n \in Keys |-> Null]],
   p |-> [n \in Keys |-> Null], red |-> [n \in Keys |-> TRUE],
   val |-> [n \in Keys |-> 0]]

Red(t, n) == n # Null /\ t.red[n]
SideOf(t, n) == IF n = t.kid["l"][t.p[n]] THEN "l" ELSE "r"

(* What n's parent, or the root pointer, points to.                        *)
Relink(t, n, m) ==
  IF t.p[n] = Null THEN [t EXCEPT !.root = m]
  ELSE [t EXCEPT !.kid[SideOf(t, n)][t.p[n]] = m]

(* leftRotate is Rotate(., ., "l").                                        *)
Rotate(t, x, s) ==
  LET o == Other(s)
      y == t.kid[o][x]
      z == t.kid[s][y]
      u == [Relink(t, x, y) EXCEPT
              !.kid[o][x] = z, !.p[y] = t.p[x], !.kid[s][y] = x, !.p[x] = y]
  IN  IF z = Null THEN u ELSE [u EXCEPT !.p[z] = x]

(* The loop of insertFixup; the root is painted at its end.                *)
RECURSIVE InsertLoop(_, _)
InsertLoop(t, z) ==
  IF ~Red(t, t.p[z]) THEN t
  ELSE LET g == t.p[t.p[z]]
           s == SideOf(t, t.p[z])
           y == t.kid[Other(s)][g]
           inner == SideOf(t, z) # s
           u == IF inner THEN Rotate(t, t.p[z], s) ELSE t
           m == IF inner THEN t.p[z] ELSE z
       IN  IF Red(t, y)
           THEN InsertLoop([t EXCEPT !.red[t.p[z]] = FALSE, !.red[y] = FALSE,
                                     !.red[g] = TRUE], g)
           ELSE InsertLoop(Rotate([u EXCEPT !.red[u.p[m]] = FALSE, !.red[g] = TRUE],
                                  g, Other(s)), m)
InsertFixup(t, z) == LET u == InsertLoop(t, z) IN [u EXCEPT !.red[u.root] = FALSE]

(* The node with key k, or the one below which it would be inserted.       *)
RECURSIVE Descend(_, _, _)
Descend(t, n, k) ==
  LET s == IF k < n THEN "l" ELSE "r" IN
  IF k = n \/ t.kid[s][n] = Null THEN n ELSE Descend(t, t.kid[s][n], k)

Find(t, k) == t.root # Null /\ Descend(t, t.root, k) = k

Insert(t, k, v) ==
  LET y == Descend(t, t.root, k)
      s == IF k < y THEN "l" ELSE "r"
      u == IF t.root = Null THEN [t EXCEPT !.root = k]
           ELSE [t EXCEPT !.kid[s][y] = k, !.p[k] = y]
  IN  [InsertFixup(u, k) EXCEPT !.val[k] = v, !.size = @ + 1]

RECURSIVE Minimum(_, _)
Minimum(t, x) == IF t.kid["l"][x] = Null THEN x ELSE Minimum(t, t.kid["l"][x])

Transplant(t, u, v) ==
  LET w == Relink(t, u, v) IN IF v = Null THEN w ELSE [w EXCEPT !.p[v] = t.p[u]]

(* x is what took the place of a black node.  The loop looks at x->parent  *)
(* first, null or not; its body is left out, since it is never entered     *)
(* with a node (HashMapIsMap).                                             *)
DeleteFixup(t, x) ==
  IF x # t.root /\ ~Red(t, x) THEN [t EXCEPT !.fate = IF x = Null THEN "null" ELSE "looped"]
  ELSE IF x = Null THEN t
  ELSE [t EXCEPT !.red[x] = FALSE]

(* delete z; the name may be used again.                                   *)
Free(t, z) ==
  [t EXCEPT !.kid["l"][z] = Null, !.kid["r"][z] = Null, !.p[z] = Null,
            !.red[z] = TRUE, !.val[z] = 0]

(* z has two kids: its successor y takes its place.                        *)
Succeed(t, z, y) ==
  LET r == t.kid["r"][z]
      l == t.kid["l"][z]
      u == IF t.p[y] = z THEN t
           ELSE [Transplant(t, y, t.kid["r"][y]) EXCEPT !.kid["r"][y] = r, !.p[r] = y]
  IN  [Transplant(u, z, y) EXCEPT !.kid["l"][y] = l, !.p[l] = y, !.red[y] = t.red[z]]

(* remove(), from the node z it has found.                                 *)
RemoveNode(t, z) ==
  LET l == t.kid["l"][z]
      r == t.kid["r"][z]
      two == l # Null /\ r # Null
      y == IF two THEN Minimum(t, r) ELSE z
      x == IF two THEN t.kid["r"][y] ELSE IF l = Null THEN r ELSE l
      u == Free(IF two THEN Succeed(t, z, y) ELSE Transplant(t, z, x), z)
      w == IF Red(t, y) THEN u ELSE DeleteFixup(u, x)
  IN  [w EXCEPT !.size = @ - 1]

(* inorderTraversal                                                        *)
RECURSIVE InOrder(_, _)
InOrder(t, n) ==
  IF n = Null THEN <<>> ELSE InOrder(t, t.kid["l"][n]) \o <<n>> \o InOrder(t, t.kid["r"][n])

-----------------------------------------------------------------------------
(* The black nodes on each path from n down to a null pointer.             *)
RECURSIVE BlackHeights(_, _)
BlackHeights(t, n) ==
  IF n = Null THEN {0}
  ELSE {h + (IF t.red[n] THEN 0 ELSE 1) :
        h \in BlackHeights(t, t.kid["l"][n]) \cup BlackHeights(t, t.kid["r"][n])}
=============================================================================
