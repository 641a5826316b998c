------------------------------- MODULE HashSet ------------------------------
(***************************************************************************)
(* The unordered set of ctl (src/ctl/ust.h): chains of nodes in a prime    *)
(* number of buckets, against the set it stands for.  The hash function is *)
(* the user's, so it is a parameter.                                       *)
(***************************************************************************)
EXTENDS Naturals, FiniteSets, Sequences
LOCAL INSTANCE SequencesExt

CONSTANTS Keys,
          HashOf,       (* HashOf[k]: hash(k) before % bucket_count        *)
          Counts,       (* counts that callers of reserve ask for          *)
          Predicates    (* of remove_if: some sets of keys                 *)

VARIABLES table,        (* chains, size; overrun: written past the end     *)
          elements      (* what it should contain                          *)

vars == <<table, elements>>

Unallocated == [chains |-> [i \in {} |-> <<>>], size |-> 0, overrun |-> FALSE]

BucketCount(t) == Cardinality(DOMAIN t.chains)
Index(t, k) == HashOf[k] % BucketCount(t)

(* closest_prime; the rest of its table is out of reach of the model.      *)
ClosestPrime(n) ==
  LET primes == {2, 3, 5, 7, 11, 13, 17, 19, 23, 29, 31, 37}
  IN  CHOOSE p \in primes : p >= n /\ \A q \in primes : q >= n => p <= q

(* foreach: bucket by bucket.  Nothing is followed for an empty set.       *)
Each(t) ==
  IF t.size = 0 THEN <<>> ELSE FlattenSeq([i \in 1 .. BucketCount(t) |-> t.chains[i - 1]])

Found(t, k) == t.size > 0 /\ \E i \in DOMAIN t.chains[Index(t, k)] : t.chains[Index(t, k)][i] = k

Push(t, k) == [t EXCEPT !.chains[Index(t, k)] = <<k>> \o @, !.size = @ + 1]

(* reserve of an empty set copies the old buckets, all of them, into the   *)
(* new array, which may be the shorter one.                                *)
ReserveEmpty(t, desired) ==
  LET count == ClosestPrime(desired)
  IN  [chains |-> [i \in 0 .. count - 1 |-> <<>>], size |-> 0,
       overrun |-> BucketCount(t) > count]

(* Every node is pushed to the front of its new chain, which so reverses   *)
(* the order in which nodes met.                                           *)
Rehash(t, desired) ==
  LET enough == IF desired <= t.size THEN t.size + 1 ELSE desired IN
  IF ClosestPrime(enough) = BucketCount(t) THEN t
  ELSE FoldLeft(Push, ReserveEmpty(Unallocated, enough), Each(t))

(* The first insertion asks for 12 buckets whatever was reserved.          *)
InsertKey(t, k) ==
  LET u == IF t.size = 0 THEN Rehash(t, 12) ELSE t
      v == Push(u, k)
  IN  IF Found(u, k) THEN u
      ELSE IF v.size > BucketCount(v) THEN Rehash(v, 2 * BucketCount(v))
      ELSE v

(* linked_erase of every match                                             *)
Without(t, match) ==
  LET kept(chain) == SelectSeq(chain, LAMBDA k : k \notin match)
      chains == [i \in DOMAIN t.chains |-> kept(t.chains[i])]
      erased == Len(SelectSeq(Each(t), LAMBDA k : k \in match))
  IN  [t EXCEPT !.chains = chains, !.size = @ - erased]

(* erase: the first match, in the chain of the key's hash.                 *)
EraseKey(t, k) ==
  IF ~Found(t, k) THEN t
  ELSE LET chain == t.chains[Index(t, k)]
           at == CHOOSE i \in DOMAIN chain : chain[i] = k /\ \A j \in 1 .. i - 1 : chain[j] # k
       IN  [t EXCEPT !.chains[Index(t, k)] = RemoveAt(@, at), !.size = @ - 1]

Copy(t) == FoldLeft(InsertKey, Unallocated, Each(t))

-----------------------------------------------------------------------------
Init == table = Unallocated /\ elements = {}

Insert(k) == table' = InsertKey(table, k) /\ elements' = elements \cup {k}
Erase(k) == table' = EraseKey(table, k) /\ elements' = elements \ {k}
RemoveIf(match) == table' = Without(table, match) /\ elements' = elements \ match

Reserve(desired) ==
  /\ table' = IF table.size > 0 THEN Rehash(table, desired) ELSE ReserveEmpty(table, desired)
  /\ UNCHANGED elements

Clear ==
  /\ table' = [table EXCEPT !.chains = [i \in DOMAIN @ |-> <<>>], !.size = @ - Len(Each(table))]
  /\ elements' = {}

(* a = copy(a), the old a being freed.                                     *)
ReplaceByCopy == table' = Copy(table) /\ UNCHANGED elements

Operation ==
  \/ \E k \in Keys : Insert(k) \/ Erase(k)
  \/ \E match \in Predicates : RemoveIf(match)
  \/ \E desired \in Counts : Reserve(desired)
  \/ Clear
  \/ ReplaceByCopy

(* Nothing can be said of a process that has written past an array.        *)
Corrupted == table.overrun /\ UNCHANGED vars

Next == (~table.overrun /\ Operation) \/ Corrupted

Spec == Init /\ [][Next]_vars
-----------------------------------------------------------------------------
(* Properties                                                              *)

(* Whatever is reserved, rehashed, erased and copied, and in whatever      *)
(* order, each element is in one chain, that of its hash under the current *)
(* bucket count, where find looks; foreach visits each element once; size  *)
(* counts them; and no set has more elements than buckets.  This holds as  *)
(* long as reserve has not been asked to shrink an empty set's buckets     *)
(* (ust.h:248); what it then says of the next operation is nothing.        *)
HashSetIsSet ==
  ~table.overrun =>
    /\ table.size = Cardinality(elements)
    /\ Len(Each(table)) = table.size
    /\ \A k \in Keys :
         /\ Found(table, k) <=> k \in elements
         /\ Found(table, k) <=> \E i \in DOMAIN Each(table) : Each(table)[i] = k
    /\ table.size <= BucketCount(table)
=============================================================================
