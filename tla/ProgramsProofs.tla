---------------------------- MODULE ProgramsProofs ----------------------------
(***************************************************************************)
(* The theorems of the ring buffer, the crawler, the chat server, the      *)
(* frames it reads and the rules of robots.txt, for the composition that   *)
(* is model-checked.  Each of the five has its inductive invariant in its  *)
(* own module; here, in this order, each is shown to hold at the start and *)
(* to be kept by every step, for all values of the constants.              *)
(***************************************************************************)
EXTENDS Programs, FiniteSetTheorems, WellFoundedInduction, TLAPS

-----------------------------------------------------------------------------
(* Division and remainder, as the provers know them.                       *)
LEMMA DivMod ==
  ASSUME NEW a \in Nat, NEW S \in Nat \ {0}
  PROVE  a % S \in 0 .. S - 1 /\ a \div S \in Nat /\ a = S * (a \div S) + (a % S)
OBVIOUS

(* There is one quotient and one remainder.                                *)
LEMMA OneDivision ==
  ASSUME NEW S \in Nat \ {0}, NEW p \in Nat, NEW q \in Nat,
         NEW r \in 0 .. S - 1, NEW u \in 0 .. S - 1, S * p + r = S * q + u
  PROVE  p = q /\ r = u
<1>1. ~(p < q)
  <2> SUFFICES ASSUME p < q PROVE FALSE OBVIOUS
  <2>0. PICK k \in Nat : q = p + 1 + k
    <3> q - p - 1 \in Nat /\ q = p + 1 + (q - p - 1) OBVIOUS
    <3> QED OBVIOUS
  <2>2. S * q = S * p + S + S * k BY <2>0
  <2>3. S * k \in Nat OBVIOUS
  <2>4. S * p \in Nat OBVIOUS
  <2> QED BY <2>2, <2>3, <2>4
<1>2. ~(q < p)
  <2> SUFFICES ASSUME q < p PROVE FALSE OBVIOUS
  <2>0. PICK k \in Nat : p = q + 1 + k
    <3> p - q - 1 \in Nat /\ p = q + 1 + (p - q - 1) OBVIOUS
    <3> QED OBVIOUS
  <2>2. S * p = S * q + S + S * k BY <2>0
  <2>3. S * k \in Nat OBVIOUS
  <2>4. S * q \in Nat OBVIOUS
  <2> QED BY <2>2, <2>3, <2>4
<1>3. p = q BY <1>1, <1>2
<1>4. S * p \in Int OBVIOUS
<1> QED BY <1>3, <1>4

(* The index after that of n is the index of n + 1: it may wrap around.    *)
LEMMA NextIndex ==
  ASSUME NEW n \in Nat, NEW S \in Nat \ {0}
  PROVE  ((n % S) + 1) % S = (n + 1) % S
<1> DEFINE r == n % S  q == n \div S
<1>1. r \in 0 .. S - 1 /\ q \in Nat /\ n = S * q + r BY DivMod
<1>2. r + 1 \in Nat /\ n + 1 \in Nat OBVIOUS
<1> DEFINE r1 == (r + 1) % S  q1 == (r + 1) \div S  r2 == (n + 1) % S q2 == (n + 1) \div S
<1>3. r1 \in 0 .. S - 1 /\ q1 \in Nat /\ r + 1 = S * q1 + r1 BY <1>2, DivMod
<1>4. r2 \in 0 .. S - 1 /\ q2 \in Nat /\ n + 1 = S * q2 + r2 BY <1>2, DivMod
<1>5. S * (q + q1) = S * q + S * q1 BY <1>1, <1>3
<1>6. S * q \in Nat /\ S * q1 \in Nat /\ q + q1 \in Nat BY <1>1, <1>3
<1> HIDE DEF r, q, r1, q1, r2, q2
<1>7. S * (q + q1) + r1 = S * q2 + r2 BY <1>1, <1>3, <1>4, <1>5, <1>6
<1>8. r1 = r2 BY <1>7, <1>6, <1>3, <1>4, OneDivision
<1> QED BY <1>8 DEF r1, r2, r

(* Numbers less than S apart have different indices.                       *)
LEMMA OtherIndex ==
  ASSUME NEW a \in Nat, NEW b \in Nat, NEW S \in Nat \ {0}, a < b, b - a < S
  PROVE  a % S # b % S
<1> DEFINE r == a % S  p == a \div S  q == b \div S
<1> SUFFICES ASSUME r = b % S PROVE FALSE OBVIOUS
<1>1. r \in 0 .. S - 1 /\ p \in Nat /\ a = S * p + r BY DivMod
<1>2. q \in Nat /\ b = S * q + r BY DivMod
<1> HIDE DEF r, p, q
<1>3. b - a \in 0 .. S - 1 /\ S * p \in Nat /\ S * q \in Nat BY <1>1, <1>2
<1>4. S * p + (b - a) = S * q + 0 BY <1>1, <1>2, <1>3
<1>5. b - a = 0 BY <1>1, <1>2, <1>3, <1>4, OneDivision
<1> QED BY <1>5

(* Cardinality is the same operator in the modules instantiated.            *)
LEMMA SameCardinality ==
  /\ \A S : Crawl!Cardinality(S) = Cardinality(S)
  /\ \A S : Ring!Cardinality(S) = Cardinality(S)
BY DEF Crawl!Cardinality, Ring!Cardinality, Cardinality

-----------------------------------------------------------------------------
(* Thread i of n is given the items whose numbers leave remainder i: this  *)
(* says when it has one in round j.                                        *)
LEMMA ShareOut ==
  ASSUME NEW n \in Nat \ {0}, NEW T \in Nat, NEW j \in Nat, NEW i \in 0 .. n - 1
  PROVE  n * j + i < T <=> j < T \div n + (IF i < T % n THEN 1 ELSE 0)
<1> DEFINE q == T \div n  r == T % n
<1>1. q \in Nat /\ r \in 0 .. n - 1 /\ T = n * q + r
  BY DivMod
<1> HIDE DEF q, r
<1>2. n * q \in Nat /\ n * j \in Nat
  BY <1>1
<1>3. CASE j < q
  <2>1. PICK k \in Nat : q = j + 1 + k
    <3>1. q - j - 1 \in Nat /\ q = j + 1 + (q - j - 1)
      BY <1>1, <1>3
    <3> QED
      BY <3>1
  <2>2. n * q = n * j + n + n * k /\ n * k \in Nat
    BY <2>1
  <2>3. n * j + i < T
    BY <1>1, <1>2, <2>2
  <2>4. j < q + (IF i < r THEN 1 ELSE 0)
    BY <1>1, <1>3
  <2> QED
    BY <2>3, <2>4 DEF q, r
<1>4. CASE j = q
  <2>1. n * j + i < T <=> i < r
    BY <1>1, <1>2, <1>4
  <2>2. j < q + (IF i < r THEN 1 ELSE 0) <=> i < r
    BY <1>1, <1>4
  <2> QED
    BY <2>1, <2>2 DEF q, r
<1>5. CASE q < j
  <2>1. PICK k \in Nat : j = q + 1 + k
    <3>1. j - q - 1 \in Nat /\ j = q + 1 + (j - q - 1)
      BY <1>1, <1>5
    <3> QED
      BY <3>1
  <2>2. n * j = n * q + n + n * k /\ n * k \in Nat
    BY <1>1, <2>1
  <2>3. ~(n * j + i < T)
    BY <1>1, <1>2, <2>2
  <2>4. ~(j < q + (IF i < r THEN 1 ELSE 0))
    BY <1>1, <1>5
  <2> QED
    BY <2>3, <2>4 DEF q, r
<1> QED
  BY <1>1, <1>3, <1>4, <1>5

(* A round has at least one item.                                          *)
LEMMA RoundsGrow ==
  ASSUME NEW n \in Nat \ {0}, NEW j \in Nat
  PROVE  n * j \in Nat /\ j <= n * j
<1>1. PICK k \in Nat : n = k + 1
  <2>1. n - 1 \in Nat /\ n = (n - 1) + 1
    OBVIOUS
  <2> QED
    BY <2>1
<1>2. n * j = k * j + j /\ k * j \in Nat
  BY <1>1
<1> QED
  BY <1>2

(* The turns of all threads of a role are as many as there are items.      *)
TurnsOf(role, n, T) ==
  {e \in ({role} \X (0 .. n - 1)) \X (1 .. T) :
     e[2] <= T \div n + (IF e[1][2] < T % n THEN 1 ELSE 0)}

LEMMA TurnsAreItems ==
  ASSUME NEW n \in Nat \ {0}, NEW T \in Nat, NEW role
  PROVE  Cardinality(TurnsOf(role, n, T)) = T
<1> DEFINE S == TurnsOf(role, n, T)
<1> DEFINE f == [m \in 0 .. T - 1 |-> <<<<role, m % n>>, m \div n + 1>>]
<1>1. ASSUME NEW m \in 0 .. T - 1
      PROVE  /\ m % n \in 0 .. n - 1 /\ m \div n \in Nat /\ m = n * (m \div n) + (m % n)
             /\ f[m] \in S
  <2>0. m \in Nat /\ m < T
    OBVIOUS
  <2>1. m % n \in 0 .. n - 1 /\ m \div n \in Nat /\ m = n * (m \div n) + (m % n)
    BY <2>0, DivMod
  <2> DEFINE j == m \div n  i == m % n
  <2>2. j < T \div n + (IF i < T % n THEN 1 ELSE 0)
    <3>1. i \in 0 .. n - 1 /\ j \in Nat /\ n * j + i < T
      BY <2>0, <2>1
    <3> HIDE DEF i, j
    <3> QED
      BY <3>1, ShareOut
  <2>3. n * j \in Nat /\ j <= n * j
    BY <2>1, RoundsGrow
  <2>4. T \div n \in Nat
    BY DivMod
  <2>5. f[m] = <<<<role, i>>, j + 1>>
    OBVIOUS
  <2> HIDE DEF i, j, f
  <2>6. i \in 0 .. n - 1 /\ j \in Nat /\ m = n * j + i
    BY <2>1 DEF i, j
  <2>7. j + 1 \in 1 .. T
    BY <2>3, <2>6
  <2>8. j + 1 <= T \div n + (IF i < T % n THEN 1 ELSE 0)
    BY <2>2, <2>4, <2>6
  <2> QED
    BY <2>1, <2>5, <2>6, <2>7, <2>8 DEF TurnsOf
<1>2. ASSUME NEW a \in 0 .. T - 1, NEW b \in 0 .. T - 1, f[a] = f[b]
      PROVE  a = b
  <2>1. a % n = b % n /\ a \div n + 1 = b \div n + 1
    BY <1>2
  <2>2. a \div n = b \div n
    BY <2>1, <1>1
  <2>3. a = n * (a \div n) + (a % n) /\ b = n * (b \div n) + (b % n)
    BY <1>1
  <2>4. n * (a \div n) + (a % n) = n * (b \div n) + (b % n)
    BY <2>1, <2>2
  <2> HIDE DEF f
  <2> QED
    BY <2>3, <2>4
<1>3. ASSUME NEW e \in S
      PROVE  \E m \in 0 .. T - 1 : f[m] = e
  <2> DEFINE i == e[1][2]  j == e[2] - 1  m == n * j + i
  <2>1. i \in 0 .. n - 1 /\ j \in Nat /\ e = <<<<role, i>>, j + 1>>
    BY DEF TurnsOf
  <2>2. j < T \div n + (IF i < T % n THEN 1 ELSE 0)
    <3>1. T \div n \in Nat
      BY DivMod
    <3> QED
      BY <2>1, <3>1 DEF TurnsOf
  <2>3. n * j \in Nat
    BY <2>1, RoundsGrow
  <2> HIDE DEF i, j, f
  <2>4. m \in 0 .. T - 1
    <3>1. m < T
      BY <2>1, <2>2, ShareOut
    <3> QED
      BY <2>1, <2>3, <3>1
  <2>5. m % n \in 0 .. n - 1 /\ m \div n \in Nat /\ m = n * (m \div n) + (m % n)
    BY <2>4, <1>1
  <2>6. m \div n = j /\ m % n = i
    <3> HIDE DEF m
    <3>1. n * (m \div n) + (m % n) = n * j + i
      BY <2>5 DEF m
    <3> DEFINE p == m \div n  u == m % n
    <3>2. p \in Nat /\ u \in 0 .. n - 1 /\ n * p + u = n * j + i
      BY <2>5, <3>1
    <3> HIDE DEF p, u
    <3>3. p = j /\ u = i
      BY <3>2, <2>1, OneDivision
    <3> QED
      BY <3>3 DEF p, u
  <2> HIDE DEF m
  <2> QED
    BY <2>1, <2>4, <2>6 DEF f
<1>4. f \in Bijection(0 .. T - 1, S)
  <2>1. f \in [0 .. T - 1 -> S]
    <3>1. f = [m \in 0 .. T - 1 |-> f[m]]
      OBVIOUS
    <3> HIDE DEF f
    <3> QED
      BY <1>1, <3>1
  <2> HIDE DEF f
  <2> QED
    BY <2>1, <1>2, <1>3 DEF Bijection, Injection, Surjection, IsInjective
<1>5. IsFiniteSet(0 .. T - 1) /\ Cardinality(0 .. T - 1) = T
  BY FS_Interval
<1> HIDE DEF f, S
<1>6. Cardinality(S) = T
  BY <1>4, <1>5, FS_Bijection DEF ExistsBijection
<1> QED
  BY <1>6 DEF S

-----------------------------------------------------------------------------
(* There are finitely many threads, and none of both kinds.                *)
LEMMA FewThreads ==
  ASSUME Ring!BufferAssumption
  PROVE  /\ IsFiniteSet(Ring!Producers) /\ IsFiniteSet(Ring!Consumers)
         /\ Ring!Producers \cap Ring!Consumers = {}
<1>1. IsFiniteSet(0 .. NumProducers - 1) /\ IsFiniteSet(0 .. NumConsumers - 1)
  BY FS_Interval DEF Ring!BufferAssumption
<1>2. IsFiniteSet({"producer"}) /\ IsFiniteSet({"consumer"})
  BY FS_Singleton
<1> QED
  BY <1>1, <1>2, FS_Product DEF Ring!Producers, Ring!Consumers

(* A thread enters one of the sets of SlotsKept, or leaves it.             *)
LEMMA CountOne ==
  ASSUME NEW S, NEW T, IsFiniteSet(S), NEW t, t \notin S, T = S \cup {t}
  PROVE  IsFiniteSet(T) /\ Cardinality(T) = Cardinality(S) + 1 /\ Cardinality(S) \in Nat
BY FS_AddElement, FS_CardinalityType

(* So the sets that SlotsKept and ItemsKept count are finite.              *)
LEMMA SetsAreFinite ==
  ASSUME Ring!BufferAssumption
  PROVE  /\ IsFiniteSet(Ring!Before(Ring!Producers)) /\ IsFiniteSet(Ring!Before(Ring!Consumers))
         /\ IsFiniteSet(Ring!Behind(Ring!Producers)) /\ IsFiniteSet(Ring!Behind(Ring!Consumers))
         /\ Cardinality(Ring!Before(Ring!Producers)) \in Nat
         /\ Cardinality(Ring!Before(Ring!Consumers)) \in Nat
         /\ Cardinality(Ring!Behind(Ring!Producers)) \in Nat
         /\ Cardinality(Ring!Behind(Ring!Consumers)) \in Nat
<1>1. /\ Ring!Before(Ring!Producers) \subseteq Ring!Producers
      /\ Ring!Behind(Ring!Producers) \subseteq Ring!Producers
      /\ Ring!Before(Ring!Consumers) \subseteq Ring!Consumers
      /\ Ring!Behind(Ring!Consumers) \subseteq Ring!Consumers
  BY DEF Ring!Before, Ring!Behind
<1> QED
  BY <1>1, FewThreads, FS_Subset, FS_CardinalityType

(* No thread is given more than there is.                                  *)
LEMMA ItemsInRange ==
  ASSUME Ring!BufferAssumption, NEW t \in Ring!Threads
  PROVE  Ring!Items(t) \in 0 .. TotalItems
<1>0. TotalItems \in Nat
  BY DEF Ring!BufferAssumption
<1>1. ASSUME NEW n \in Nat \ {0}, NEW i \in 0 .. n - 1
      PROVE  Ring!Share(i, n) \in 0 .. TotalItems
  <2> DEFINE q == TotalItems \div n
  <2>1. q \in Nat /\ Ring!Share(i, n) = q + (IF i < TotalItems % n THEN 1 ELSE 0)
    BY <1>0, DivMod DEF Ring!Share
  <2>2. Ring!Share(i, n) \in Nat
    BY <2>1
  <2>3. CASE Ring!Share(i, n) = 0
    BY <2>3, <1>0
  <2>4. CASE Ring!Share(i, n) # 0
    <3> DEFINE j == Ring!Share(i, n) - 1
    <3>1. j \in Nat /\ j < Ring!Share(i, n)
      BY <2>2, <2>4
    <3> HIDE DEF j
    <3>2. n * j + i < TotalItems
      <4>1. j < TotalItems \div n + (IF i < TotalItems % n THEN 1 ELSE 0)
        BY <3>1, <2>1
      <4> QED
        BY <4>1, <3>1, <1>0, ShareOut
    <3>3. n * j \in Nat /\ j <= n * j
      BY <3>1, RoundsGrow
    <3>4. j < TotalItems
      BY <3>1, <3>2, <3>3, <1>0
    <3> QED
      BY <3>4, <2>2, <1>0 DEF j
  <2> QED
    BY <2>3, <2>4
<1>2. CASE t \in Ring!Producers
  <2>1. NumProducers \in Nat \ {0} /\ t[2] \in 0 .. NumProducers - 1
    BY <1>2 DEF Ring!Producers, Ring!BufferAssumption
  <2> QED
    BY <1>1, <1>2, <2>1 DEF Ring!Items
<1>3. CASE t \in Ring!Consumers
  <2>1. NumConsumers \in Nat \ {0} /\ t[2] \in 0 .. NumConsumers - 1 /\ t \notin Ring!Producers
    BY <1>3, FewThreads DEF Ring!Consumers, Ring!BufferAssumption
  <2> QED
    BY <1>1, <2>1 DEF Ring!Items
<1> QED
  BY <1>2, <1>3 DEF Ring!Threads

(* The indices in and out stay inside the buffer.                          *)
LEMMA IndicesInRange ==
  ASSUME Ring!BufferAssumption, Ring!TypeOK, Ring!Indices
  PROVE  in \in 0 .. Size - 1 /\ out \in 0 .. Size - 1
<1>1. Len(put) \in Nat /\ Len(taken) \in Nat
  BY DEF Ring!TypeOK
<1> QED
  BY <1>1, DivMod DEF Ring!BufferAssumption, Ring!Indices

(* Every step of a thread keeps the types of the ring's variables.         *)
LEMMA RingTypeStep ==
  ASSUME Ring!BufferAssumption, Ring!TypeOK, Ring!Indices, Ring!Next
  PROVE  Ring!TypeOK'
<1> SUFFICES ASSUME NEW t \in Ring!Threads,
                    \/ Ring!Ends(t) \/ Ring!WaitForSlot(t) \/ Ring!WaitForItem(t) \/ Ring!Lock(t)
                    \/ Ring!Put(t) \/ Ring!TakeOut(t) \/ Ring!Count(t) \/ Ring!Unlock(t) \/ Ring!Post(t)
             PROVE  Ring!TypeOK'
  BY DEF Ring!Next
<1> USE DEF Ring!TypeOK, Ring!Step
<1>1. CASE Ring!Ends(t)
  BY <1>1 DEF Ring!Ends, Ring!ring, Ring!stats
<1>2. CASE Ring!WaitForSlot(t) \/ Ring!WaitForItem(t)
  <2>1. slots' \in Nat /\ items' \in Nat
    BY <1>2 DEF Ring!WaitForSlot, Ring!WaitForItem
  <2> QED
    BY <1>2, <2>1 DEF Ring!WaitForSlot, Ring!WaitForItem, Ring!ring, Ring!stats
<1>3. CASE Ring!Lock(t) \/ Ring!Unlock(t)
  BY <1>3 DEF Ring!Lock, Ring!Unlock, Ring!ring, Ring!stats
<1>4. CASE Ring!Put(t)
  <2>1. <<t, Ring!Items(t) - todo[t]>> \in Ring!Item
    BY ItemsInRange DEF Ring!Item
  <2>2. in \in 0 .. Size - 1 /\ Size \in Int
    BY IndicesInRange DEF Ring!BufferAssumption
  <2>3. (in + 1) % Size \in Int
    BY <2>2, DivMod DEF Ring!BufferAssumption
  <2> HIDE DEF Ring!Item
  <2> QED
    BY <1>4, <2>1, <2>2, <2>3 DEF Ring!Put, Ring!stats
<1>5. CASE Ring!TakeOut(t)
  <2>1. buffer[out] \in Ring!Item
    BY IndicesInRange
  <2>2. (out + 1) % Size \in Int
    BY IndicesInRange, DivMod DEF Ring!BufferAssumption
  <2> QED
    BY <1>5, <2>1, <2>2 DEF Ring!TakeOut, Ring!stats
<1>6. CASE Ring!Count(t)
  BY <1>6 DEF Ring!Count, Ring!ring
<1>7. CASE Ring!Post(t)
  BY <1>7 DEF Ring!Post, Ring!ring, Ring!stats
<1> QED
  BY <1>1, <1>2, <1>3, <1>4, <1>5, <1>6, <1>7

(* Every step keeps the two counts: a slot, or an item, is passed on       *)
(* between the semaphore, the threads and the ring.                        *)
LEMMA RingKeptStep ==
  ASSUME Ring!BufferAssumption, Ring!TypeOK, Ring!SlotsKept, Ring!ItemsKept, Ring!Next
  PROVE  Ring!SlotsKept' /\ Ring!ItemsKept'
<1> SUFFICES ASSUME NEW t \in Ring!Threads,
                    \/ Ring!Ends(t) \/ Ring!WaitForSlot(t) \/ Ring!WaitForItem(t) \/ Ring!Lock(t)
                    \/ Ring!Put(t) \/ Ring!TakeOut(t) \/ Ring!Count(t) \/ Ring!Unlock(t) \/ Ring!Post(t)
             PROVE  Ring!SlotsKept' /\ Ring!ItemsKept'
  BY DEF Ring!Next
<1> DEFINE BP == Ring!Before(Ring!Producers)  BC == Ring!Before(Ring!Consumers)
           AP == Ring!Behind(Ring!Producers)  AC == Ring!Behind(Ring!Consumers)
<1>0. /\ Cardinality(BP) \in Nat /\ Cardinality(BC) \in Nat
      /\ Cardinality(AP) \in Nat /\ Cardinality(AC) \in Nat
      /\ IsFiniteSet(BP) /\ IsFiniteSet(BC) /\ IsFiniteSet(AP) /\ IsFiniteSet(AC)
  BY SetsAreFinite
<1>f. IsFiniteSet(BP') /\ IsFiniteSet(BC') /\ IsFiniteSet(AP') /\ IsFiniteSet(AC')
  <2>1. /\ BP' \subseteq Ring!Producers /\ BC' \subseteq Ring!Consumers
        /\ AP' \subseteq Ring!Producers /\ AC' \subseteq Ring!Consumers
    BY DEF Ring!Before, Ring!Behind
  <2> QED
    BY <2>1, FewThreads, FS_Subset
<1>n. /\ Len(put) \in Nat /\ Len(taken) \in Nat /\ slots \in Nat /\ items \in Nat
      /\ Size \in Nat
  BY DEF Ring!TypeOK, Ring!BufferAssumption
<1>k. /\ Size = slots + Cardinality(BP) + (Len(put) - Len(taken)) + Cardinality(AC)
      /\ Len(put) - Len(taken) = items + Cardinality(AP) + Cardinality(BC)
  BY SameCardinality DEF Ring!SlotsKept, Ring!ItemsKept
<1>g. SUFFICES
        /\ Size = slots' + Cardinality(BP') + (Len(put') - Len(taken')) + Cardinality(AC')
        /\ Len(put') - Len(taken') = items' + Cardinality(AP') + Cardinality(BC')
  BY SameCardinality DEF Ring!SlotsKept, Ring!ItemsKept
<1>t. pc \in [Ring!Threads -> {"loop", "waited", "locked", "counting", "counted", "unlocked", "ended"}]
  BY DEF Ring!TypeOK
<1>d. Ring!Producers \cap Ring!Consumers = {} /\ Ring!Threads = Ring!Producers \cup Ring!Consumers
  BY FewThreads DEF Ring!Threads
<1>1. CASE Ring!Ends(t)
  <2>1. BP' = BP /\ BC' = BC /\ AP' = AP /\ AC' = AC
    BY <1>1, <1>t, <1>d DEF Ring!Ends, Ring!Step, Ring!Before, Ring!Behind
  <2> QED
    BY <1>1, <1>k, <2>1 DEF Ring!Ends
<1>2. CASE Ring!WaitForSlot(t)
  <2>1. t \notin BP /\ BP' = BP \cup {t} /\ BC' = BC /\ AP' = AP /\ AC' = AC
    BY <1>2, <1>t, <1>d DEF Ring!WaitForSlot, Ring!Step, Ring!Before, Ring!Behind
  <2>2. Cardinality(BP') = Cardinality(BP) + 1
    BY <1>0, <1>f, <2>1, CountOne
  <2> HIDE DEF BP, BC, AP, AC
  <2> QED
    BY <1>2, <1>k, <1>n, <1>0, <2>1, <2>2 DEF Ring!WaitForSlot
<1>3. CASE Ring!WaitForItem(t)
  <2>1. t \notin BC /\ BC' = BC \cup {t} /\ BP' = BP /\ AP' = AP /\ AC' = AC
    BY <1>3, <1>t, <1>d DEF Ring!WaitForItem, Ring!Step, Ring!Before, Ring!Behind
  <2>2. Cardinality(BC') = Cardinality(BC) + 1
    BY <1>0, <1>f, <2>1, CountOne
  <2> HIDE DEF BP, BC, AP, AC
  <2> QED
    BY <1>3, <1>k, <1>n, <1>0, <2>1, <2>2 DEF Ring!WaitForItem
<1>4. CASE Ring!Lock(t)
  <2>1. BP' = BP /\ BC' = BC /\ AP' = AP /\ AC' = AC
    BY <1>4, <1>t, <1>d DEF Ring!Lock, Ring!Step, Ring!Before, Ring!Behind
  <2> QED
    BY <1>4, <1>k, <2>1 DEF Ring!Lock
<1>5. CASE Ring!Put(t)
  <2>1. /\ t \notin BP' /\ BP = BP' \cup {t} /\ t \notin AP /\ AP' = AP \cup {t}
        /\ BC' = BC /\ AC' = AC
    BY <1>5, <1>t, <1>d DEF Ring!Put, Ring!Step, Ring!Before, Ring!Behind
  <2>2. Cardinality(BP) = Cardinality(BP') + 1 /\ Cardinality(BP') \in Nat
    BY <1>0, <1>f, <2>1, CountOne
  <2>3. Cardinality(AP') = Cardinality(AP) + 1
    BY <1>0, <1>f, <2>1, CountOne
  <2>4. /\ Len(put') = Len(put) + 1 /\ Len(taken') = Len(taken)
        /\ slots' = slots /\ items' = items
    BY <1>5 DEF Ring!Put, Ring!TypeOK
  <2>5. Cardinality(BC') = Cardinality(BC) /\ Cardinality(AC') = Cardinality(AC)
    BY <2>1
  <2> HIDE DEF BP, BC, AP, AC
  <2> QED
    <3>1. Len(put') \in Nat /\ Len(taken') \in Nat
      BY <1>n, <2>4
    <3>2. /\ Size = slots' + Cardinality(BP') + (Len(put') - Len(taken')) + Cardinality(AC')
      BY <1>k, <1>n, <1>0, <2>2, <2>3, <2>4, <2>5, SMTT(60)
    <3>3. Len(put') - Len(taken') = items' + Cardinality(AP') + Cardinality(BC')
      <4>1. Len(put) - Len(taken) = items + Cardinality(AP) + Cardinality(BC)
        BY <1>k
      <4> QED
        BY <4>1, <1>n, <1>0, <2>3, <2>4, <2>5, <3>1, SMTT(60)
    <3> QED
      BY <3>2, <3>3
<1>6. CASE Ring!TakeOut(t)
  <2>1. /\ t \notin BC' /\ BC = BC' \cup {t} /\ t \notin AC /\ AC' = AC \cup {t}
        /\ BP' = BP /\ AP' = AP
    BY <1>6, <1>t, <1>d DEF Ring!TakeOut, Ring!Step, Ring!Before, Ring!Behind
  <2>2. Cardinality(BC) = Cardinality(BC') + 1 /\ Cardinality(BC') \in Nat
    BY <1>0, <1>f, <2>1, CountOne
  <2>3. Cardinality(AC') = Cardinality(AC) + 1
    BY <1>0, <1>f, <2>1, CountOne
  <2>4. /\ Len(taken') = Len(taken) + 1 /\ Len(put') = Len(put)
        /\ slots' = slots /\ items' = items
    BY <1>6 DEF Ring!TakeOut, Ring!TypeOK
  <2>5. Cardinality(BP') = Cardinality(BP) /\ Cardinality(AP') = Cardinality(AP)
    BY <2>1
  <2> HIDE DEF BP, BC, AP, AC
  <2> QED
    <3>1. Len(put') \in Nat /\ Len(taken') \in Nat
      BY <1>n, <2>4
    <3>2. /\ Size = slots' + Cardinality(BP') + (Len(put') - Len(taken')) + Cardinality(AC')
      BY <1>k, <1>n, <1>0, <2>2, <2>3, <2>4, <2>5, SMTT(60)
    <3>3. Len(put') - Len(taken') = items' + Cardinality(AP') + Cardinality(BC')
      <4>1. Len(put) - Len(taken) = items + Cardinality(AP) + Cardinality(BC)
        BY <1>k
      <4> QED
        BY <4>1, <1>n, <1>0, <2>2, <2>3, <2>4, <2>5
    <3> QED
      BY <3>2, <3>3
<1>7. CASE Ring!Count(t) \/ Ring!Unlock(t)
  <2>1. BP' = BP /\ BC' = BC /\ AP' = AP /\ AC' = AC
    BY <1>7, <1>t, <1>d DEF Ring!Count, Ring!Unlock, Ring!Step, Ring!Before, Ring!Behind
  <2> QED
    BY <1>7, <1>k, <2>1 DEF Ring!Count, Ring!Unlock
<1>8. CASE Ring!Post(t) /\ t \in Ring!Producers
  <2>1. t \notin AP' /\ AP = AP' \cup {t} /\ BP' = BP /\ BC' = BC /\ AC' = AC
    BY <1>8, <1>t, <1>d DEF Ring!Post, Ring!Step, Ring!Before, Ring!Behind
  <2>2. Cardinality(AP) = Cardinality(AP') + 1 /\ Cardinality(AP') \in Nat
    BY <1>0, <1>f, <2>1, CountOne
  <2> HIDE DEF BP, BC, AP, AC
  <2> QED
    BY <1>8, <1>k, <1>n, <1>0, <2>1, <2>2 DEF Ring!Post
<1>9. CASE Ring!Post(t) /\ t \in Ring!Consumers
  <2>1. t \notin AC' /\ AC = AC' \cup {t} /\ BP' = BP /\ BC' = BC /\ AP' = AP
    BY <1>9, <1>t, <1>d DEF Ring!Post, Ring!Step, Ring!Before, Ring!Behind
  <2>2. Cardinality(AC) = Cardinality(AC') + 1 /\ Cardinality(AC') \in Nat
    BY <1>0, <1>f, <2>1, CountOne
  <2>3. t \notin Ring!Producers
    BY <1>9, <1>d
  <2> HIDE DEF BP, BC, AP, AC
  <2> QED
    BY <1>9, <1>k, <1>n, <1>0, <2>1, <2>2, <2>3, SMTT(60) DEF Ring!Post
<1> QED
  BY <1>1, <1>2, <1>3, <1>4, <1>5, <1>6, <1>7, <1>8, <1>9, <1>d

(* A put finds its slot free, and a take its item there.                   *)
LEMMA RingFifoStep ==
  ASSUME Ring!BufferAssumption, Ring!IInv, Ring!Next
  PROVE  Ring!Indices' /\ Ring!BufferIsFifo'
<1> USE DEF Ring!IInv
<1> SUFFICES ASSUME NEW t \in Ring!Threads,
                    \/ Ring!Put(t) \/ Ring!TakeOut(t)
                    \/ UNCHANGED <<buffer, in, out, count, put, taken>>
             PROVE  Ring!Indices' /\ Ring!BufferIsFifo'
  BY DEF Ring!Next, Ring!Ends, Ring!WaitForSlot, Ring!WaitForItem, Ring!Lock, Ring!Count,
     Ring!Unlock, Ring!Post, Ring!ring
<1> DEFINE p == Len(put)  k == Len(taken)
<1>1. /\ p \in Nat /\ k \in Nat /\ slots \in Nat /\ items \in Nat /\ Size \in Nat \ {0}
      /\ put \in Seq(Ring!Item) /\ taken \in Seq(Ring!Item)
      /\ buffer \in [0 .. Size - 1 -> Ring!Item]
      /\ pc \in [Ring!Threads -> {"loop", "waited", "locked", "counting", "counted", "unlocked", "ended"}]
  BY DEF Ring!TypeOK, Ring!BufferAssumption
<1>2. /\ k <= p /\ taken = SubSeq(put, 1, k) /\ count = p - k
      /\ \A i \in k + 1 .. p : buffer[(i - 1) % Size] = put[i]
      /\ in = p % Size /\ out = k % Size
  BY DEF Ring!BufferIsFifo, Ring!Indices
<1>3. /\ Cardinality(Ring!Before(Ring!Producers)) \in Nat
      /\ Cardinality(Ring!Before(Ring!Consumers)) \in Nat
      /\ Cardinality(Ring!Behind(Ring!Producers)) \in Nat
      /\ Cardinality(Ring!Behind(Ring!Consumers)) \in Nat
      /\ IsFiniteSet(Ring!Before(Ring!Producers)) /\ IsFiniteSet(Ring!Before(Ring!Consumers))
  BY SetsAreFinite
<1>4. CASE Ring!Put(t)
  <2> DEFINE item == <<t, Ring!Items(t) - todo[t]>>
  <2>1. /\ put' = Append(put, item) /\ buffer' = [buffer EXCEPT ![in] = item]
        /\ in' = (in + 1) % Size /\ count' = count + 1 /\ UNCHANGED <<taken, out>>
    BY <1>4 DEF Ring!Put
  <2>2. t \in Ring!Before(Ring!Producers)
    BY <1>4 DEF Ring!Put, Ring!Step, Ring!Before
  <2>3. Cardinality(Ring!Before(Ring!Producers)) # 0
    BY <2>2, <1>3, FS_EmptySet
  <2>4. p - k < Size
    BY <1>1, <1>3, <2>3, SameCardinality DEF Ring!SlotsKept
  <2>5. Len(put') = p + 1 /\ put'[p + 1] = item /\ \A i \in 1 .. p : put'[i] = put[i]
    BY <1>1, <2>1
  <2>6. in' = (p + 1) % Size
    BY <1>1, <1>2, <2>1, NextIndex
  <2>7. in \in 0 .. Size - 1
    BY <1>1, <1>2, DivMod
  <2>8. ASSUME NEW i \in k + 1 .. p + 1
        PROVE  buffer'[(i - 1) % Size] = put'[i]
    <3>1. CASE i = p + 1
      BY <3>1, <2>1, <2>5, <2>7, <1>1, <1>2
    <3>2. CASE i \in k + 1 .. p
      <4>1. i - 1 \in Nat /\ i - 1 < p /\ p - (i - 1) < Size
        BY <3>2, <2>4, <1>1
      <4>2. (i - 1) % Size # in
        BY <4>1, <1>1, <1>2, OtherIndex
      <4>3. buffer[(i - 1) % Size] = put[i] /\ put'[i] = put[i]
        BY <3>2, <1>2, <2>5, <1>1
      <4>4. buffer'[(i - 1) % Size] = buffer[(i - 1) % Size]
        <5>1. (i - 1) % Size \in 0 .. Size - 1
          BY <4>1, <1>1, DivMod
        <5> QED
          BY <5>1, <4>2, <2>1, <1>1
      <4> QED
        BY <4>3, <4>4
    <3> QED
      BY <3>1, <3>2, <1>1
  <2>9. taken' = SubSeq(put', 1, k)
    BY <1>1, <1>2, <2>1, <2>5
  <2>10. count' = p + 1 - k
    BY <1>1, <1>2, <2>1
  <2>11. Len(taken') = k
    BY <2>1
  <2> HIDE DEF p, k
  <2>12. Ring!Indices'
    BY <1>2, <2>1, <2>5, <2>6, <2>11 DEF Ring!Indices
  <2>13. k <= p + 1
    BY <1>1, <1>2
  <2>14. Ring!BufferIsFifo'
    <3>1. Len(put') = p + 1
      BY <2>5
    <3>2. Len(taken') <= Len(put')
      BY <3>1, <2>13, <2>11
    <3>3. taken' = SubSeq(put', 1, Len(taken'))
      BY <2>9, <2>11
    <3>4. count' = Len(put') - Len(taken')
      BY <1>1, <3>1, <2>10, <2>11
    <3>5. \A i \in Len(taken') + 1 .. Len(put') : buffer'[(i - 1) % Size] = put'[i]
      BY <3>1, <2>8, <2>11
    <3> QED
      BY <3>2, <3>3, <3>4, <3>5 DEF Ring!BufferIsFifo
  <2> QED
    BY <2>12, <2>14
<1>5. CASE Ring!TakeOut(t)
  <2>1. /\ taken' = Append(taken, buffer[out]) /\ out' = (out + 1) % Size
        /\ count' = count - 1 /\ UNCHANGED <<buffer, in, put>>
    BY <1>5 DEF Ring!TakeOut
  <2>2. t \in Ring!Before(Ring!Consumers)
    BY <1>5 DEF Ring!TakeOut, Ring!Step, Ring!Before
  <2>3. Cardinality(Ring!Before(Ring!Consumers)) # 0
    BY <2>2, <1>3, FS_EmptySet
  <2>4. k < p
    BY <1>1, <1>3, <2>3, SameCardinality DEF Ring!ItemsKept
  <2>5. buffer[out] = put[k + 1]
    <3>1. k + 1 \in k + 1 .. p /\ (k + 1) - 1 = k
      BY <2>4, <1>1, SMTT(60)
    <3> QED
      BY <3>1, <1>2
  <2>6. out' = (k + 1) % Size
    BY <1>1, <1>2, <2>1, NextIndex
  <2>7. Len(taken') = k + 1
    BY <1>1, <2>1, <2>5, <2>4
  <2>8. taken' = SubSeq(put, 1, k + 1)
    <3>1. \A i \in 1 .. k : taken[i] = put[i]
      BY <1>1, <1>2
    <3>2. taken' \in Seq(Ring!Item) /\ \A i \in 1 .. k + 1 : taken'[i] = put[i]
      BY <3>1, <1>1, <2>1, <2>4, <2>5, SMTT(60)
    <3> QED
      BY <3>2, <2>7, <1>1, <2>4
  <2>9. count' = p - (k + 1)
    <3>1. count' = (p - k) - 1
      BY <1>2, <2>1, Zenon
    <3> HIDE DEF p, k
    <3> QED
      BY <3>1, <1>1
  <2>10. Len(put') = p
    BY <2>1
  <2>11. k + 1 <= p /\ k + 1 + 1 .. p \subseteq k + 1 .. p
    BY <1>1, <2>4
  <2> HIDE DEF p, k
  <2>12. Ring!Indices'
    BY <1>2, <2>1, <2>6, <2>7, <2>10 DEF Ring!Indices
  <2>13. Ring!BufferIsFifo'
    BY <1>2, <2>1, <2>7, <2>8, <2>9, <2>10, <2>11 DEF Ring!BufferIsFifo
  <2> QED
    BY <2>12, <2>13
<1>6. CASE UNCHANGED <<buffer, in, out, count, put, taken>>
  BY <1>6 DEF Ring!Indices, Ring!BufferIsFifo
<1> QED
  BY <1>4, <1>5, <1>6

(* The turns that are left are finitely many.                              *)
LEMMA LeftIsFinite ==
  ASSUME Ring!BufferAssumption
  PROVE  /\ IsFiniteSet(Ring!Left(Ring!Producers)) /\ IsFiniteSet(Ring!Left(Ring!Consumers))
         /\ Cardinality(Ring!Left(Ring!Producers)) \in Nat
         /\ Cardinality(Ring!Left(Ring!Consumers)) \in Nat
         /\ IsFiniteSet(Ring!Left(Ring!Producers)') /\ IsFiniteSet(Ring!Left(Ring!Consumers)')
<1>1. IsFiniteSet(1 .. TotalItems)
  BY FS_Interval DEF Ring!BufferAssumption
<1>2. /\ IsFiniteSet(Ring!Producers \X (1 .. TotalItems))
      /\ IsFiniteSet(Ring!Consumers \X (1 .. TotalItems))
  BY <1>1, FewThreads, FS_Product
<1>3. /\ Ring!Left(Ring!Producers) \subseteq Ring!Producers \X (1 .. TotalItems)
      /\ Ring!Left(Ring!Consumers) \subseteq Ring!Consumers \X (1 .. TotalItems)
      /\ Ring!Left(Ring!Producers)' \subseteq Ring!Producers \X (1 .. TotalItems)
      /\ Ring!Left(Ring!Consumers)' \subseteq Ring!Consumers \X (1 .. TotalItems)
  BY DEF Ring!Left
<1> QED
  BY <1>2, <1>3, FS_Subset, FS_CardinalityType

(* Likewise the threads that the totals have yet to count.                 *)
LEMMA UncountedIsFinite ==
  ASSUME Ring!BufferAssumption
  PROVE  /\ IsFiniteSet(Ring!Uncounted(Ring!Producers))
         /\ IsFiniteSet(Ring!Uncounted(Ring!Consumers))
         /\ Cardinality(Ring!Uncounted(Ring!Producers)) \in Nat
         /\ Cardinality(Ring!Uncounted(Ring!Consumers)) \in Nat
         /\ IsFiniteSet(Ring!Uncounted(Ring!Producers)')
         /\ IsFiniteSet(Ring!Uncounted(Ring!Consumers)')
<1>1. /\ Ring!Uncounted(Ring!Producers) \subseteq Ring!Producers
      /\ Ring!Uncounted(Ring!Consumers) \subseteq Ring!Consumers
      /\ Ring!Uncounted(Ring!Producers)' \subseteq Ring!Producers
      /\ Ring!Uncounted(Ring!Consumers)' \subseteq Ring!Consumers
  BY DEF Ring!Uncounted
<1> QED
  BY <1>1, FewThreads, FS_Subset, FS_CardinalityType

(* A thread has turns left as long as it has not ended, and whoever holds  *)
(* the mutex will give it up.                                              *)
LEMMA RingTurnsStep ==
  ASSUME Ring!BufferAssumption, Ring!TypeOK, Ring!Turns, Ring!Holder, Ring!Next
  PROVE  Ring!Turns' /\ Ring!Holder'
<1> SUFFICES ASSUME NEW t \in Ring!Threads,
                    \/ Ring!Ends(t) \/ Ring!WaitForSlot(t) \/ Ring!WaitForItem(t) \/ Ring!Lock(t)
                    \/ Ring!Put(t) \/ Ring!TakeOut(t) \/ Ring!Count(t) \/ Ring!Unlock(t) \/ Ring!Post(t)
             PROVE  Ring!Turns' /\ Ring!Holder'
  BY DEF Ring!Next
<1>t. /\ pc \in [Ring!Threads -> {"loop", "waited", "locked", "counting", "counted", "unlocked", "ended"}]
      /\ todo \in [Ring!Threads -> Int] /\ mutex \in Ring!Threads \cup {Ring!Nobody}
      /\ TotalItems \in Nat
  BY DEF Ring!TypeOK, Ring!BufferAssumption
<1>1. CASE \/ Ring!Ends(t) \/ Ring!WaitForSlot(t) \/ Ring!WaitForItem(t) \/ Ring!Lock(t)
           \/ Ring!Put(t) \/ Ring!TakeOut(t) \/ Ring!Count(t) \/ Ring!Unlock(t)
  <2>1. /\ todo' = todo /\ pc' = [pc EXCEPT ![t] = pc'[t]]
        /\ \/ pc[t] = "loop" /\ todo[t] = 0 /\ pc'[t] = "ended"
           \/ pc[t] = "loop" /\ todo[t] > 0 /\ pc'[t] = "waited"
           \/ pc[t] \notin {"loop", "ended"} /\ pc'[t] \notin {"loop", "ended"}
    BY <1>1, <1>t DEF Ring!Ends, Ring!WaitForSlot, Ring!WaitForItem, Ring!Lock, Ring!Put,
       Ring!TakeOut, Ring!Count, Ring!Unlock, Ring!Step
  <2>2. Ring!Turns'
    <3> SUFFICES ASSUME NEW u \in Ring!Threads
                 PROVE  /\ todo'[u] \in 0 .. TotalItems
                        /\ IF pc'[u] = "ended" THEN todo'[u] = 0 ELSE pc'[u] = "loop" \/ todo'[u] > 0
      BY DEF Ring!Turns
    <3>1. /\ todo[u] \in 0 .. TotalItems
          /\ IF pc[u] = "ended" THEN todo[u] = 0 ELSE pc[u] = "loop" \/ todo[u] > 0
      BY DEF Ring!Turns
    <3>2. CASE u = t
      BY <3>1, <3>2, <2>1
    <3>3. CASE u # t
      BY <3>1, <3>3, <2>1, <1>t
    <3> QED
      BY <3>2, <3>3
  <2>3. Ring!Holder'
    <3>1. /\ mutex' = Ring!Nobody \/ mutex' = t \/ mutex' = mutex
          /\ mutex' = t => pc'[t] \in {"locked", "counting", "counted"}
      <4>1. CASE Ring!Lock(t) \/ Ring!Unlock(t)
        <5>1. t # Ring!Nobody
          BY DEF Ring!Nobody, Ring!Threads, Ring!Producers, Ring!Consumers
        <5> QED
          BY <4>1, <5>1, <1>t DEF Ring!Lock, Ring!Unlock, Ring!Step
      <4>2. CASE Ring!Put(t) \/ Ring!TakeOut(t) \/ Ring!Count(t)
        BY <4>2, <1>t DEF Ring!Put, Ring!TakeOut, Ring!Count, Ring!Step
      <4>3. CASE Ring!Ends(t) \/ Ring!WaitForSlot(t) \/ Ring!WaitForItem(t)
        <5>1. mutex' = mutex /\ pc[t] = "loop"
          BY <4>3 DEF Ring!Ends, Ring!WaitForSlot, Ring!WaitForItem, Ring!Step
        <5> QED
          BY <5>1, <1>t DEF Ring!Holder, Ring!Nobody, Ring!Threads, Ring!Producers, Ring!Consumers
      <4> QED
        BY <1>1, <4>1, <4>2, <4>3
    <3>2. mutex' # t /\ mutex' = mutex /\ mutex \in Ring!Threads => pc'[mutex] = pc[mutex]
      BY <2>1, <1>t
    <3> QED
      BY <3>1, <3>2, <1>t DEF Ring!Holder
  <2> QED
    BY <2>2, <2>3
<1>2. CASE Ring!Post(t)
  <2>1. /\ todo' = [todo EXCEPT ![t] = @ - 1] /\ pc' = [pc EXCEPT ![t] = "loop"]
        /\ pc[t] = "unlocked" /\ mutex' = mutex
    BY <1>2 DEF Ring!Post, Ring!Step
  <2>2. Ring!Turns'
    <3> SUFFICES ASSUME NEW u \in Ring!Threads
                 PROVE  /\ todo'[u] \in 0 .. TotalItems
                        /\ IF pc'[u] = "ended" THEN todo'[u] = 0 ELSE pc'[u] = "loop" \/ todo'[u] > 0
      BY DEF Ring!Turns
    <3>1. /\ todo[u] \in 0 .. TotalItems
          /\ IF pc[u] = "ended" THEN todo[u] = 0 ELSE pc[u] = "loop" \/ todo[u] > 0
      BY DEF Ring!Turns
    <3>2. CASE u = t
      BY <3>1, <3>2, <2>1, <1>t
    <3>3. CASE u # t
      BY <3>1, <3>3, <2>1, <1>t
    <3> QED
      BY <3>2, <3>3
  <2>3. Ring!Holder'
    BY <2>1, <1>t DEF Ring!Holder
  <2> QED
    BY <2>2, <2>3
<1> QED
  BY <1>1, <1>2

(* A put or a take uses up one of its thread's turns, and nothing else     *)
(* does.                                                                   *)
LEMMA RingSharedStep ==
  ASSUME Ring!BufferAssumption, Ring!TypeOK, Ring!Turns, Ring!AllShared, Ring!Next
  PROVE  Ring!AllShared'
<1> SUFFICES ASSUME NEW t \in Ring!Threads,
                    \/ Ring!Ends(t) \/ Ring!WaitForSlot(t) \/ Ring!WaitForItem(t) \/ Ring!Lock(t)
                    \/ Ring!Put(t) \/ Ring!TakeOut(t) \/ Ring!Count(t) \/ Ring!Unlock(t) \/ Ring!Post(t)
             PROVE  Ring!AllShared'
  BY DEF Ring!Next
<1> DEFINE LP == Ring!Left(Ring!Producers)  LC == Ring!Left(Ring!Consumers)
<1>t. /\ pc \in [Ring!Threads -> {"loop", "waited", "locked", "counting", "counted", "unlocked", "ended"}]
      /\ todo \in [Ring!Threads -> Int] /\ TotalItems \in Nat
      /\ put \in Seq(Ring!Item) /\ taken \in Seq(Ring!Item)
  BY DEF Ring!TypeOK, Ring!BufferAssumption
<1>d. Ring!Producers \cap Ring!Consumers = {} /\ Ring!Threads = Ring!Producers \cup Ring!Consumers
  BY FewThreads DEF Ring!Threads
<1>s. Len(put) + Cardinality(LP) = TotalItems /\ Len(taken) + Cardinality(LC) = TotalItems
  BY SameCardinality DEF Ring!AllShared
<1>g. SUFFICES /\ Len(put') + Cardinality(LP') = TotalItems
               /\ Len(taken') + Cardinality(LC') = TotalItems
  BY SameCardinality DEF Ring!AllShared
<1>f. /\ IsFiniteSet(LP') /\ IsFiniteSet(LC') /\ IsFiniteSet(LP) /\ IsFiniteSet(LC)
      /\ Cardinality(LP) \in Nat /\ Cardinality(LC) \in Nat
  BY LeftIsFinite
<1>1. CASE \/ Ring!Ends(t) \/ Ring!WaitForSlot(t) \/ Ring!WaitForItem(t) \/ Ring!Lock(t)
           \/ Ring!Count(t) \/ Ring!Unlock(t) \/ Ring!Post(t)
  <2>1. put' = put /\ taken' = taken
    BY <1>1 DEF Ring!Ends, Ring!WaitForSlot, Ring!WaitForItem, Ring!Lock, Ring!Count, Ring!Unlock,
       Ring!Post
  <2>2. /\ \/ pc[t] \in {"counting", "counted", "unlocked"} /\ Ring!Post(t)
           \/ ~Ring!Post(t) /\ todo' = todo
        /\ pc' = [pc EXCEPT ![t] = pc'[t]]
        /\ ~Ring!Post(t) => (pc[t] \in {"counting", "counted", "unlocked"}
                               <=> pc'[t] \in {"counting", "counted", "unlocked"})
        /\ Ring!Post(t) => pc'[t] = "loop" /\ todo' = [todo EXCEPT ![t] = @ - 1]
    <3>1. CASE Ring!Post(t)
      BY <3>1, <1>t DEF Ring!Post, Ring!Step
    <3>2. CASE Ring!Count(t) \/ Ring!Unlock(t) \/ Ring!Lock(t)
      BY <3>2, <1>t DEF Ring!Count, Ring!Unlock, Ring!Lock, Ring!Post, Ring!Step
    <3>3. CASE Ring!Ends(t) \/ Ring!WaitForSlot(t) \/ Ring!WaitForItem(t)
      BY <3>3, <1>t DEF Ring!Ends, Ring!WaitForSlot, Ring!WaitForItem, Ring!Post, Ring!Step
    <3> QED
      BY <1>1, <3>1, <3>2, <3>3
  <2>3. ASSUME NEW u \in Ring!Threads
        PROVE  Ring!Remaining(u)' = Ring!Remaining(u)
    <3>1. CASE u # t
      BY <3>1, <2>2, <1>t DEF Ring!Remaining
    <3>2. CASE u = t
      BY <3>2, <2>2, <1>t DEF Ring!Remaining
    <3> QED
      BY <3>1, <3>2
  <2>4. LP' = LP /\ LC' = LC
    BY <2>3, <1>d DEF Ring!Left
  <2> QED
    BY <2>1, <2>4, <1>s
<1>2. CASE Ring!Put(t)
  <2>1. /\ t \in Ring!Producers /\ todo' = todo /\ pc[t] = "locked"
        /\ pc' = [pc EXCEPT ![t] = "counting"] /\ taken' = taken
        /\ Len(put') = Len(put) + 1
    BY <1>2, <1>t DEF Ring!Put, Ring!Step
  <2>2. ASSUME NEW u \in Ring!Threads, u # t
        PROVE  Ring!Remaining(u)' = Ring!Remaining(u)
    BY <2>1, <2>2, <1>t DEF Ring!Remaining
  <2>3. /\ Ring!Remaining(t) = todo[t] /\ Ring!Remaining(t)' = todo[t] - 1
        /\ todo[t] \in 1 .. TotalItems
    <3>1. todo[t] \in 0 .. TotalItems /\ todo[t] > 0 /\ todo[t] \in Int
      BY <2>1, <1>t DEF Ring!Turns
    <3>2. todo[t] \in 1 .. TotalItems
      BY <3>1, <1>t
    <3>3. pc[t] = "locked" /\ pc'[t] = "counting" /\ todo'[t] = todo[t]
      BY <2>1, <1>t
    <3> QED
      BY <3>1, <3>2, <3>3 DEF Ring!Remaining
  <2>4. LC' = LC
    BY <2>1, <2>2, <1>d DEF Ring!Left
  <2>5. <<t, todo[t]>> \notin LP' /\ LP = LP' \cup {<<t, todo[t]>>}
    BY <2>1, <2>2, <2>3, <1>d DEF Ring!Left
  <2>6. Cardinality(LP) = Cardinality(LP') + 1 /\ Cardinality(LP') \in Nat
    BY <2>5, <1>f, CountOne
  <2>7. Len(put) \in Nat
    BY <1>t
  <2>8. Cardinality(LC') = Cardinality(LC)
    BY <2>4
  <2> HIDE DEF LP, LC
  <2> QED
    BY <2>1, <2>6, <2>7, <2>8, <1>s
<1>3. CASE Ring!TakeOut(t)
  <2>1. /\ t \in Ring!Consumers /\ todo' = todo /\ pc[t] = "locked"
        /\ pc' = [pc EXCEPT ![t] = "counting"] /\ put' = put
        /\ taken' = Append(taken, buffer[out])
    BY <1>3, <1>t DEF Ring!TakeOut, Ring!Step
  <2>2. ASSUME NEW u \in Ring!Threads, u # t
        PROVE  Ring!Remaining(u)' = Ring!Remaining(u)
    BY <2>1, <2>2, <1>t DEF Ring!Remaining
  <2>3. /\ Ring!Remaining(t) = todo[t] /\ Ring!Remaining(t)' = todo[t] - 1
        /\ todo[t] \in 1 .. TotalItems
    <3>1. todo[t] \in 0 .. TotalItems /\ todo[t] > 0 /\ todo[t] \in Int
      BY <2>1, <1>t DEF Ring!Turns
    <3>2. todo[t] \in 1 .. TotalItems
      BY <3>1, <1>t
    <3>3. pc[t] = "locked" /\ pc'[t] = "counting" /\ todo'[t] = todo[t]
      BY <2>1, <1>t
    <3> QED
      BY <3>1, <3>2, <3>3 DEF Ring!Remaining
  <2>4. LP' = LP
    BY <2>1, <2>2, <1>d DEF Ring!Left
  <2>5. <<t, todo[t]>> \notin LC' /\ LC = LC' \cup {<<t, todo[t]>>}
    BY <2>1, <2>2, <2>3, <1>d DEF Ring!Left
  <2>6. Cardinality(LC) = Cardinality(LC') + 1 /\ Cardinality(LC') \in Nat
    BY <2>5, <1>f, CountOne
  <2>7. Len(taken) \in Nat /\ Len(taken') = Len(taken) + 1
    BY <2>1, <1>t
  <2>8. Cardinality(LP') = Cardinality(LP)
    BY <2>4
  <2> HIDE DEF LP, LC
  <2> QED
    BY <2>1, <2>6, <2>7, <2>8, <1>s
<1> QED
  BY <1>1, <1>2, <1>3

(* The totals are behind by the threads that have put or taken something   *)
(* and not counted it.                                                     *)
LEMMA RingTotalsStep ==
  ASSUME Ring!BufferAssumption, Ring!TypeOK, Ring!Totals, Ring!Next
  PROVE  Ring!Totals'
<1> SUFFICES ASSUME NEW t \in Ring!Threads,
                    \/ Ring!Ends(t) \/ Ring!WaitForSlot(t) \/ Ring!WaitForItem(t) \/ Ring!Lock(t)
                    \/ Ring!Put(t) \/ Ring!TakeOut(t) \/ Ring!Count(t) \/ Ring!Unlock(t) \/ Ring!Post(t)
             PROVE  Ring!Totals'
  BY DEF Ring!Next
<1> DEFINE UP == Ring!Uncounted(Ring!Producers)  UC == Ring!Uncounted(Ring!Consumers)
<1>t. /\ pc \in [Ring!Threads -> {"loop", "waited", "locked", "counting", "counted", "unlocked", "ended"}]
      /\ total_produced \in Nat /\ total_consumed \in Nat
      /\ put \in Seq(Ring!Item) /\ taken \in Seq(Ring!Item)
  BY DEF Ring!TypeOK
<1>n. /\ total_produced \in Nat /\ total_consumed \in Nat
      /\ Len(put) \in Nat /\ Len(taken) \in Nat
  BY <1>t
<1>d. Ring!Producers \cap Ring!Consumers = {} /\ Ring!Threads = Ring!Producers \cup Ring!Consumers
  BY FewThreads DEF Ring!Threads
<1>s. total_produced + Cardinality(UP) = Len(put) /\ total_consumed + Cardinality(UC) = Len(taken)
  BY SameCardinality DEF Ring!Totals
<1>g. SUFFICES /\ total_produced' + Cardinality(UP') = Len(put')
               /\ total_consumed' + Cardinality(UC') = Len(taken')
  BY SameCardinality DEF Ring!Totals
<1>f. /\ IsFiniteSet(UP') /\ IsFiniteSet(UC') /\ IsFiniteSet(UP) /\ IsFiniteSet(UC)
      /\ Cardinality(UP) \in Nat /\ Cardinality(UC) \in Nat
  BY UncountedIsFinite
<1>1. CASE \/ Ring!Ends(t) \/ Ring!WaitForSlot(t) \/ Ring!WaitForItem(t) \/ Ring!Lock(t)
           \/ Ring!Unlock(t) \/ Ring!Post(t)
  <2>1. /\ put' = put /\ taken' = taken
        /\ total_produced' = total_produced /\ total_consumed' = total_consumed
        /\ pc' = [pc EXCEPT ![t] = pc'[t]] /\ pc[t] # "counting" /\ pc'[t] # "counting"
    BY <1>1, <1>t DEF Ring!Ends, Ring!WaitForSlot, Ring!WaitForItem, Ring!Lock, Ring!Unlock,
       Ring!Post, Ring!Step, Ring!stats
  <2>2. UP' = UP /\ UC' = UC
    BY <2>1, <1>t, <1>d DEF Ring!Uncounted
  <2> QED
    BY <2>1, <2>2, <1>s
<1>2. CASE Ring!Put(t)
  <2>1. /\ t \in Ring!Producers /\ pc[t] = "locked" /\ pc' = [pc EXCEPT ![t] = "counting"]
        /\ total_produced' = total_produced /\ total_consumed' = total_consumed
        /\ taken' = taken /\ Len(put') = Len(put) + 1
    BY <1>2, <1>t DEF Ring!Put, Ring!Step, Ring!stats
  <2>2. t \notin UP /\ UP' = UP \cup {t} /\ UC' = UC
    BY <2>1, <1>t, <1>d DEF Ring!Uncounted
  <2>3. Cardinality(UP') = Cardinality(UP) + 1 /\ Cardinality(UC') = Cardinality(UC)
    BY <2>2, <1>f, CountOne
  <2>4. Len(taken') = Len(taken) /\ Len(put') \in Nat
    BY <2>1, <1>n
  <2> HIDE DEF UP, UC
  <2>5. total_produced' + Cardinality(UP') = Len(put')
    <3>1. total_produced + (Cardinality(UP) + 1) = Len(put) + 1
      BY <1>s, <1>n, <1>f
    <3> QED
      BY <2>1, <2>3, <3>1, Zenon
  <2>6. total_consumed' + Cardinality(UC') = Len(taken')
    BY <2>1, <2>3, <2>4, <1>s
  <2> QED
    BY <2>5, <2>6
<1>3. CASE Ring!TakeOut(t)
  <2>1. /\ t \in Ring!Consumers /\ pc[t] = "locked" /\ pc' = [pc EXCEPT ![t] = "counting"]
        /\ total_produced' = total_produced /\ total_consumed' = total_consumed
        /\ put' = put /\ Len(taken') = Len(taken) + 1
    BY <1>3, <1>t DEF Ring!TakeOut, Ring!Step, Ring!stats
  <2>2. t \notin UC /\ UC' = UC \cup {t} /\ UP' = UP
    BY <2>1, <1>t, <1>d DEF Ring!Uncounted
  <2>3. Cardinality(UC') = Cardinality(UC) + 1 /\ Cardinality(UP') = Cardinality(UP)
    BY <2>2, <1>f, CountOne
  <2>4. Len(put') = Len(put) /\ Len(taken') \in Nat
    BY <2>1, <1>n
  <2> HIDE DEF UP, UC
  <2>5. total_consumed' + Cardinality(UC') = Len(taken')
    <3>1. total_consumed + (Cardinality(UC) + 1) = Len(taken) + 1
      BY <1>s, <1>n, <1>f, SMTT(60)
    <3> QED
      BY <2>1, <2>3, <3>1, Zenon
  <2>6. total_produced' + Cardinality(UP') = Len(put')
    BY <2>1, <2>3, <2>4, <1>s
  <2> QED
    BY <2>5, <2>6
<1>4. CASE Ring!Count(t) /\ t \in Ring!Producers
  <2>1. /\ pc[t] = "counting" /\ pc' = [pc EXCEPT ![t] = "counted"]
        /\ total_produced' = total_produced + 1 /\ total_consumed' = total_consumed
        /\ put' = put /\ taken' = taken
    BY <1>4 DEF Ring!Count, Ring!Step
  <2>2. t \notin UP' /\ UP = UP' \cup {t} /\ UC' = UC
    BY <1>4, <2>1, <1>t, <1>d DEF Ring!Uncounted
  <2>3. /\ Cardinality(UP) = Cardinality(UP') + 1 /\ Cardinality(UP') \in Nat
        /\ Cardinality(UC') = Cardinality(UC)
    BY <2>2, <1>f, CountOne
  <2> HIDE DEF UP, UC
  <2> QED
    BY <2>1, <2>3, <1>s, <1>n, <1>f
<1>5. CASE Ring!Count(t) /\ t \in Ring!Consumers
  <2>1. /\ pc[t] = "counting" /\ pc' = [pc EXCEPT ![t] = "counted"]
        /\ total_consumed' = total_consumed + 1 /\ total_produced' = total_produced
        /\ put' = put /\ taken' = taken
    BY <1>5, <1>d DEF Ring!Count, Ring!Step
  <2>2. t \notin UC' /\ UC = UC' \cup {t} /\ UP' = UP
    BY <1>5, <2>1, <1>t, <1>d DEF Ring!Uncounted
  <2>3. /\ Cardinality(UC) = Cardinality(UC') + 1 /\ Cardinality(UC') \in Nat
        /\ Cardinality(UP') = Cardinality(UP)
    BY <2>2, <1>f, CountOne
  <2> HIDE DEF UP, UC
  <2> QED
    BY <2>1, <2>3, <1>s, <1>n, <1>f
<1> QED
  BY <1>1, <1>2, <1>3, <1>4, <1>5, <1>d

(* The ring starts empty, with every slot free and every turn to come.     *)
LEMMA RingInit ==
  ASSUME Ring!BufferAssumption, Ring!Init
  PROVE  Ring!IInv
<1>1. Ring!TypeOK
  BY ItemsInRange DEF Ring!TypeOK, Ring!Init, Ring!Item, Ring!Nobody, Ring!BufferAssumption,
     Ring!ring, Ring!stats
<1>2. /\ Ring!Before(Ring!Producers) = {} /\ Ring!Before(Ring!Consumers) = {}
      /\ Ring!Behind(Ring!Producers) = {} /\ Ring!Behind(Ring!Consumers) = {}
      /\ Ring!Uncounted(Ring!Producers) = {} /\ Ring!Uncounted(Ring!Consumers) = {}
  BY DEF Ring!Init, Ring!Before, Ring!Behind, Ring!Uncounted, Ring!Threads
<1>3. Len(put) = 0 /\ Len(taken) = 0 /\ Size \in Nat \ {0}
  BY DEF Ring!Init, Ring!BufferAssumption
<1>4. Ring!SlotsKept /\ Ring!ItemsKept
  BY <1>2, <1>3, FS_EmptySet, SameCardinality DEF Ring!SlotsKept, Ring!ItemsKept, Ring!Init
<1>5. 0 % Size = 0
  BY <1>3
<1>6. Ring!Indices /\ Ring!BufferIsFifo
  BY <1>3, <1>5 DEF Ring!Indices, Ring!BufferIsFifo, Ring!Init
<1>7. Ring!Turns
  <2>1. TotalItems \in Nat
    BY DEF Ring!BufferAssumption
  <2> QED
    BY <2>1, ItemsInRange DEF Ring!Init, Ring!Turns
<1>8. Ring!Totals /\ Ring!Holder
  <2>1. total_produced = 0 /\ total_consumed = 0 /\ mutex = Ring!Nobody
    BY DEF Ring!Init
  <2> QED
    BY <2>1, <1>2, <1>3, FS_EmptySet, SameCardinality DEF Ring!Totals, Ring!Holder
<1>9. Ring!AllShared
  <2>1. /\ NumProducers \in Nat \ {0} /\ NumConsumers \in Nat \ {0} /\ TotalItems \in Nat
        /\ Ring!Producers \cap Ring!Consumers = {}
    BY FewThreads DEF Ring!BufferAssumption
  <2>2. ASSUME NEW t \in Ring!Threads
        PROVE  Ring!Remaining(t) = Ring!Items(t)
    BY ItemsInRange DEF Ring!Init, Ring!Remaining
  <2>3. Ring!Left(Ring!Producers) = TurnsOf("producer", NumProducers, TotalItems)
    <3>1. ASSUME NEW t \in Ring!Producers
          PROVE  Ring!Remaining(t) = TotalItems \div NumProducers
                                       + (IF t[2] < TotalItems % NumProducers THEN 1 ELSE 0)
      BY <2>2 DEF Ring!Items, Ring!Share, Ring!Threads
    <3> QED
      BY <3>1 DEF Ring!Left, Ring!Producers, TurnsOf
  <2>4. Ring!Left(Ring!Consumers) = TurnsOf("consumer", NumConsumers, TotalItems)
    <3>1. ASSUME NEW t \in Ring!Consumers
          PROVE  Ring!Remaining(t) = TotalItems \div NumConsumers
                                       + (IF t[2] < TotalItems % NumConsumers THEN 1 ELSE 0)
      <4>1. t \in Ring!Threads /\ t \notin Ring!Producers
        BY <2>1 DEF Ring!Threads
      <4> QED
        BY <4>1, <2>2 DEF Ring!Items, Ring!Share
    <3> QED
      BY <3>1 DEF Ring!Left, Ring!Consumers, TurnsOf
  <2>5. Cardinality(Ring!Left(Ring!Producers)) = TotalItems
    BY <2>1, <2>3, TurnsAreItems
  <2>6. Cardinality(Ring!Left(Ring!Consumers)) = TotalItems
    BY <2>1, <2>4, TurnsAreItems
  <2> QED
    BY <2>1, <2>5, <2>6, <1>3, SameCardinality DEF Ring!AllShared
<1> QED
  BY <1>1, <1>4, <1>6, <1>7, <1>8, <1>9 DEF Ring!IInv

(* The ring's invariant is inductive.                                      *)
LEMMA RingStep ==
  ASSUME Ring!BufferAssumption, Ring!IInv, [Ring!Next]_Ring!vars
  PROVE  Ring!IInv'
<1>1. CASE Ring!Next
  <2>1. Ring!TypeOK' /\ Ring!SlotsKept' /\ Ring!ItemsKept' /\ Ring!Indices' /\ Ring!BufferIsFifo'
    BY <1>1, RingTypeStep, RingKeptStep, RingFifoStep DEF Ring!IInv
  <2>2. Ring!Turns' /\ Ring!AllShared' /\ Ring!Totals' /\ Ring!Holder'
    BY <1>1, RingTurnsStep, RingSharedStep, RingTotalsStep DEF Ring!IInv
  <2> QED
    BY <2>1, <2>2 DEF Ring!IInv
<1>2. CASE UNCHANGED Ring!vars
  <2>1. Ring!TypeOK' /\ Ring!SlotsKept' /\ Ring!ItemsKept' /\ Ring!Indices' /\ Ring!BufferIsFifo'
    BY <1>2 DEF Ring!vars, Ring!ring, Ring!stats, Ring!IInv, Ring!TypeOK, Ring!SlotsKept,
       Ring!ItemsKept, Ring!Indices, Ring!BufferIsFifo, Ring!Before, Ring!Behind, Ring!Threads
  <2>2. Ring!Turns' /\ Ring!AllShared' /\ Ring!Totals' /\ Ring!Holder'
    BY <1>2 DEF Ring!vars, Ring!ring, Ring!stats, Ring!IInv, Ring!Turns, Ring!AllShared,
       Ring!Totals, Ring!Holder, Ring!Left, Ring!Remaining, Ring!Uncounted
  <2> QED
    BY <2>1, <2>2 DEF Ring!IInv
<1> QED
  BY <1>1, <1>2

(* Were every thread waiting or at its end, a waiting producer would mean  *)
(* that the consumers are through with more items than there are yet, and  *)
(* a waiting consumer that the producers have made fewer than there are.   *)
LEMMA JoinsDoReturn ==
  ASSUME Ring!BufferAssumption, Ring!IInv
  PROVE  Ring!JoinsReturn
<1> USE DEF Ring!IInv
<1> SUFFICES ASSUME \A t \in Ring!Threads : pc[t] = "ended" \/ Ring!Waits(t)
             PROVE  /\ Ring!AllEnded /\ count = 0
                    /\ total_produced = TotalItems /\ total_consumed = TotalItems
  BY DEF Ring!JoinsReturn
<1>t. /\ pc \in [Ring!Threads -> {"loop", "waited", "locked", "counting", "counted", "unlocked", "ended"}]
      /\ todo \in [Ring!Threads -> Int] /\ mutex \in Ring!Threads \cup {Ring!Nobody}
      /\ slots \in Nat /\ items \in Nat /\ TotalItems \in Nat /\ Size \in Nat \ {0}
      /\ total_produced \in Nat /\ total_consumed \in Nat
      /\ Len(put) \in Nat /\ Len(taken) \in Nat
  BY DEF Ring!TypeOK, Ring!BufferAssumption
<1>d. Ring!Producers \cap Ring!Consumers = {} /\ Ring!Threads = Ring!Producers \cup Ring!Consumers
  BY FewThreads DEF Ring!Threads
<1>1. mutex = Ring!Nobody
  BY <1>t DEF Ring!Holder, Ring!Waits
<1>2. ASSUME NEW t \in Ring!Threads
      PROVE  \/ pc[t] = "ended" /\ todo[t] = 0
             \/ /\ pc[t] = "loop" /\ todo[t] \in 1 .. TotalItems
                /\ (IF t \in Ring!Producers THEN slots ELSE items) = 0
  BY <1>1, <1>t DEF Ring!Waits, Ring!Turns
<1>3. /\ Ring!Before(Ring!Producers) = {} /\ Ring!Before(Ring!Consumers) = {}
      /\ Ring!Behind(Ring!Producers) = {} /\ Ring!Behind(Ring!Consumers) = {}
      /\ Ring!Uncounted(Ring!Producers) = {} /\ Ring!Uncounted(Ring!Consumers) = {}
  BY <1>2, <1>d DEF Ring!Before, Ring!Behind, Ring!Uncounted
<1>4. Len(put) - Len(taken) = items /\ Size = slots + (Len(put) - Len(taken))
  BY <1>3, <1>t, FS_EmptySet, SameCardinality DEF Ring!SlotsKept, Ring!ItemsKept
<1>5. total_produced = Len(put) /\ total_consumed = Len(taken)
  BY <1>3, <1>t, FS_EmptySet, SameCardinality DEF Ring!Totals
<1>6. /\ Len(put) + Cardinality(Ring!Left(Ring!Producers)) = TotalItems
      /\ Len(taken) + Cardinality(Ring!Left(Ring!Consumers)) = TotalItems
      /\ Cardinality(Ring!Left(Ring!Producers)) \in Nat
      /\ Cardinality(Ring!Left(Ring!Consumers)) \in Nat
      /\ IsFiniteSet(Ring!Left(Ring!Producers)) /\ IsFiniteSet(Ring!Left(Ring!Consumers))
  BY SameCardinality, LeftIsFinite DEF Ring!AllShared
<1>7. ASSUME NEW t \in Ring!Threads, pc[t] = "loop"
      PROVE  /\ t \in Ring!Producers => Cardinality(Ring!Left(Ring!Producers)) # 0
             /\ t \in Ring!Consumers => Cardinality(Ring!Left(Ring!Consumers)) # 0
  <2>1. todo[t] \in 1 .. TotalItems /\ Ring!Remaining(t) = todo[t]
    BY <1>7, <1>2 DEF Ring!Remaining
  <2>2. /\ t \in Ring!Producers => <<t, todo[t]>> \in Ring!Left(Ring!Producers)
        /\ t \in Ring!Consumers => <<t, todo[t]>> \in Ring!Left(Ring!Consumers)
    BY <2>1, <1>t DEF Ring!Left
  <2> QED
    BY <2>2, <1>6, FS_EmptySet
<1>8. ASSUME NEW threads, threads = Ring!Producers \/ threads = Ring!Consumers,
             \A t \in threads : pc[t] = "ended"
      PROVE  Cardinality(Ring!Left(threads)) = 0
  <2>1. ASSUME NEW t \in threads
        PROVE  Ring!Remaining(t) = 0
    BY <1>2, <1>8, <1>d DEF Ring!Remaining
  <2>2. Ring!Left(threads) = {}
    BY <2>1 DEF Ring!Left
  <2> QED
    BY <2>2, FS_EmptySet
<1>9. ASSUME NEW t \in Ring!Producers, pc[t] = "loop"
      PROVE  FALSE
  <2>1. slots = 0 /\ Cardinality(Ring!Left(Ring!Producers)) # 0
    BY <1>2, <1>7, <1>9, <1>d
  <2>2. items # 0
    BY <2>1, <1>4, <1>t
  <2>3. \A u \in Ring!Consumers : pc[u] = "ended"
    BY <2>2, <1>2, <1>d
  <2>4. Len(taken) = TotalItems
    BY <2>3, <1>8, <1>6, <1>t
  <2>5. Len(put) < TotalItems
    BY <2>1, <1>6, <1>t
  <2> QED
    BY <2>4, <2>5, <1>4, <1>t
<1>10. \A t \in Ring!Producers : pc[t] = "ended"
  BY <1>9, <1>2, <1>d
<1>11. Len(put) = TotalItems
  BY <1>10, <1>8, <1>6, <1>t
<1>12. ASSUME NEW t \in Ring!Consumers, pc[t] = "loop"
       PROVE  FALSE
  <2>1. items = 0 /\ Cardinality(Ring!Left(Ring!Consumers)) # 0
    BY <1>2, <1>7, <1>12, <1>d
  <2>2. Len(taken) = Len(put)
    BY <2>1, <1>4, <1>t
  <2> QED
    BY <2>1, <2>2, <1>11, <1>6, <1>t
<1>13. \A t \in Ring!Consumers : pc[t] = "ended"
  BY <1>12, <1>2, <1>d
<1>14. Len(taken) = TotalItems
  BY <1>13, <1>8, <1>6, <1>t
<1>15. count = 0
  <2>1. count = Len(put) - Len(taken)
    BY DEF Ring!BufferIsFifo
  <2> QED
    BY <2>1, <1>11, <1>14, <1>t
<1> QED
  BY <1>5, <1>10, <1>11, <1>13, <1>14, <1>15, <1>d DEF Ring!AllEnded

-----------------------------------------------------------------------------
(* What is left of the sessions when one of them changes.                  *)
LEMMA SessionChanged ==
  ASSUME Crawl!TypeOK, NEW s \in 1 .. Len(sessions), NEW v \in Crawl!Session,
         v.url = sessions[s].url, sessions' = [sessions EXCEPT ![s] = v]
  PROVE  /\ sessions' \in Seq(Crawl!Session) /\ Len(sessions') = Len(sessions)
         /\ sessions'[s] = v
         /\ \A t \in 1 .. Len(sessions) : t # s => sessions'[t] = sessions[t]
         /\ \A t \in 1 .. Len(sessions) : sessions'[t].url = sessions[t].url
BY DEF Crawl!TypeOK

(* What a session is, and the links of its page.                           *)
LEMMA Sessions ==
  ASSUME Crawl!CrawlerAssumption, Crawl!TypeOK, NEW s \in 1 .. Len(sessions)
  PROVE  /\ sessions[s] \in Crawl!Session /\ Crawl!Page(s) \in Pages
         /\ links[Crawl!Page(s)] \in Seq(Crawl!Link)
         /\ sessions[s].url = Crawl!Url(Crawl!Page(s))
<1>1. sessions[s] \in Crawl!Session
  BY DEF Crawl!TypeOK
<1>2. /\ sessions[s].url \in Crawl!Urls /\ Crawl!Page(s) \in Pages
      /\ sessions[s].url = Crawl!Url(Crawl!Page(s))
  BY <1>1 DEF Crawl!Session, Crawl!Urls, Crawl!Page, Crawl!Url
<1>3. links[Crawl!Page(s)] \in LinkLists
  BY <1>2 DEF Crawl!TypeOK
<1> QED
  BY <1>1, <1>2, <1>3 DEF Crawl!CrawlerAssumption

(* The stages of a fetch before its callback.                              *)
Advance(s) == Crawl!Resolved(s) \/ Crawl!Connected(s) \/ Crawl!HandshakeDone(s) \/ Crawl!Written(s)

(* They change the stage only, of a fetch in flight.                       *)
LEMMA AdvanceMoves ==
  ASSUME Crawl!CrawlerAssumption, Crawl!TypeOK, NEW s \in 1 .. Len(sessions), Advance(s)
  PROVE  \E reached \in {"connecting", "handshaking", "writing", "reading"} :
           /\ sessions' = [sessions EXCEPT ![s] = [sessions[s] EXCEPT !.stage = reached]]
           /\ Crawl!InFlight(s) /\ UNCHANGED <<links, seen, posted, stored>>
<1>1. ASSUME NEW reached, Crawl!Go(s, reached)
      PROVE  sessions' = [sessions EXCEPT ![s] = [sessions[s] EXCEPT !.stage = reached]]
  BY <1>1 DEF Crawl!Go
<1> QED
  BY <1>1 DEF Advance, Crawl!Resolved, Crawl!Connected, Crawl!HandshakeDone, Crawl!Written,
     Crawl!At, Crawl!InFlight, Crawl!Unchanged

(* A callback is counted and ends the fetch.                               *)
LEMMA CallbackMoves ==
  ASSUME Crawl!CrawlerAssumption, Crawl!TypeOK, NEW s \in 1 .. Len(sessions),
         NEW reached \in Crawl!Stages,
         NEW rest \in Seq(Crawl!Link), Crawl!Callback(s, reached, rest)
  PROVE  \E v \in Crawl!Session :
           /\ sessions' = [sessions EXCEPT ![s] = v]
           /\ v.url = sessions[s].url /\ v.stage = reached /\ v.calls = sessions[s].calls + 1
           /\ v.todo = rest /\ v.scheduled = sessions[s].scheduled
<1> DEFINE v == [sessions[s] EXCEPT !.stage = reached, !.calls = @ + 1, !.todo = rest]
<1>1. sessions[s] \in Crawl!Session /\ sessions[s].calls + 1 \in Nat
  BY Sessions DEF Crawl!Session
<1>2. /\ v \in Crawl!Session /\ v.url = sessions[s].url /\ v.stage = reached
      /\ v.calls = sessions[s].calls + 1
      /\ v.todo = rest /\ v.scheduled = sessions[s].scheduled
  <2> DEFINE calls == sessions[s].calls + 1
  <2>1. v = [sessions[s] EXCEPT !.stage = reached, !.calls = calls, !.todo = rest]
    OBVIOUS
  <2>2. calls \in Nat
    BY <1>1
  <2> HIDE DEF v, calls
  <2>3. /\ v \in Crawl!Session /\ v.url = sessions[s].url /\ v.stage = reached /\ v.calls = calls
        /\ v.todo = rest /\ v.scheduled = sessions[s].scheduled
    BY <1>1, <2>1, <2>2 DEF Crawl!Session
  <2> QED
    BY <2>3 DEF calls
<1>3. sessions' = [sessions EXCEPT ![s] = v]
  BY DEF Crawl!Callback
<1> QED
  BY <1>2, <1>3

(* A callback goes on to its next link.                                    *)
LEMMA NextLinkMoves ==
  ASSUME Crawl!CrawlerAssumption, Crawl!TypeOK, NEW s \in 1 .. Len(sessions), Crawl!Looping(s),
         NEW n \in {0, 1}, Crawl!NextLink(s, n)
  PROVE  \E v \in Crawl!Session :
           /\ sessions' = [sessions EXCEPT ![s] = v]
           /\ v.url = sessions[s].url /\ v.stage = "linking" /\ v.calls = sessions[s].calls
           /\ v.todo = Tail(sessions[s].todo) /\ v.scheduled = sessions[s].scheduled + n
           /\ sessions[s].todo # <<>>
<1> DEFINE v == [sessions[s] EXCEPT !.todo = Tail(@), !.scheduled = @ + n]
<1>1. sessions[s] \in Crawl!Session /\ sessions[s].todo # <<>> /\ sessions[s].stage = "linking"
  BY Sessions DEF Crawl!Looping, Crawl!LinksLeft, Crawl!At
<1>2. Tail(sessions[s].todo) \in Seq(Crawl!Link) /\ sessions[s].scheduled + n \in Nat
  BY <1>1 DEF Crawl!Session
<1>3. /\ v \in Crawl!Session /\ v.url = sessions[s].url /\ v.stage = "linking"
      /\ v.calls = sessions[s].calls
      /\ v.todo = Tail(sessions[s].todo) /\ v.scheduled = sessions[s].scheduled + n
  <2> DEFINE rest == Tail(sessions[s].todo)  scheduled == sessions[s].scheduled + n
  <2>1. v = [sessions[s] EXCEPT !.todo = rest, !.scheduled = scheduled]
    OBVIOUS
  <2>2. rest \in Seq(Crawl!Link) /\ scheduled \in Nat
    BY <1>2
  <2> HIDE DEF v, rest, scheduled
  <2>3. /\ v \in Crawl!Session /\ v.url = sessions[s].url /\ v.stage = "linking"
        /\ v.calls = sessions[s].calls
        /\ v.todo = rest /\ v.scheduled = scheduled
    BY <1>1, <2>1, <2>2 DEF Crawl!Session
  <2> QED
    BY <2>3 DEF rest, scheduled
<1>4. sessions' = [sessions EXCEPT ![s] = v]
  BY DEF Crawl!NextLink
<1> QED
  BY <1>1, <1>3, <1>4

(* A callback ends at its last link or at the bound.                       *)
LEMMA ReturnMoves ==
  ASSUME Crawl!CrawlerAssumption, Crawl!TypeOK, NEW s \in 1 .. Len(sessions),
         Crawl!CallbackReturns(s)
  PROVE  \E v \in Crawl!Session :
           /\ sessions' = [sessions EXCEPT ![s] = v]
           /\ v.url = sessions[s].url /\ v.stage = "over" /\ v.calls = sessions[s].calls
           /\ v.todo = sessions[s].todo /\ v.scheduled = sessions[s].scheduled
           /\ Crawl!At(s, "linking") /\ ~Crawl!LinksLeft(s)
<1> DEFINE v == [sessions[s] EXCEPT !.stage = "over"]
<1>1. sessions[s] \in Crawl!Session
  BY Sessions
<1>2. /\ v \in Crawl!Session /\ v.url = sessions[s].url /\ v.stage = "over"
      /\ v.calls = sessions[s].calls
      /\ v.todo = sessions[s].todo /\ v.scheduled = sessions[s].scheduled
  BY <1>1 DEF Crawl!Session, Crawl!Stages
<1>3. sessions' = [sessions EXCEPT ![s] = v]
  BY DEF Crawl!CallbackReturns, Crawl!Go
<1> QED
  BY <1>2, <1>3 DEF Crawl!CallbackReturns, Crawl!Looping

(* A step of a fetch or callback changes its session, and not what URL it  *)
(* is for; only FollowLink adds a URL.                                     *)
LEMMA OneSession ==
  ASSUME Crawl!CrawlerAssumption, Crawl!TypeOK, NEW s \in 1 .. Len(sessions),
         Crawl!Fetch(s) \/ Crawl!Schedule(s)
  PROVE  \E v \in Crawl!Session : v.url = sessions[s].url /\ sessions' = [sessions EXCEPT ![s] = v]
<1>1. CASE Advance(s)
  <2>1. PICK reached \in {"connecting", "handshaking", "writing", "reading"} :
          sessions' = [sessions EXCEPT ![s] = [sessions[s] EXCEPT !.stage = reached]]
    BY <1>1, AdvanceMoves
  <2>2. sessions[s] \in Crawl!Session
    BY Sessions
  <2>3. /\ [sessions[s] EXCEPT !.stage = reached] \in Crawl!Session
        /\ [sessions[s] EXCEPT !.stage = reached].url = sessions[s].url
    BY <2>2 DEF Crawl!Session, Crawl!Stages
  <2> QED
    BY <2>1, <2>3
<1>2. CASE Crawl!Fails(s) \/ Crawl!ReadsNothing(s)
  <2>1. Crawl!Callback(s, "over", <<>>)
    BY <1>2 DEF Crawl!Fails, Crawl!ReadsNothing
  <2>2. <<>> \in Seq(Crawl!Link) /\ "over" \in Crawl!Stages
    BY DEF Crawl!Stages
  <2> QED
    BY <2>1, <2>2, CallbackMoves
<1>3. CASE Crawl!ReadsPage(s)
  BY <1>3, CallbackMoves, Sessions DEF Crawl!Stages, Crawl!ReadsPage
<1>4. CASE Crawl!FollowLink(s) \/ Crawl!SkipLink(s)
  <2>1. Crawl!Looping(s) /\ \E n \in {0, 1} : Crawl!NextLink(s, n)
    BY <1>4 DEF Crawl!FollowLink, Crawl!SkipLink
  <2> QED
    BY <2>1, NextLinkMoves
<1>5. CASE Crawl!CallbackReturns(s)
  BY <1>5, ReturnMoves
<1> QED
  BY <1>1, <1>2, <1>3, <1>4, <1>5 DEF Crawl!Fetch, Crawl!Schedule, Advance

(* Every step keeps the types of the crawl's variables.                    *)
LEMMA CrawlTypeStep ==
  ASSUME Crawl!CrawlerAssumption, Crawl!TypeOK, Crawl!EachSeenOnce, Crawl!LinksFollowed, Crawl!Next
  PROVE  Crawl!TypeOK'
<1>1. CASE Crawl!StartFetch
  <2>1. Head(posted) \in Crawl!Urls /\ Tail(posted) \in Seq(Crawl!Urls)
    BY <1>1 DEF Crawl!StartFetch, Crawl!TypeOK
  <2>2. Crawl!NewSession(Head(posted)) \in Crawl!Session
    BY <2>1 DEF Crawl!NewSession, Crawl!Session, Crawl!Stages
  <2> QED
    BY <1>1, <2>1, <2>2 DEF Crawl!StartFetch, Crawl!TypeOK
<1>2. ASSUME NEW s \in 1 .. Len(sessions), Crawl!Fetch(s) \/ Crawl!Schedule(s)
      PROVE  Crawl!TypeOK'
  <2>1. sessions' \in Seq(Crawl!Session)
    BY <1>2, OneSession, SessionChanged
  <2>2. links' = links
    BY <1>2, AdvanceMoves DEF Crawl!Fetch, Crawl!Schedule, Advance, Crawl!Fails,
       Crawl!ReadsNothing, Crawl!ReadsPage, Crawl!FollowLink, Crawl!SkipLink,
       Crawl!CallbackReturns, Crawl!Unchanged
  <2>3. stored' \subseteq Pages
    <3>1. stored' \subseteq stored \cup {Crawl!Page(s)}
      BY <1>2, AdvanceMoves DEF Crawl!Fetch, Crawl!Schedule, Advance, Crawl!Fails,
         Crawl!ReadsNothing, Crawl!ReadsPage, Crawl!FollowLink, Crawl!SkipLink,
         Crawl!CallbackReturns, Crawl!Unchanged
    <3> QED
      BY <3>1, Sessions DEF Crawl!TypeOK
  <2>4. seen' \subseteq Crawl!Urls /\ posted' \in Seq(Crawl!Urls)
    <3>1. CASE Crawl!FollowLink(s)
      <4>1. Crawl!Looping(s)
        BY <3>1 DEF Crawl!FollowLink
      <4>2. sessions[s].todo \in Seq(Crawl!Link) /\ sessions[s].todo # <<>>
        BY <4>1, Sessions DEF Crawl!Looping, Crawl!LinksLeft, Crawl!Session
      <4>3. Head(sessions[s].todo) \in Crawl!Link
        BY <4>2
      <4>4. Crawl!Url(Head(sessions[s].todo).page) \in Crawl!Urls
        BY <4>3 DEF Crawl!Link, Crawl!Url, Crawl!Urls
      <4>5. Crawl!AddUrl(Crawl!Url(Head(sessions[s].todo).page))
        BY <3>1 DEF Crawl!FollowLink
      <4> QED
        BY <4>4, <4>5 DEF Crawl!AddUrl, Crawl!TypeOK
    <3>2. CASE ~Crawl!FollowLink(s)
      <4>1. UNCHANGED <<seen, posted>>
        BY <1>2, <3>2, AdvanceMoves DEF Crawl!Fetch, Crawl!Schedule, Advance, Crawl!Fails,
           Crawl!ReadsNothing, Crawl!ReadsPage, Crawl!SkipLink, Crawl!CallbackReturns,
           Crawl!Unchanged
      <4> QED
        BY <4>1 DEF Crawl!TypeOK
    <3> QED
      BY <3>1, <3>2
  <2> QED
    BY <2>1, <2>2, <2>3, <2>4 DEF Crawl!TypeOK
<1> QED
  BY <1>1, <1>2 DEF Crawl!Next

(* Every step keeps seen what is posted or has been fetched, each once.    *)
LEMMA EachSeenOnceStep ==
  ASSUME Crawl!CrawlerAssumption, Crawl!TypeOK, Crawl!EachSeenOnce, Crawl!Next
  PROVE  Crawl!EachSeenOnce'
<1>0. /\ posted \in Seq(Crawl!Urls) /\ sessions \in Seq(Crawl!Session) /\ Len(posted) \in Nat
      /\ Len(sessions) \in Nat
  BY DEF Crawl!TypeOK
<1>1. CASE Crawl!StartFetch
  <2>1. /\ posted # <<>> /\ posted' = Tail(posted) /\ seen' = seen
        /\ sessions' = Append(sessions, Crawl!NewSession(posted[1]))
    BY <1>0, <1>1 DEF Crawl!StartFetch
  <2>2. Crawl!NewSession(posted[1]).url = posted[1]
    BY DEF Crawl!NewSession
  <2>3. /\ Len(posted) \in Nat \ {0} /\ Len(posted') = Len(posted) - 1
        /\ \A i \in 1 .. Len(posted') : posted'[i] = posted[i + 1] /\ i + 1 \in 1 .. Len(posted)
        /\ 1 \in 1 .. Len(posted)
    BY <1>0, <2>1
  <2>4. /\ Len(sessions') = Len(sessions) + 1 /\ sessions'[Len(sessions) + 1].url = posted[1]
        /\ \A s \in 1 .. Len(sessions) : sessions'[s] = sessions[s]
    BY <1>0, <2>1, <2>2
  <2>5. {posted[i] : i \in 1 .. Len(posted)}
            = {posted[1]} \cup {posted'[i] : i \in 1 .. Len(posted')}
    <3>1. \A i \in 1 .. Len(posted) :
            i = 1 \/ (i - 1 \in 1 .. Len(posted') /\ posted'[i - 1] = posted[i])
      BY <1>0, <2>3
    <3> QED
      BY <3>1, <2>3
  <2>6. {sessions'[s].url : s \in 1 .. Len(sessions')}
            = {posted[1]} \cup {sessions[s].url : s \in 1 .. Len(sessions)}
    BY <1>0, <2>4
  <2>7. seen' = {posted'[i] : i \in 1 .. Len(posted')}
            \cup {sessions'[s].url : s \in 1 .. Len(sessions')}
    <3>1. seen = {posted[i] : i \in 1 .. Len(posted)}
              \cup {sessions[s].url : s \in 1 .. Len(sessions)}
      BY DEF Crawl!EachSeenOnce
    <3>2. seen = ({posted[1]} \cup {posted'[i] : i \in 1 .. Len(posted')})
              \cup {sessions[s].url : s \in 1 .. Len(sessions)}
      BY <3>1, <2>5
    <3>3. seen = {posted'[i] : i \in 1 .. Len(posted')}
              \cup ({posted[1]} \cup {sessions[s].url : s \in 1 .. Len(sessions)})
      BY <3>2
    <3> QED
      BY <3>3, <2>6, <2>1
  <2>8. \A i, j \in 1 .. Len(posted') : posted'[i] = posted'[j] => i = j
    BY <1>0, <2>3 DEF Crawl!EachSeenOnce
  <2>9. \A i \in 1 .. Len(posted') : posted'[i] # posted[1]
    BY <1>0, <2>3 DEF Crawl!EachSeenOnce
  <2>10. \A s \in 1 .. Len(sessions) : posted[1] # sessions[s].url
    BY <2>3 DEF Crawl!EachSeenOnce
  <2>11. \A s \in 1 .. Len(sessions') : s = Len(sessions) + 1 \/ s \in 1 .. Len(sessions)
    BY <1>0, <2>4
  <2>12. \A s, t \in 1 .. Len(sessions') : sessions'[s].url = sessions'[t].url => s = t
    BY <2>4, <2>10, <2>11 DEF Crawl!EachSeenOnce
  <2>13. \A i \in 1 .. Len(posted'), s \in 1 .. Len(sessions') : posted'[i] # sessions'[s].url
    BY <2>3, <2>4, <2>9, <2>11 DEF Crawl!EachSeenOnce
  <2> QED
    BY <2>7, <2>8, <2>12, <2>13 DEF Crawl!EachSeenOnce
<1>2. ASSUME NEW s \in 1 .. Len(sessions), Crawl!Fetch(s) \/ Crawl!Schedule(s)
      PROVE  Crawl!EachSeenOnce'
  <2>1. Len(sessions') = Len(sessions) /\ \A t \in 1 .. Len(sessions) :
          sessions'[t].url = sessions[t].url
    BY <1>2, OneSession, SessionChanged
  <2>2. UNCHANGED <<seen, posted>> \/ \E url \in Crawl!Urls :
          url \notin seen /\ seen' = seen \cup {url} /\ posted' = Append(posted, url)
    <3>1. CASE Crawl!FollowLink(s)
      <4>1. Crawl!Looping(s)
        BY <3>1 DEF Crawl!FollowLink
      <4>2. sessions[s].todo \in Seq(Crawl!Link) /\ sessions[s].todo # <<>>
        BY <4>1, Sessions DEF Crawl!Looping, Crawl!LinksLeft, Crawl!Session
      <4>3. Head(sessions[s].todo) \in Crawl!Link
        BY <4>2
      <4>4. Crawl!Url(Head(sessions[s].todo).page) \in Crawl!Urls
        BY <4>3 DEF Crawl!Link, Crawl!Url, Crawl!Urls
      <4>5. Crawl!AddUrl(Crawl!Url(Head(sessions[s].todo).page))
        BY <3>1 DEF Crawl!FollowLink
      <4> QED
        BY <4>4, <4>5 DEF Crawl!AddUrl
    <3>2. CASE ~Crawl!FollowLink(s)
      BY <1>2, <3>2, AdvanceMoves DEF Crawl!Fetch, Crawl!Schedule, Advance, Crawl!Fails,
         Crawl!ReadsNothing, Crawl!ReadsPage, Crawl!SkipLink, Crawl!CallbackReturns,
         Crawl!Unchanged
    <3> QED
      BY <3>1, <3>2
  <2>3. CASE UNCHANGED <<seen, posted>>
    BY <2>1, <2>3 DEF Crawl!EachSeenOnce
  <2>4. ASSUME NEW url \in Crawl!Urls, url \notin seen, seen' = seen \cup {url},
               posted' = Append(posted, url)
        PROVE  Crawl!EachSeenOnce'
    <3>1. /\ Len(posted') = Len(posted) + 1 /\ posted'[Len(posted) + 1] = url
          /\ \A i \in 1 .. Len(posted) : posted'[i] = posted[i]
          /\ \A i \in 1 .. Len(posted') : i = Len(posted) + 1 \/ i \in 1 .. Len(posted)
          /\ Len(posted) + 1 \in 1 .. Len(posted') /\ \A i \in 1 .. Len(posted) :
               i \in 1 .. Len(posted')
      BY <1>0, <2>4
    <3>2. /\ \A i \in 1 .. Len(posted) : posted[i] # url
          /\ \A t \in 1 .. Len(sessions) : sessions[t].url # url
      BY <2>4 DEF Crawl!EachSeenOnce
    <3>3. {posted'[i] : i \in 1 .. Len(posted')} = {posted[i] : i \in 1 .. Len(posted)} \cup {url}
      BY <3>1
    <3>4. {sessions'[t].url : t \in 1 .. Len(sessions')}
              = {sessions[t].url : t \in 1 .. Len(sessions)}
      BY <2>1
    <3>5. seen' = {posted'[i] : i \in 1 .. Len(posted')}
              \cup {sessions'[t].url : t \in 1 .. Len(sessions')}
      BY <3>3, <3>4, <2>4 DEF Crawl!EachSeenOnce
    <3>6. \A i, j \in 1 .. Len(posted') : posted'[i] = posted'[j] => i = j
      BY <3>1, <3>2 DEF Crawl!EachSeenOnce
    <3>7. \A i \in 1 .. Len(posted'), t \in 1 .. Len(sessions') : posted'[i] # sessions'[t].url
      BY <3>1, <3>2, <2>1 DEF Crawl!EachSeenOnce
    <3>8. \A r, t \in 1 .. Len(sessions') : sessions'[r].url = sessions'[t].url => r = t
      BY <2>1 DEF Crawl!EachSeenOnce
    <3> QED
      BY <3>5, <3>6, <3>7, <3>8 DEF Crawl!EachSeenOnce
  <2> QED
    BY <2>2, <2>3, <2>4
<1> QED
  BY <1>1, <1>2 DEF Crawl!Next

(* Every step keeps the calls at one per fetch that is over.               *)
LEMMA CalledBackStep ==
  ASSUME Crawl!CrawlerAssumption, Crawl!TypeOK, Crawl!CalledBack, Crawl!Next
  PROVE  Crawl!CalledBack'
<1>0. sessions \in Seq(Crawl!Session) /\ Len(sessions) \in Nat
  BY DEF Crawl!TypeOK
<1> USE DEF Crawl!Page, Crawl!InFlight
<1>1. CASE Crawl!StartFetch
  <2>1. sessions' = Append(sessions, Crawl!NewSession(Head(posted))) /\ stored' = stored
    BY <1>1 DEF Crawl!StartFetch
  <2>2. /\ Crawl!NewSession(Head(posted)).calls = 0
        /\ Crawl!NewSession(Head(posted)).stage = "resolving"
        /\ Crawl!NewSession(Head(posted)).scheduled = 0
    BY DEF Crawl!NewSession
  <2>3. /\ \A s \in 1 .. Len(sessions) : sessions'[s] = sessions[s] /\ s \in 1 .. Len(sessions')
        /\ \A s \in 1 .. Len(sessions') :
             s \in 1 .. Len(sessions) \/ sessions'[s] = Crawl!NewSession(Head(posted))
    BY <1>0, <2>1
  <2> QED
    BY <2>1, <2>2, <2>3 DEF Crawl!CalledBack
<1>2. ASSUME NEW s \in 1 .. Len(sessions), NEW v \in Crawl!Session, v.url = sessions[s].url,
             sessions' = [sessions EXCEPT ![s] = v],
             \/ /\ Crawl!InFlight(s) /\ v.calls = 0 /\ v.scheduled = 0
                /\ v.stage \in {"resolving", "connecting", "handshaking", "writing", "reading"}
             \/ v.stage \in {"linking", "over"} /\ v.calls = 1,
             stored' \subseteq stored \cup {Crawl!Page(s)}, v.stage # "linking" => stored' = stored
      PROVE  Crawl!CalledBack'
  <2>1. /\ Len(sessions') = Len(sessions) /\ sessions'[s] = v
        /\ \A t \in 1 .. Len(sessions) : t # s => sessions'[t] = sessions[t]
        /\ \A t \in 1 .. Len(sessions) : sessions'[t].url = sessions[t].url
    BY <1>2, SessionChanged
  <2>2. \A t \in 1 .. Len(sessions') :
          /\ sessions'[t].calls = IF Crawl!InFlight(t)' THEN 0 ELSE 1
          /\ Crawl!InFlight(t)' => sessions'[t].scheduled = 0
    BY <1>2, <2>1 DEF Crawl!CalledBack
  <2>3. ASSUME NEW page \in stored'
        PROVE  \E t \in 1 .. Len(sessions') : Crawl!Page(t)' = page /\ ~Crawl!InFlight(t)'
    <3>1. CASE page \in stored
      <4>1. PICK t \in 1 .. Len(sessions) : Crawl!Page(t) = page /\ ~Crawl!InFlight(t)
        BY <3>1 DEF Crawl!CalledBack
      <4>2. CASE t = s
        <5>1. v.stage \in {"linking", "over"}
          BY <1>2, <4>1, <4>2
        <5> QED
          BY <2>1, <4>1, <4>2, <5>1
      <4>3. CASE t # s
        BY <2>1, <4>1, <4>3
      <4> QED
        BY <4>2, <4>3
    <3>2. CASE page = Crawl!Page(s) /\ v.stage = "linking"
      BY <2>1, <3>2
    <3> QED
      BY <1>2, <2>3, <3>1, <3>2
  <2> QED
    BY <2>2, <2>3 DEF Crawl!CalledBack
<1>3. ASSUME NEW s \in 1 .. Len(sessions), Crawl!Fetch(s) \/ Crawl!Schedule(s)
      PROVE  Crawl!CalledBack'
  <2>0. /\ sessions[s].calls = IF Crawl!InFlight(s) THEN 0 ELSE 1
        /\ Crawl!InFlight(s) => sessions[s].scheduled = 0
    BY DEF Crawl!CalledBack
  <2>1. CASE Advance(s)
    <3>1. PICK reached \in {"connecting", "handshaking", "writing", "reading"} :
           /\ sessions' = [sessions EXCEPT ![s] = [sessions[s] EXCEPT !.stage = reached]]
           /\ Crawl!InFlight(s) /\ UNCHANGED <<links, seen, posted, stored>>
      BY <2>1, AdvanceMoves
    <3>2. sessions[s] \in Crawl!Session
      BY Sessions
    <3> DEFINE v == [sessions[s] EXCEPT !.stage = reached]
    <3>3. /\ v \in Crawl!Session /\ v.url = sessions[s].url /\ v.calls = sessions[s].calls
          /\ v.stage = reached
          /\ v.scheduled = sessions[s].scheduled
      BY <3>2 DEF Crawl!Session, Crawl!Stages
    <3>4. sessions' = [sessions EXCEPT ![s] = v] /\ stored' = stored /\ Crawl!InFlight(s)
      BY <3>1
    <3>5. /\ Crawl!InFlight(s) /\ v.calls = 0 /\ v.scheduled = 0
          /\ v.stage \in {"resolving", "connecting", "handshaking", "writing", "reading"}
      BY <2>0, <3>1, <3>3
    <3>6. stored' \subseteq stored \cup {Crawl!Page(s)}
      BY <3>4
    <3> HIDE DEF v
    <3> QED
      BY <1>2, <3>3, <3>4, <3>5, <3>6
  <2>2. CASE Crawl!Fails(s) \/ Crawl!ReadsNothing(s)
    <3>1. Crawl!Callback(s, "over", <<>>) /\ Crawl!InFlight(s) /\ stored' = stored
      BY <2>2 DEF Crawl!Fails, Crawl!ReadsNothing, Crawl!Unchanged, Crawl!At
    <3>2. <<>> \in Seq(Crawl!Link) /\ "over" \in Crawl!Stages
      BY DEF Crawl!Stages
    <3>3. ASSUME NEW rest \in Seq(Crawl!Link), Crawl!Callback(s, "over", rest)
          PROVE  \E v \in Crawl!Session : /\ sessions' = [sessions EXCEPT ![s] = v] /\ v.url = sessions[s].url
                                    /\ v.stage = "over" /\ v.calls = sessions[s].calls + 1
      BY <3>2, <3>3, CallbackMoves
    <3>4. PICK v \in Crawl!Session : /\ sessions' = [sessions EXCEPT ![s] = v] /\ v.url = sessions[s].url
                               /\ v.stage = "over" /\ v.calls = sessions[s].calls + 1
      BY <3>1, <3>2, <3>3
    <3>5. v.stage \in {"linking", "over"} /\ v.calls = 1
      BY <2>0, <3>1, <3>4
    <3>6. stored' = stored /\ stored' \subseteq stored \cup {Crawl!Page(s)}
      BY <3>1
    <3> QED
      BY <1>2, <3>4, <3>5, <3>6
  <2>3. CASE Crawl!ReadsPage(s)
    <3>1. /\ Crawl!Callback(s, "linking", links[Crawl!Page(s)]) /\ Crawl!InFlight(s)
          /\ stored' = stored \/ stored' = stored \cup {Crawl!Page(s)}
      BY <2>3 DEF Crawl!ReadsPage, Crawl!At
    <3>2. links[Crawl!Page(s)] \in Seq(Crawl!Link) /\ "linking" \in Crawl!Stages
      BY Sessions DEF Crawl!Stages
    <3>3. PICK v \in Crawl!Session : /\ sessions' = [sessions EXCEPT ![s] = v] /\ v.url = sessions[s].url
                               /\ v.stage = "linking" /\ v.calls = sessions[s].calls + 1
      BY <3>1, <3>2, CallbackMoves
    <3>4. v.stage \in {"linking", "over"} /\ v.calls = 1
      BY <2>0, <3>1, <3>3
    <3>5. stored' \subseteq stored \cup {Crawl!Page(s)}
      BY <3>1
    <3> QED
      BY <1>2, <3>3, <3>4, <3>5
  <2>4. CASE Crawl!FollowLink(s) \/ Crawl!SkipLink(s)
    <3>1. Crawl!Looping(s) /\ (\E n \in {0, 1} : Crawl!NextLink(s, n)) /\ stored' = stored
      BY <2>4 DEF Crawl!FollowLink, Crawl!SkipLink, Crawl!Unchanged
    <3>2. PICK v \in Crawl!Session : /\ sessions' = [sessions EXCEPT ![s] = v] /\ v.url = sessions[s].url
                               /\ v.stage = "linking" /\ v.calls = sessions[s].calls
      BY <3>1, NextLinkMoves
    <3>3. v.stage \in {"linking", "over"} /\ v.calls = 1
      BY <2>0, <3>1, <3>2 DEF Crawl!Looping, Crawl!At
    <3>4. stored' = stored /\ stored' \subseteq stored \cup {Crawl!Page(s)}
      BY <3>1
    <3> QED
      BY <1>2, <3>2, <3>3, <3>4
  <2>5. CASE Crawl!CallbackReturns(s)
    <3>1. PICK v \in Crawl!Session : /\ sessions' = [sessions EXCEPT ![s] = v] /\ v.url = sessions[s].url
                               /\ v.stage = "over" /\ v.calls = sessions[s].calls
                               /\ Crawl!At(s, "linking")
      BY <2>5, ReturnMoves
    <3>2. v.stage \in {"linking", "over"} /\ v.calls = 1
      BY <2>0, <3>1 DEF Crawl!At
    <3>3. stored' = stored /\ stored' \subseteq stored \cup {Crawl!Page(s)}
      BY <2>5, <3>1 DEF Crawl!CallbackReturns, Crawl!Unchanged
    <3> QED
      BY <1>2, <3>1, <3>2, <3>3
  <2> QED
    BY <1>3, <2>1, <2>2, <2>3, <2>4, <2>5 DEF Crawl!Fetch, Crawl!Schedule, Advance
<1> QED
  BY <1>1, <1>3 DEF Crawl!Next

(* What a callback has scheduled stays scheduled while others go on.       *)
LEMMA ProgressKept ==
  ASSUME Crawl!TypeOK, NEW s \in 1 .. Len(sessions), Crawl!Progress(s), links' = links,
         seen \subseteq seen', sessions'[s].url = sessions[s].url,
         sessions'[s].todo = sessions[s].todo, sessions'[s].scheduled = sessions[s].scheduled
  PROVE  Crawl!Progress(s)'
<1>1. Crawl!Page(s)' = Crawl!Page(s) /\ Crawl!Done(s)' = Crawl!Done(s)
  BY DEF Crawl!Page, Crawl!Done
<1>2. ASSUME NEW n PROVE Crawl!FollowedUpTo(s, n)' = Crawl!FollowedUpTo(s, n)
  BY <1>1 DEF Crawl!FollowedUpTo, Crawl!Followed
<1> QED
  BY <1>1, <1>2 DEF Crawl!Progress

(* One link more.                                                          *)
LEMMA ProgressMade ==
  ASSUME Crawl!CrawlerAssumption, Crawl!TypeOK, NEW s \in 1 .. Len(sessions), Crawl!Progress(s),
         sessions[s].todo # <<>>, NEW n, links' = links, seen \subseteq seen',
         sessions' \in Seq(Crawl!Session), s \in 1 .. Len(sessions'),
         sessions'[s].url = sessions[s].url,
         sessions'[s].todo = Tail(sessions[s].todo),
         sessions'[s].scheduled = sessions[s].scheduled + n,
         \/ Crawl!Followed(s, Head(sessions[s].todo)) /\ n = 1 /\ Crawl!Url(Head(sessions[s].todo).page) \in seen'
         \/ ~Crawl!Followed(s, Head(sessions[s].todo)) /\ n = 0
  PROVE  Crawl!Progress(s)'
<1> DEFINE list == links[Crawl!Page(s)]  d == Crawl!Done(s)  rest == sessions[s].todo
<1>1. /\ list \in Seq(Crawl!Link) /\ rest \in Seq(Crawl!Link) /\ Len(list) \in Nat
      /\ Len(rest) \in Nat \ {0} /\ d \in Nat
  <2>1. list \in Seq(Crawl!Link) /\ rest \in Seq(Crawl!Link) /\ rest # <<>>
    BY Sessions DEF Crawl!Session
  <2>2. d \in Nat
    BY DEF Crawl!Progress
  <2> HIDE DEF list, rest, d
  <2> QED
    BY <2>1, <2>2
<1>2. d = Len(list) - Len(rest) /\ d + 1 \in 1 .. Len(list)
  <2>1. d = Len(list) - Len(rest)
    BY DEF Crawl!Done
  <2> HIDE DEF list, d, rest
  <2> QED
    BY <1>1, <2>1
<1>3. Head(rest) = list[d + 1]
  BY <1>1 DEF Crawl!Progress
<1>4. /\ sessions'[s].todo = Tail(rest) /\ Len(Tail(rest)) = Len(rest) - 1
      /\ \A i \in 1 .. Len(rest) - 1 : Tail(rest)[i] = rest[i + 1]
  BY <1>1
<1>5. Crawl!Page(s)' = Crawl!Page(s) /\ links'[Crawl!Page(s)'] = list
  BY DEF Crawl!Page
<1>6. Crawl!Done(s)' = d + 1
  <2>1. Crawl!Done(s)' = Len(list) - (Len(rest) - 1)
    BY <1>4, <1>5 DEF Crawl!Done
  <2> HIDE DEF list, d, rest
  <2> QED
    BY <1>1, <1>2, <2>1
<1>7. ASSUME NEW m PROVE Crawl!FollowedUpTo(s, m)' = Crawl!FollowedUpTo(s, m)
  BY <1>5 DEF Crawl!FollowedUpTo, Crawl!Followed
<1>8. Crawl!FollowedUpTo(s, d + 1)
          = Crawl!FollowedUpTo(s, d) \cup (IF Crawl!Followed(s, list[d + 1]) THEN {d + 1} ELSE {})
  BY <1>1 DEF Crawl!FollowedUpTo
<1>9. d + 1 \notin Crawl!FollowedUpTo(s, d) /\ IsFiniteSet(Crawl!FollowedUpTo(s, d))
  <2>1. Crawl!FollowedUpTo(s, d) \subseteq 1 .. d
    BY DEF Crawl!FollowedUpTo
  <2>2. IsFiniteSet(1 .. d) /\ d + 1 \notin 1 .. d
    <3>1. d \in Nat
      BY <1>1
    <3>2. 1 \in Int /\ d \in Int /\ d + 1 \notin 1 .. d
      BY <3>1
    <3> QED
      BY ONLY <3>2, FS_Interval
  <2> QED
    BY <2>1, <2>2, FS_Subset
<1>10. /\ sessions[s].scheduled = Cardinality(Crawl!FollowedUpTo(s, d))
       /\ Cardinality(Crawl!FollowedUpTo(s, d)) \in Nat
  BY <1>9, FS_CardinalityType, SameCardinality DEF Crawl!Progress
<1>11. sessions'[s].scheduled = Cardinality(Crawl!FollowedUpTo(s, d + 1))
  <2>1. CASE Crawl!Followed(s, Head(rest))
    <3>1. Crawl!FollowedUpTo(s, d + 1) = Crawl!FollowedUpTo(s, d) \cup {d + 1}
      BY <1>3, <1>8, <2>1
    <3> QED
      BY <3>1, <1>9, <1>10, <2>1, FS_AddElement
  <2>2. CASE ~Crawl!Followed(s, Head(rest))
    <3>1. Crawl!FollowedUpTo(s, d + 1) = Crawl!FollowedUpTo(s, d)
      BY <1>3, <1>8, <2>2
    <3> HIDE DEF d
    <3> QED
      BY <3>1, <1>10, <2>2
  <2> QED
    BY <2>1, <2>2
<1>12. \A i \in Crawl!FollowedUpTo(s, d + 1) : Crawl!Url(list[i].page) \in seen'
  BY <1>3, <1>8 DEF Crawl!Progress
<1>13. \A i \in 1 .. Len(Tail(rest)) : Tail(rest)[i] = list[d + 1 + i]
  <2>1. ASSUME NEW i \in 1 .. Len(rest) - 1 PROVE rest[i + 1] = list[d + (i + 1)]
    <3>1. i + 1 \in 1 .. Len(rest)
      BY <1>1
    <3> QED
      BY <3>1 DEF Crawl!Progress
  <2>2. ASSUME NEW i \in 1 .. Len(rest) - 1 PROVE d + (i + 1) = d + 1 + i
    BY <1>1
  <2> QED
    BY <1>4, <2>1, <2>2
<1> HIDE DEF list, d, rest
<1>14. /\ Crawl!Done(s)' \in Nat
       /\ \A i \in 1 .. Len(sessions'[s].todo) :
            sessions'[s].todo[i] = links'[Crawl!Page(s)'][Crawl!Done(s)' + i]
       /\ sessions'[s].scheduled = Cardinality(Crawl!FollowedUpTo(s, Crawl!Done(s)'))
       /\ \A i \in Crawl!FollowedUpTo(s, Crawl!Done(s)') :
            Crawl!Url(links'[Crawl!Page(s)'][i].page) \in seen'
  <2>1. Crawl!Done(s)' \in Nat
    BY <1>1, <1>6
  <2>2. \A i \in 1 .. Len(sessions'[s].todo) :
          sessions'[s].todo[i] = links'[Crawl!Page(s)'][Crawl!Done(s)' + i]
    BY <1>4, <1>5, <1>6, <1>13
  <2>3. sessions'[s].scheduled = Cardinality(Crawl!FollowedUpTo(s, Crawl!Done(s)'))
    BY <1>6, <1>11
  <2>4. \A i \in Crawl!FollowedUpTo(s, Crawl!Done(s)') :
          Crawl!Url(links'[Crawl!Page(s)'][i].page) \in seen'
    BY <1>5, <1>6, <1>12
  <2> QED
    BY <2>1, <2>2, <2>3, <2>4
<1>15. Crawl!FollowedUpTo(s, Crawl!Done(s))' = Crawl!FollowedUpTo(s, Crawl!Done(s)')
  BY <1>5 DEF Crawl!FollowedUpTo, Crawl!Followed
<1> QED
  BY <1>14, <1>15, SameCardinality DEF Crawl!Progress

(* Every step keeps how far each callback is in its links.                 *)
LEMMA LinksFollowedStep ==
  ASSUME Crawl!CrawlerAssumption, Crawl!TypeOK, Crawl!TypeOK', Crawl!EachSeenOnce,
         Crawl!CalledBack, Crawl!LinksFollowed, Crawl!Next
  PROVE  Crawl!LinksFollowed'
<1>0. /\ sessions \in Seq(Crawl!Session) /\ Len(sessions) \in Nat
      /\ links' = links /\ seen \subseteq seen'
  <2>1. ASSUME NEW s \in 1 .. Len(sessions), Crawl!Fetch(s) \/ Crawl!Schedule(s)
        PROVE  links' = links /\ seen \subseteq seen'
    BY <2>1, AdvanceMoves DEF Crawl!Fetch, Crawl!Schedule, Advance, Crawl!Fails,
       Crawl!ReadsNothing, Crawl!ReadsPage,
       Crawl!FollowLink, Crawl!AddUrl, Crawl!SkipLink, Crawl!CallbackReturns, Crawl!Unchanged
  <2> QED
    BY <2>1 DEF Crawl!Next, Crawl!StartFetch, Crawl!TypeOK
(* Whoever did not step, and whose page has not been stored just now.      *)
<1>1. ASSUME NEW t \in 1 .. Len(sessions), sessions'[t] = sessions[t],
             Crawl!Page(t) \in stored' => Crawl!Page(t) \in stored
      PROVE  /\ Crawl!At(t, "linking")' => Crawl!Progress(t)'
             /\ Crawl!At(t, "over")' /\ Crawl!Page(t)' \in stored'
                    => Crawl!Progress(t)' /\ ~Crawl!LinksLeft(t)'
  <2>1. Crawl!Progress(t) => Crawl!Progress(t)'
    BY <1>0, <1>1, ProgressKept
  <2>2. /\ Crawl!At(t, "linking")' => Crawl!At(t, "linking")
        /\ Crawl!At(t, "over")' => Crawl!At(t, "over")
        /\ Crawl!LinksLeft(t)' => Crawl!LinksLeft(t)
        /\ Crawl!Page(t)' = Crawl!Page(t)
    BY <1>1 DEF Crawl!At, Crawl!LinksLeft, Crawl!Page
  <2> QED
    BY <1>1, <2>1, <2>2 DEF Crawl!LinksFollowed
<1>2. CASE Crawl!StartFetch
  <2>1. /\ sessions' = Append(sessions, Crawl!NewSession(Head(posted))) /\ stored' = stored
        /\ Crawl!NewSession(Head(posted)).stage = "resolving"
    BY <1>2 DEF Crawl!StartFetch, Crawl!NewSession
  <2>2. /\ \A t \in 1 .. Len(sessions) : sessions'[t] = sessions[t]
        /\ \A t \in 1 .. Len(sessions') :
             t \in 1 .. Len(sessions) \/ sessions'[t].stage = "resolving"
    BY <1>0, <2>1
  <2>3. ASSUME NEW t \in 1 .. Len(sessions')
        PROVE  /\ Crawl!At(t, "linking")' => Crawl!Progress(t)'
               /\ Crawl!At(t, "over")' /\ Crawl!Page(t)' \in stored'
                      => Crawl!Progress(t)' /\ ~Crawl!LinksLeft(t)'
    <3>1. CASE t \in 1 .. Len(sessions)
      BY <1>1, <2>1, <2>2, <3>1
    <3>2. CASE sessions'[t].stage = "resolving"
      BY <3>2 DEF Crawl!At
    <3> QED
      BY <2>2, <3>1, <3>2
  <2> QED
    BY <2>3 DEF Crawl!LinksFollowed
<1>3. ASSUME NEW s \in 1 .. Len(sessions), Crawl!Fetch(s) \/ Crawl!Schedule(s)
      PROVE  Crawl!LinksFollowed'
  <2>1. PICK v \in Crawl!Session : v.url = sessions[s].url /\ sessions' = [sessions EXCEPT ![s] = v]
    BY <1>3, OneSession
  <2>2. /\ sessions' \in Seq(Crawl!Session) /\ Len(sessions') = Len(sessions) /\ sessions'[s] = v
        /\ \A t \in 1 .. Len(sessions) : t # s => sessions'[t] = sessions[t]
    BY <2>1, SessionChanged
  <2>3. stored' \subseteq stored \cup {Crawl!Page(s)} /\ (stored' = stored \/ v.stage = "linking")
    <3>1. CASE Crawl!ReadsPage(s)
      <4>1. \E w \in Crawl!Session : sessions' = [sessions EXCEPT ![s] = w] /\ w.stage = "linking"
        BY <3>1, CallbackMoves, Sessions DEF Crawl!Stages, Crawl!ReadsPage
      <4>2. sessions'[s].stage = "linking"
        BY <4>1, <1>0
      <4> QED
        BY <2>2, <3>1, <4>2 DEF Crawl!ReadsPage
    <3>2. CASE ~Crawl!ReadsPage(s)
      <4>1. stored' = stored
        BY <1>3, <3>2, AdvanceMoves DEF Crawl!Fetch, Crawl!Schedule, Advance, Crawl!Fails,
           Crawl!ReadsNothing,
           Crawl!FollowLink, Crawl!SkipLink, Crawl!CallbackReturns, Crawl!Unchanged
      <4> QED
        BY <4>1
    <3> QED
      BY <3>1, <3>2
  <2>4. ASSUME NEW t \in 1 .. Len(sessions), t # s
        PROVE  /\ Crawl!At(t, "linking")' => Crawl!Progress(t)'
               /\ Crawl!At(t, "over")' /\ Crawl!Page(t)' \in stored'
                      => Crawl!Progress(t)' /\ ~Crawl!LinksLeft(t)'
    <3>1. Crawl!Page(t) # Crawl!Page(s)
      BY <2>4, Sessions DEF Crawl!EachSeenOnce
    <3> QED
      BY <1>1, <2>2, <2>3, <2>4, <3>1
  <2>5. Crawl!Page(s)' = Crawl!Page(s)
    BY <2>1, <2>2 DEF Crawl!Page
  <2>6. /\ Crawl!At(s, "linking")' => Crawl!Progress(s)'
        /\ Crawl!At(s, "over")' /\ Crawl!Page(s)' \in stored'
               => Crawl!Progress(s)' /\ ~Crawl!LinksLeft(s)'
    <3>0. Crawl!InFlight(s) => Crawl!Page(s) \notin stored
      <4>1. ASSUME Crawl!Page(s) \in stored PROVE ~Crawl!InFlight(s)
        <5>1. PICK t \in 1 .. Len(sessions) : Crawl!Page(t) = Crawl!Page(s) /\ ~Crawl!InFlight(t)
          BY <4>1 DEF Crawl!CalledBack
        <5>2. t = s
          BY <5>1, Sessions DEF Crawl!EachSeenOnce
        <5> QED
          BY <5>1, <5>2
      <4> QED
        BY <4>1
    <3>1. CASE Advance(s)
      <4>1. PICK reached \in {"connecting", "handshaking", "writing", "reading"} :
              sessions' = [sessions EXCEPT ![s] = [sessions[s] EXCEPT !.stage = reached]]
        BY <3>1, AdvanceMoves
      <4>2. sessions[s] \in Crawl!Session
        BY Sessions
      <4>3. [sessions[s] EXCEPT !.stage = reached].stage = reached
        BY <4>2 DEF Crawl!Session
      <4>4. sessions'[s].stage = reached
        BY <4>1, <4>3, <1>0
      <4> QED
        BY <4>4 DEF Crawl!At
    <3>2. CASE Crawl!Fails(s) \/ Crawl!ReadsNothing(s)
      <4>1. Crawl!Callback(s, "over", <<>>) /\ Crawl!InFlight(s) /\ stored' = stored
        BY <3>2 DEF Crawl!Fails, Crawl!ReadsNothing, Crawl!Unchanged, Crawl!At, Crawl!InFlight
      <4>2. <<>> \in Seq(Crawl!Link) /\ "over" \in Crawl!Stages
        BY DEF Crawl!Stages
      <4>3. ASSUME NEW rest \in Seq(Crawl!Link), Crawl!Callback(s, "over", rest)
            PROVE  \E w \in Crawl!Session :
                     sessions' = [sessions EXCEPT ![s] = w] /\ w.stage = "over"
        BY <4>2, <4>3, CallbackMoves
      <4>4. \E w \in Crawl!Session : sessions' = [sessions EXCEPT ![s] = w] /\ w.stage = "over"
        BY <4>1, <4>2, <4>3
      <4>5. sessions'[s].stage = "over"
        BY <4>4, <1>0
      <4> QED
        BY <2>5, <3>0, <4>1, <4>5 DEF Crawl!At
    <3>3. CASE Crawl!ReadsPage(s)
      <4>1. links[Crawl!Page(s)] \in Seq(Crawl!Link) /\ "linking" \in Crawl!Stages
        BY Sessions DEF Crawl!Stages
      <4>2. PICK w \in Crawl!Session : /\ sessions' = [sessions EXCEPT ![s] = w]
                                 /\ w.stage = "linking" /\ w.todo = links[Crawl!Page(s)]
                                 /\ w.scheduled = sessions[s].scheduled
        BY <3>3, <4>1, CallbackMoves DEF Crawl!ReadsPage
      <4>3. sessions'[s] = w
        BY <4>2, <1>0
      <4>4. sessions[s].scheduled = 0
        BY <3>3 DEF Crawl!ReadsPage, Crawl!At, Crawl!InFlight, Crawl!CalledBack
      <4>5. /\ Crawl!Page(s)' = Crawl!Page(s) /\ links'[Crawl!Page(s)'] = links[Crawl!Page(s)]
            /\ Len(links[Crawl!Page(s)]) \in Nat
        BY <1>0, <2>5, <4>1
      <4>6. Crawl!Done(s)' = 0
        BY <4>2, <4>3, <4>5 DEF Crawl!Done
      <4>7. Crawl!FollowedUpTo(s, Crawl!Done(s))' = {}
        BY <4>6 DEF Crawl!FollowedUpTo
      <4>8. \A i \in 1 .. Len(links[Crawl!Page(s)]) :
              links[Crawl!Page(s)][i] = links[Crawl!Page(s)][0 + i]
        OBVIOUS
      <4>9. Crawl!Progress(s)'
        <5>1. \A i \in 1 .. Len(sessions'[s].todo) :
                sessions'[s].todo[i] = links'[Crawl!Page(s)'][Crawl!Done(s)' + i]
          BY <4>2, <4>3, <4>5, <4>6, <4>8
        <5>2. sessions'[s].scheduled = Cardinality(Crawl!FollowedUpTo(s, Crawl!Done(s))')
          BY <4>2, <4>3, <4>4, <4>7, FS_EmptySet
        <5>3. Crawl!Done(s)' \in Nat
          BY <4>6
        <5> QED
          BY <4>7, <5>1, <5>2, <5>3, SameCardinality DEF Crawl!Progress
      <4> QED
        BY <4>2, <4>3, <4>9 DEF Crawl!At
    <3>4. CASE Crawl!FollowLink(s) \/ Crawl!SkipLink(s)
      <4>1. Crawl!Looping(s) /\ Crawl!Progress(s)
        BY <3>4 DEF Crawl!FollowLink, Crawl!SkipLink, Crawl!Looping, Crawl!LinksFollowed
      <4>2. ASSUME NEW n \in {0, 1}, Crawl!NextLink(s, n)
            PROVE  /\ sessions'[s].stage = "linking" /\ sessions[s].todo # <<>>
                   /\ sessions'[s].todo = Tail(sessions[s].todo)
                   /\ sessions'[s].scheduled = sessions[s].scheduled + n
        <5>1. PICK w \in Crawl!Session : /\ sessions' = [sessions EXCEPT ![s] = w]
                                   /\ w.stage = "linking" /\ sessions[s].todo # <<>>
                                   /\ w.todo = Tail(sessions[s].todo)
                                   /\ w.scheduled = sessions[s].scheduled + n
          BY <4>1, <4>2, NextLinkMoves
        <5> QED
          BY <5>1, <1>0
      <4>3. sessions'[s].url = sessions[s].url /\ s \in 1 .. Len(sessions')
        BY <2>1, <2>2
      <4>4. CASE Crawl!FollowLink(s)
        <5>1. /\ Crawl!Followed(s, Head(sessions[s].todo)) /\ Crawl!NextLink(s, 1)
              /\ Crawl!AddUrl(Crawl!Url(Head(sessions[s].todo).page))
          BY <4>4 DEF Crawl!FollowLink
        <5>2. Crawl!Url(Head(sessions[s].todo).page) \in seen'
          BY <5>1 DEF Crawl!AddUrl
        <5>3. /\ sessions'[s].stage = "linking" /\ sessions[s].todo # <<>>
              /\ sessions'[s].todo = Tail(sessions[s].todo)
              /\ sessions'[s].scheduled = sessions[s].scheduled + 1
          BY <4>2, <5>1
        <5>4. Crawl!Progress(s)'
          BY <1>0, <2>2, <4>1, <4>3, <5>1, <5>2, <5>3, ProgressMade
        <5> QED
          BY <5>3, <5>4 DEF Crawl!At
      <4>5. CASE Crawl!SkipLink(s)
        <5>1. ~Crawl!Followed(s, Head(sessions[s].todo)) /\ Crawl!NextLink(s, 0)
          BY <4>5 DEF Crawl!SkipLink
        <5>2. /\ sessions'[s].stage = "linking" /\ sessions[s].todo # <<>>
              /\ sessions'[s].todo = Tail(sessions[s].todo)
              /\ sessions'[s].scheduled = sessions[s].scheduled + 0
          BY <4>2, <5>1
        <5>3. Crawl!Progress(s)'
          BY <1>0, <2>2, <4>1, <4>3, <5>1, <5>2, ProgressMade
        <5> QED
          BY <5>2, <5>3 DEF Crawl!At
      <4> QED
        BY <3>4, <4>4, <4>5
    <3>5. CASE Crawl!CallbackReturns(s)
      <4>1. PICK w \in Crawl!Session : /\ sessions' = [sessions EXCEPT ![s] = w]
                                 /\ w.url = sessions[s].url /\ w.stage = "over"
                                 /\ w.todo = sessions[s].todo /\ w.scheduled = sessions[s].scheduled
                                 /\ Crawl!At(s, "linking") /\ ~Crawl!LinksLeft(s)
        BY <3>5, ReturnMoves
      <4>2. sessions'[s] = w
        BY <4>1, <1>0
      <4>3. Crawl!Progress(s)
        BY <4>1 DEF Crawl!LinksFollowed
      <4>4. Crawl!Progress(s)' /\ ~Crawl!LinksLeft(s)'
        BY <1>0, <4>1, <4>2, <4>3, ProgressKept DEF Crawl!LinksLeft
      <4> QED
        BY <4>1, <4>2, <4>4 DEF Crawl!At
    <3> QED
      BY <1>3, <3>1, <3>2, <3>3, <3>4, <3>5 DEF Crawl!Fetch, Crawl!Schedule, Advance
  <2>7. ASSUME NEW t \in 1 .. Len(sessions')
        PROVE  /\ Crawl!At(t, "linking")' => Crawl!Progress(t)'
               /\ Crawl!At(t, "over")' /\ Crawl!Page(t)' \in stored'
                      => Crawl!Progress(t)' /\ ~Crawl!LinksLeft(t)'
    BY <2>2, <2>4, <2>6
  <2> QED
    BY <2>7 DEF Crawl!LinksFollowed
<1> QED
  BY <1>2, <1>3 DEF Crawl!Next

(* The crawl starts with its first URL posted and seen.                    *)
LEMMA CrawlInit ==
  ASSUME Crawl!CrawlerAssumption, Crawl!Init
  PROVE  Crawl!IInv
<1>1. Crawl!Url(Seed) \in Crawl!Urls
  BY DEF Crawl!CrawlerAssumption, Crawl!Url, Crawl!Urls
<1>2. /\ links \in [Pages -> LinkLists] /\ posted = <<Crawl!Url(Seed)>>
      /\ seen = {Crawl!Url(Seed)} /\ sessions = <<>> /\ stored = {}
  BY DEF Crawl!Init
<1>3. Len(posted) = 1 /\ posted[1] = Crawl!Url(Seed) /\ Len(sessions) = 0
  BY <1>2
<1>4. Crawl!TypeOK
  BY <1>1, <1>2 DEF Crawl!TypeOK
<1>5. Crawl!EachSeenOnce
  BY <1>2, <1>3 DEF Crawl!EachSeenOnce
<1>6. Crawl!CalledBack /\ Crawl!LinksFollowed
  BY <1>2, <1>3 DEF Crawl!CalledBack, Crawl!LinksFollowed
<1> QED
  BY <1>4, <1>5, <1>6 DEF Crawl!IInv

(* The crawl's invariant is inductive.                                     *)
LEMMA CrawlStep ==
  ASSUME Crawl!CrawlerAssumption, Crawl!IInv, [Crawl!Next]_Crawl!vars
  PROVE  Crawl!IInv'
<1>1. CASE Crawl!Next
  BY <1>1, CrawlTypeStep, EachSeenOnceStep, CalledBackStep, LinksFollowedStep DEF Crawl!IInv
<1>2. CASE UNCHANGED Crawl!vars
  <2>1. Crawl!TypeOK' /\ Crawl!EachSeenOnce'
    BY <1>2 DEF Crawl!vars, Crawl!IInv, Crawl!TypeOK, Crawl!EachSeenOnce
  <2>2. Crawl!CalledBack'
    BY <1>2 DEF Crawl!vars, Crawl!IInv, Crawl!CalledBack, Crawl!InFlight, Crawl!Page
  <2>3. Crawl!LinksFollowed'
    <3>1. ASSUME NEW s \in 1 .. Len(sessions)
          PROVE  /\ Crawl!Page(s)' = Crawl!Page(s)
                 /\ Crawl!At(s, "linking")' = Crawl!At(s, "linking")
                 /\ Crawl!At(s, "over")' = Crawl!At(s, "over")
                 /\ Crawl!LinksLeft(s)' = Crawl!LinksLeft(s)
                 /\ Crawl!Progress(s) => Crawl!Progress(s)'
      <4>1. Crawl!Progress(s) => Crawl!Progress(s)'
        BY <1>2, ProgressKept DEF Crawl!vars, Crawl!IInv
      <4> QED
        BY <1>2, <4>1 DEF Crawl!vars, Crawl!Page, Crawl!At, Crawl!LinksLeft
    <3> QED
      BY <1>2, <3>1 DEF Crawl!vars, Crawl!IInv, Crawl!LinksFollowed
  <2> QED
    BY <2>1, <2>2, <2>3 DEF Crawl!IInv
<1> QED
  BY <1>1, <1>2

(* It gives what the runs check of the crawl.                              *)
LEMMA CrawlImplies ==
  ASSUME Crawl!CrawlerAssumption, Crawl!IInv
  PROVE  Crawl!FetchedOnce /\ Crawl!CrawlIsComplete
<1> USE DEF Crawl!IInv
<1>1. Crawl!FetchedOnce
  <2>1. \A s, t \in 1 .. Len(sessions) : Crawl!Page(s) = Crawl!Page(t) => s = t
    BY Sessions DEF Crawl!EachSeenOnce
  <2>2. \A s \in 1 .. Len(sessions) : sessions[s].calls <= 1
    BY DEF Crawl!CalledBack
  <2> QED
    BY <2>1, <2>2 DEF Crawl!FetchedOnce
<1>2. ASSUME Crawl!Idle, NEW s \in 1 .. Len(sessions), Crawl!Page(s) \in stored,
             NEW i \in Crawl!FollowedUpTo(s, Len(links[Crawl!Page(s)])),
             Cardinality(Crawl!FollowedUpTo(s, i)) <= MaxPerPage
      PROVE  \E t \in 1 .. Len(sessions) : Crawl!Page(t) = links[Crawl!Page(s)][i].page
  <2> DEFINE list == links[Crawl!Page(s)]  d == Crawl!Done(s)
  <2>1. Crawl!Progress(s) /\ ~Crawl!LinksLeft(s)
    BY <1>2 DEF Crawl!Idle, Crawl!LinksFollowed
  <2>2. list \in Seq(Crawl!Link) /\ Len(list) \in Nat /\ d \in Nat /\ i \in 1 .. Len(list)
    BY <2>1, Sessions DEF Crawl!Progress, Crawl!FollowedUpTo
  <2>3. i <= d
    <3> SUFFICES ASSUME d < i PROVE FALSE
      BY <2>2
    <3>1. sessions[s].todo # <<>>
      <4>1. sessions[s].todo \in Seq(Crawl!Link) /\ d = Len(list) - Len(sessions[s].todo)
        BY Sessions DEF Crawl!Session, Crawl!Done
      <4> HIDE DEF list, d
      <4> QED
        BY <4>1, <2>2
    <3>2. /\ sessions[s].scheduled >= MaxPerPage
          /\ sessions[s].scheduled = Cardinality(Crawl!FollowedUpTo(s, d))
      <4>1. ~(sessions[s].scheduled < MaxPerPage) /\ sessions[s].scheduled \in Nat
        BY <2>1, <3>1, Sessions DEF Crawl!LinksLeft, Crawl!Session
      <4> QED
        BY <4>1, <2>1, SameCardinality DEF Crawl!Progress, Crawl!CrawlerAssumption
    <3>3. /\ Crawl!FollowedUpTo(s, d) \cup {i} \subseteq Crawl!FollowedUpTo(s, i)
          /\ i \notin Crawl!FollowedUpTo(s, d)
          /\ Crawl!FollowedUpTo(s, i) \subseteq 1 .. i /\ Crawl!FollowedUpTo(s, d) \subseteq 1 .. i
      BY <1>2, <2>2 DEF Crawl!FollowedUpTo
    <3>4. IsFiniteSet(Crawl!FollowedUpTo(s, i)) /\ IsFiniteSet(Crawl!FollowedUpTo(s, d))
      <4>1. IsFiniteSet(1 .. i)
        BY <2>2, FS_Interval
      <4> QED
        BY <3>3, <4>1, FS_Subset
    <3>5. Cardinality(Crawl!FollowedUpTo(s, d)) + 1 <= Cardinality(Crawl!FollowedUpTo(s, i))
      <4>1. Cardinality(Crawl!FollowedUpTo(s, d) \cup {i})
                = Cardinality(Crawl!FollowedUpTo(s, d)) + 1
        BY <3>3, <3>4, FS_AddElement
      <4> QED
        BY <4>1, <3>3, <3>4, FS_Subset
    <3>6. /\ Cardinality(Crawl!FollowedUpTo(s, d)) \in Nat
          /\ Cardinality(Crawl!FollowedUpTo(s, i)) \in Nat /\ MaxPerPage \in Nat
      BY <3>4, FS_CardinalityType DEF Crawl!CrawlerAssumption
    <3> HIDE DEF d
    <3> QED
      BY <1>2, <3>2, <3>5, <3>6
  <2>4. i \in Crawl!FollowedUpTo(s, d)
    BY <1>2, <2>2, <2>3 DEF Crawl!FollowedUpTo
  <2>5. Crawl!Url(list[i].page) \in seen
    BY <2>1, <2>4 DEF Crawl!Progress
  <2>6. PICK t \in 1 .. Len(sessions) : sessions[t].url = Crawl!Url(list[i].page)
    <3>1. Len(posted) = 0
      BY <1>2 DEF Crawl!Idle
    <3>2. seen = {sessions[t].url : t \in 1 .. Len(sessions)}
      BY <3>1 DEF Crawl!EachSeenOnce
    <3> QED
      BY <2>5, <3>2
  <2>7. Crawl!Page(t) = list[i].page
    BY <2>6 DEF Crawl!Page, Crawl!Url
  <2> QED
    BY <2>7
<1>3. Crawl!CrawlIsComplete
  BY <1>2, SameCardinality DEF Crawl!CrawlIsComplete
<1> QED
  BY <1>1, <1>3

-----------------------------------------------------------------------------
(* A set of natural numbers that is not empty has a least member.          *)
LEMMA Least ==
  ASSUME NEW S \in SUBSET Nat, S # {}
  PROVE  \E n \in S : \A m \in S : n <= m
<1> DEFINE R == {p \in Nat \X Nat : p[1] < p[2]}
<1>1. IsWellFoundedOn(R, Nat)
  BY NatLessThanWellFounded DEF OpToRel
<1>2. PICK n \in S : \A m \in S : ~(<<m, n>> \in R)
  <2> HIDE DEF R
  <2> QED
    BY <1>1, WFMin
<1>3. ASSUME NEW m \in S PROVE n <= m
  <2>1. m \in Nat /\ n \in Nat /\ ~(m < n)
    BY <1>2
  <2> QED
    BY <2>1
<1> QED
  BY <1>2, <1>3

(* The ranks of what a member says are ordered: its join, texts, leave.    *)
LEMMA RanksAreNumbers ==
  ASSUME Chat!ChatAssumption
  PROVE  /\ Chat!Left \in Nat /\ Chat!Other \in 0 .. Chat!Left /\ Chat!Joined \in 1 .. Chat!Left
         /\ 2 + MaxTexts \in Nat
         /\ 2 + MaxTexts < Chat!Left
BY DEF Chat!ChatAssumption, Chat!Left, Chat!Other, Chat!Joined

(* A send makes its handler move, if there is anybody to send to.          *)
LEMMA SendEffect ==
  ASSUME Chat!TypeOK, NEW c \in Chat!Conns, NEW rank \in 0 .. Chat!Left, NEW fds \in Seq(Chat!Fds),
         NEW next \in Chat!States, Chat!Send(c, rank, fds, next)
  PROVE  /\ handler' \in [Chat!Conns -> Chat!States] /\ job' \in [Chat!Conns -> Chat!Job]
         /\ \A b \in Chat!Conns : b # c => handler'[b] = handler[b] /\ job'[b] = job[b]
         /\ \/ fds = <<>> /\ handler'[c] = next
            \/ /\ fds # <<>> /\ handler'[c] = "sending"
               /\ job'[c].rank = rank /\ job'[c].todo = fds /\ job'[c].then = next
<1>1. CASE fds = <<>>
  BY <1>1 DEF Chat!Send, Chat!Goto, Chat!TypeOK
<1>2. CASE fds # <<>>
  <2> DEFINE first == [rank |-> rank, todo |-> fds, then |-> next]
  <2>1. first \in Chat!Job /\ "sending" \in Chat!States
    BY DEF Chat!Job, Chat!States, Chat!Moving
  <2>2. first.rank = rank /\ first.todo = fds /\ first.then = next
    OBVIOUS
  <2>3. job' = [job EXCEPT ![c] = first] /\ handler' = [handler EXCEPT ![c] = "sending"]
    BY <1>2 DEF Chat!Send, Chat!Goto
  <2> HIDE DEF first
  <2> QED
    BY <1>2, <2>1, <2>2, <2>3 DEF Chat!TypeOK
<1> QED
  BY <1>1, <1>2

(* A handler that has sent goes to the next descriptor, or on.             *)
LEMMA ProceedEffect ==
  ASSUME Chat!ChatAssumption, Chat!TypeOK, NEW c \in Chat!Conns, job[c].todo # <<>>, Chat!Proceed(c)
  PROVE  /\ handler' \in [Chat!Conns -> Chat!States] /\ job' \in [Chat!Conns -> Chat!Job]
         /\ \A b \in Chat!Conns : b # c => handler'[b] = handler[b] /\ job'[b] = job[b]
         /\ \/ Len(job[c].todo) = 1 /\ handler'[c] = job[c].then
            \/ /\ Len(job[c].todo) > 1 /\ handler'[c] = "sending"
               /\ job'[c].rank = job[c].rank /\ job'[c].then = job[c].then
               /\ job'[c].todo = Tail(job[c].todo) /\ job'[c].todo # <<>>
<1>1. job[c] \in Chat!Job /\ Len(job[c].todo) \in Nat \ {0}
  BY DEF Chat!TypeOK, Chat!Job
<1>2. CASE Len(job[c].todo) = 1
  <2>1. Chat!NoJob \in Chat!Job
    BY RanksAreNumbers DEF Chat!NoJob, Chat!Job, Chat!States, Chat!Other
  <2>2. job[c].then \in Chat!States
    BY <1>1 DEF Chat!Job
  <2> QED
    BY <1>2, <2>1, <2>2 DEF Chat!Proceed, Chat!Goto, Chat!TypeOK
<1>3. CASE Len(job[c].todo) > 1
  <2> DEFINE n == Len(job[c].todo)
  <2> HIDE DEF n
  <2>6. n \in Nat /\ n > 1
    BY <1>1, <1>3 DEF n
  <2>7. n # 1 /\ n - 1 # 0
    BY <2>6
  <2> USE DEF n
  <2> DEFINE rest == [job[c] EXCEPT !.todo = Tail(@)]
  <2>0. job[c].todo \in Seq(Chat!Fds)
    BY <1>1 DEF Chat!Job
  <2>1. /\ Tail(job[c].todo) \in Seq(Chat!Fds)
        /\ Len(Tail(job[c].todo)) = Len(job[c].todo) - 1
    BY <1>3, <2>0
  <2>5. Tail(job[c].todo) # <<>>
    <3>1. Len(Tail(job[c].todo)) # 0
      BY <2>1, <2>7
    <3>2. Len(<<>>) = 0
      OBVIOUS
    <3> QED
      BY <3>1, <3>2
  <2>2. /\ rest \in Chat!Job /\ rest.rank = job[c].rank /\ rest.then = job[c].then
        /\ rest.todo = Tail(job[c].todo)
    BY <1>1, <2>1 DEF Chat!Job
  <2>3. job' = [job EXCEPT ![c] = rest] /\ handler' = [handler EXCEPT ![c] = "sending"]
    <3>1. Len(job[c].todo) # 1
      BY <2>7
    <3>2. job' = [job EXCEPT ![c].todo = Tail(@)] /\ handler' = [handler EXCEPT ![c] = "sending"]
      BY <3>1 DEF Chat!Proceed, Chat!Goto
    <3>3. [job EXCEPT ![c].todo = Tail(@)] = [job EXCEPT ![c] = rest]
      BY <1>1 DEF Chat!TypeOK
    <3> QED
      BY <3>2, <3>3
  <2>4. "sending" \in Chat!States
    BY DEF Chat!States, Chat!Moving
  <2> QED
    <3> HIDE DEF rest
    <3> QED
      BY <1>3, <2>1, <2>2, <2>3, <2>4, <2>5 DEF Chat!TypeOK
<1>4. Len(job[c].todo) = 1 \/ Len(job[c].todo) > 1
  <2>1. ASSUME NEW n \in Nat \ {0} PROVE n = 1 \/ n > 1
    BY <2>1
  <2> QED
    BY <1>1, <2>1
<1> QED
  BY <1>2, <1>3, <1>4

(* The removal takes one entry out and keeps the order of the others.      *)
LEMMA WithoutOne ==
  ASSUME Chat!TypeOK, NEW c,
         \A i, j \in 1 .. Len(chat_users) : chat_users[i] = chat_users[j] => i = j
  PROVE  /\ Chat!Without(c) \in Seq(Chat!Conns)
         /\ \A i, j \in 1 .. Len(Chat!Without(c)) : Chat!Without(c)[i] = Chat!Without(c)[j] => i = j
         /\ \A b : (\E i \in 1 .. Len(Chat!Without(c)) : Chat!Without(c)[i] = b)
                 <=> Chat!InRoom(b) /\ b # c
<1>0. chat_users \in Seq(Chat!Conns) /\ Len(chat_users) \in Nat
  BY DEF Chat!TypeOK
<1>1. CASE ~Chat!InRoom(c)
  BY <1>0, <1>1 DEF Chat!Without, Chat!InRoom
<1>2. CASE Chat!InRoom(c)
  <2> DEFINE p == CHOOSE i \in 1 .. Len(chat_users) : chat_users[i] = c
             w == [i \in 1 .. Len(chat_users) - 1 |-> chat_users[IF i < p THEN i ELSE i + 1]]
  <2>1. p \in 1 .. Len(chat_users) /\ chat_users[p] = c
    BY <1>2 DEF Chat!InRoom
  <2>2. Chat!Without(c) = w
    BY <1>2 DEF Chat!Without
  <2> HIDE DEF p
  <2>3. \A i \in 1 .. Len(chat_users) - 1 :
           LET k == IF i < p THEN i ELSE i + 1
           IN  k \in 1 .. Len(chat_users) /\ k # p /\ w[i] = chat_users[k]
    BY <1>0, <2>1
  <2>4. w \in Seq(Chat!Conns) /\ Len(w) = Len(chat_users) - 1
    <3>1. \A i \in 1 .. Len(chat_users) - 1 : w[i] \in Chat!Conns
      BY <1>0, <2>3
    <3>2. Len(chat_users) - 1 \in Nat
      BY <1>0, <2>1
    <3> QED
      BY <3>1, <3>2
  <2>5. \A i, j \in 1 .. Len(w) : w[i] = w[j] => i = j
    BY <1>0, <2>1, <2>3, <2>4
  <2>6. ASSUME NEW b, NEW i \in 1 .. Len(w), w[i] = b
        PROVE  Chat!InRoom(b) /\ b # c
    BY <2>1, <2>3, <2>4, <2>6 DEF Chat!InRoom
  <2>7. ASSUME NEW b, Chat!InRoom(b), b # c
        PROVE  \E i \in 1 .. Len(w) : w[i] = b
    <3>1. PICK k \in 1 .. Len(chat_users) : chat_users[k] = b
      BY <2>7 DEF Chat!InRoom
    <3>2. k # p
      BY <2>1, <2>7, <3>1
    <3>3. CASE k < p
      <4>1. k \in 1 .. Len(w) /\ w[k] = b
        BY <1>0, <2>1, <2>4, <3>1, <3>3
      <4> QED
        BY <4>1
    <3>4. CASE p < k
      <4>1. k - 1 \in 1 .. Len(w) /\ w[k - 1] = b
        BY <1>0, <2>1, <2>4, <3>1, <3>4
      <4> QED
        BY <4>1
    <3>5. k < p \/ p < k
      <4>1. k \in Nat /\ p \in Nat
        BY <1>0, <2>1, <3>1
      <4> QED
        BY <3>2, <4>1
    <3> QED
      BY <3>3, <3>4, <3>5
  <2> HIDE DEF w
  <2> QED
    BY <2>2, <2>4, <2>5, <2>6, <2>7
<1> QED
  BY <1>1, <1>2

(* Steps that send a frame to somebody, with what they do after, and steps *)
(* that only go on.                                                        *)
Begin(c, rank, fds, next) ==
  /\ Chat!Send(c, rank, fds, next)
  /\ UNCHANGED <<client, fd, texts, writer, armed, full, fills, heard, begun, amid, torn>>
  /\ \/ /\ UNCHANGED <<registered, chat_users>>
        /\ \/ handler[c] = "handshake" /\ rank = Chat!Other /\ next \in {"closing", "reading"}
           \/ handler[c] = "reading" /\ rank = Chat!Other /\ next \in {"removing", "reading"}
           \/ handler[c] = "joining" /\ rank = Chat!Joined /\ next = "listing"
           \/ handler[c] = "telling" /\ rank = Chat!Text(c) /\ next = "reading"
           \/ /\ handler[c] = "leaving" /\ rank = Chat!Left /\ next = "listing_last"
              /\ \A r \in Chat!Conns : Chat!InRoom(r) => \E i \in 1 .. Len(fds) : fds[i] = fd[r]
           \/ handler[c] = "listing" /\ rank = Chat!Other /\ next = "reading"
           \/ handler[c] = "listing_last" /\ rank = Chat!Other /\ next = "closing"
     \/ /\ handler[c] = "reading" /\ c \notin registered
        /\ registered' = registered \cup {c} /\ chat_users' = Append(chat_users, c)
        /\ rank = Chat!Other /\ next = "joining"

(* A handler begins a frame, to each descriptor once.                      *)
Begins(c) ==
  \E rank \in 0 .. Chat!Left, fds \in Seq(Chat!Fds), next \in Chat!States :
    Begin(c, rank, fds, next) /\ \A i, j \in 1 .. Len(fds) : fds[i] = fds[j] => i = j

(* A handler goes on and sends nothing.                                    *)
Moves(c) ==
  /\ UNCHANGED <<client, fd, job, registered, writer, armed, full, fills, heard, begun, amid, torn>>
  /\ \/ handler[c] = "reading" /\ Chat!Goto(c, "removing") /\ UNCHANGED <<texts, chat_users>>
     \/ /\ handler[c] = "reading" /\ c \in registered /\ Chat!Goto(c, "telling")
        /\ texts[c] < MaxTexts /\ texts' = [texts EXCEPT ![c] = @ + 1] /\ UNCHANGED chat_users
     \/ /\ handler[c] = "removing" /\ chat_users' = Chat!Without(c) /\ UNCHANGED texts
        /\ Chat!Goto(c, IF c \in registered THEN "leaving" ELSE "closing")

(* A handler closes its descriptor.                                        *)
Closes(c) == handler[c] \in {"handshake", "closing"} /\ Chat!CloseFd(c)

(* A broadcast goes to each member but the excluded one, once.             *)
Sends(c, rank, excluded, next) ==
  \E fds \in Seq(Chat!Fds) :
    /\ Chat!Send(c, rank, fds, next)
    /\ \A i, j \in 1 .. Len(fds) : fds[i] = fds[j] => i = j
    /\ \A r \in Chat!Conns :
         Chat!InRoom(r) /\ r # excluded => \E i \in 1 .. Len(fds) : fds[i] = fd[r]

LEMMA BroadcastSends ==
  ASSUME Chat!TypeOK, Chat!Connections, Chat!Room, NEW c \in Chat!Conns,
         NEW rank, NEW excluded, NEW next, Chat!Broadcast(c, rank, excluded, next)
  PROVE  Sends(c, rank, excluded, next)
<1> DEFINE w == Chat!Without(excluded)
           fds == [i \in 1 .. Len(w) |-> fd[w[i]]]
<1>1. /\ w \in Seq(Chat!Conns) /\ Len(w) \in Nat
      /\ \A i, j \in 1 .. Len(w) : w[i] = w[j] => i = j
      /\ \A b : (\E i \in 1 .. Len(w) : w[i] = b) <=> Chat!InRoom(b) /\ b # excluded
  BY WithoutOne DEF Chat!Room
<1>2. Chat!Send(c, rank, fds, next)
  BY DEF Chat!Broadcast
<1> HIDE DEF w
<1>3. \A i \in 1 .. Len(w) : w[i] \in Chat!Conns /\ fd[w[i]] \in Chat!Fds
  <2>1. ASSUME NEW i \in 1 .. Len(w) PROVE w[i] \in Chat!Conns /\ fd[w[i]] \in Chat!Fds
    <3>1. w[i] \in Chat!Conns /\ Chat!InRoom(w[i])
      BY <1>1
    <3>2. Chat!After(w[i]) \in {"reading", "joining", "listing", "telling", "removing"}
      BY <3>1 DEF Chat!Room
    <3>3. fd[w[i]] # 0
      BY <3>1, <3>2 DEF Chat!Connections, Chat!After, Chat!Moving
    <3>4. fd[w[i]] \in 0 .. MaxFd
      BY <3>1 DEF Chat!TypeOK
    <3> QED
      BY <3>1, <3>3, <3>4 DEF Chat!Fds
  <2> QED
    BY <2>1
<1>4. fds \in Seq(Chat!Fds) /\ Len(fds) = Len(w)
  BY <1>1, <1>3
<1>5. \A i, j \in 1 .. Len(fds) : fds[i] = fds[j] => i = j
  BY <1>1, <1>3, <1>4 DEF Chat!Connections, Chat!Fds
<1>6. \A r \in Chat!Conns : Chat!InRoom(r) /\ r # excluded
          => \E i \in 1 .. Len(fds) : fds[i] = fd[r]
  BY <1>1, <1>3, <1>4
<1> HIDE DEF fds
<1> QED
  BY <1>2, <1>4, <1>5, <1>6 DEF Sends

(* What the sockets do to no handler: a frame is taken in part, or read.   *)
Quiet ==
  UNCHANGED <<client, fd, handler, registered, texts, job, chat_users, writer, armed, heard>>

(* Every step of the server is of one of these kinds.                      *)
LEMMA ChatSteps ==
  ASSUME Chat!ChatAssumption, Chat!TypeOK, Chat!Connections, Chat!Jobs, Chat!Room, Chat!Next
  PROVE  \/ \E c \in Chat!Conns :
              \/ Begins(c) \/ Moves(c) \/ Closes(c) \/ Chat!Accept(c) \/ Chat!Disconnect(c)
              \/ Chat!SendFails(c) \/ Chat!SendTakes(c) \/ Chat!SendWaits(c)
              \/ Chat!SendTakesPart(c) /\ Quiet
         \/ \E d \in Chat!Fds : Chat!Writable(d) \/ (Chat!Drain(d) /\ Quiet)
<1> USE DEF Chat!room, Chat!reactor, Chat!network, Chat!stream
<1>1. ASSUME NEW c \in Chat!Conns, Chat!Handle(c), ~Chat!Write(c)
      PROVE  Begins(c) \/ Moves(c) \/ Closes(c)
  <2>0. /\ Chat!Other \in 0 .. Chat!Left /\ Chat!Joined \in 0 .. Chat!Left
        /\ Chat!Left \in 0 .. Chat!Left
        /\ Chat!Text(c) \in 0 .. Chat!Left
        /\ {"reading", "joining", "listing", "removing", "listing_last", "closing"} \subseteq Chat!States
    BY RanksAreNumbers DEF Chat!TypeOK, Chat!Text, Chat!Left, Chat!Joined, Chat!ChatAssumption,
       Chat!States
  <2>1. ASSUME fd[c] \in Chat!Fds, NEW next, Chat!Reply(c, next)
        PROVE  <<fd[c]>> \in Seq(Chat!Fds) /\ Chat!Send(c, Chat!Other, <<fd[c]>>, next)
               /\ \A i, j \in 1 .. Len(<<fd[c]>>) : <<fd[c]>>[i] = <<fd[c]>>[j] => i = j
    BY <2>1 DEF Chat!Reply
  <2>2. handler[c] \in {"handshake", "reading"} => fd[c] \in Chat!Fds
    <3>1. handler[c] \in {"handshake", "reading"} => fd[c] # 0
      BY DEF Chat!Connections
    <3>2. fd[c] \in 0 .. MaxFd
      BY DEF Chat!TypeOK
    <3> QED
      BY <3>1, <3>2 DEF Chat!Fds
  <2>3. CASE Chat!SendPage(c) \/ Chat!AcceptHandshake(c)
    <3>1. PICK next \in {"closing", "reading"} : handler[c] = "handshake" /\ Chat!Reply(c, next)
      BY <2>3 DEF Chat!SendPage, Chat!AcceptHandshake
    <3>2. Begin(c, Chat!Other, <<fd[c]>>, next)
      BY <2>1, <2>2, <2>3, <3>1 DEF Begin, Chat!SendPage, Chat!AcceptHandshake
    <3> QED
      BY <2>0, <2>1, <2>2, <3>1, <3>2 DEF Begins
  <2>4. CASE Chat!ReadClose(c) \/ Chat!ReadPing(c)
    <3>1. PICK next \in {"removing", "reading"} : handler[c] = "reading" /\ Chat!Reply(c, next)
      BY <2>4 DEF Chat!ReadClose, Chat!ReadPing, Chat!Reads
    <3>2. Begin(c, Chat!Other, <<fd[c]>>, next)
      BY <2>1, <2>2, <2>4, <3>1 DEF Begin, Chat!ReadClose, Chat!ReadPing
    <3> QED
      BY <2>0, <2>1, <2>2, <3>1, <3>2, ZenonT(60) DEF Begins
  <2>5. CASE Chat!ReadNickname(c)
    <3>1. handler[c] = "reading" /\ Chat!Reply(c, "joining")
      BY <2>5 DEF Chat!ReadNickname, Chat!Reads
    <3>2. Begin(c, Chat!Other, <<fd[c]>>, "joining")
      BY <2>1, <2>2, <2>5, <3>1 DEF Begin, Chat!ReadNickname
    <3> QED
      BY <2>0, <2>1, <2>2, <3>1, <3>2 DEF Begins
  <2>6. CASE Chat!TellJoin(c)
    <3>1. PICK fds \in Seq(Chat!Fds) : /\ Chat!Send(c, Chat!Joined, fds, "listing")
                                  /\ \A i, j \in 1 .. Len(fds) : fds[i] = fds[j] => i = j
      <4>1. Chat!Broadcast(c, Chat!Joined, c, "listing")
        BY <2>6 DEF Chat!TellJoin
      <4>2. Sends(c, Chat!Joined, c, "listing")
        BY <4>1, BroadcastSends
      <4> QED
        BY <4>2 DEF Sends
    <3>2. Begin(c, Chat!Joined, fds, "listing")
      BY <2>6, <3>1 DEF Begin, Chat!TellJoin
    <3> QED
      BY <2>0, <3>1, <3>2 DEF Begins
  <2>7. CASE Chat!TellText(c)
    <3>1. PICK fds \in Seq(Chat!Fds) : /\ Chat!Send(c, Chat!Text(c), fds, "reading")
                                  /\ \A i, j \in 1 .. Len(fds) : fds[i] = fds[j] => i = j
      <4>1. Chat!Broadcast(c, Chat!Text(c), Chat!Nobody, "reading")
        BY <2>7 DEF Chat!TellText
      <4>2. Sends(c, Chat!Text(c), Chat!Nobody, "reading")
        BY <4>1, BroadcastSends
      <4> QED
        BY <4>2 DEF Sends
    <3>2. Begin(c, Chat!Text(c), fds, "reading")
      BY <2>7, <3>1 DEF Begin, Chat!TellText
    <3> QED
      BY <2>0, <3>1, <3>2 DEF Begins
  <2>8. CASE Chat!TellLeave(c)
    <3>1. PICK fds \in Seq(Chat!Fds) :
            /\ Chat!Send(c, Chat!Left, fds, "listing_last")
            /\ \A i, j \in 1 .. Len(fds) : fds[i] = fds[j] => i = j
            /\ \A r \in Chat!Conns : Chat!InRoom(r) /\ r # Chat!Nobody
                   => \E i \in 1 .. Len(fds) : fds[i] = fd[r]
      <4>1. Chat!Broadcast(c, Chat!Left, Chat!Nobody, "listing_last")
        BY <2>8 DEF Chat!TellLeave
      <4>2. Sends(c, Chat!Left, Chat!Nobody, "listing_last")
        BY <4>1, BroadcastSends
      <4> QED
        BY <4>2 DEF Sends
    <3>2. \A r \in Chat!Conns : r # Chat!Nobody
      BY DEF Chat!Conns, Chat!Nobody
    <3>3. Begin(c, Chat!Left, fds, "listing_last")
      BY <2>8, <3>1, <3>2 DEF Begin, Chat!TellLeave
    <3> QED
      BY <2>0, <3>1, <3>3 DEF Begins
  <2>9. CASE Chat!TellList(c)
    <3> DEFINE next == IF handler[c] = "listing" THEN "reading" ELSE "closing"
    <3>1. PICK fds \in Seq(Chat!Fds) : /\ Chat!Send(c, Chat!Other, fds, next)
                                  /\ \A i, j \in 1 .. Len(fds) : fds[i] = fds[j] => i = j
      <4>1. Chat!Broadcast(c, Chat!Other, Chat!Nobody, next)
        BY <2>9 DEF Chat!TellList
      <4>2. Sends(c, Chat!Other, Chat!Nobody, next)
        BY <4>1, BroadcastSends
      <4> QED
        BY <4>2 DEF Sends
    <3>2. Begin(c, Chat!Other, fds, next)
      BY <2>9, <3>1 DEF Begin, Chat!TellList
    <3> QED
      BY <2>0, <3>1, <3>2 DEF Begins
  <2>10. CASE Chat!ReadEnd(c) \/ Chat!ReadShort(c) \/ Chat!ReadText(c) \/ Chat!Remove(c)
    BY <2>10 DEF Chat!ReadEnd, Chat!ReadShort, Chat!ReadText, Chat!Remove, Moves, Chat!Reads
  <2>11. CASE Chat!RefuseHandshake(c) \/ Chat!Close(c)
    BY <2>11 DEF Chat!RefuseHandshake, Chat!Close, Closes
  <2> QED
    BY <1>1, <2>3, <2>4, <2>5, <2>6, <2>7, <2>8, <2>9, <2>10, <2>11
       DEF Chat!Handle, Chat!Handshake, Chat!Read, Chat!Tell
<1>2. /\ \A c : Chat!SendTakesPart(c) => Quiet
      /\ \A d : Chat!Drain(d) => Quiet
  BY DEF Chat!SendTakesPart, Chat!Drain, Quiet
<1> QED
  BY <1>1, <1>2 DEF Chat!Next, Chat!Handle, Chat!Write

(* A frame reaches the client that has the descriptor, nobody else.        *)
LEMMA DeliverEffect ==
  ASSUME Chat!ChatAssumption, Chat!TypeOK, Chat!Connections, NEW c \in Chat!Conns,
         Chat!Connected(Chat!Target(c)), Chat!Deliver(c)
  PROVE  \E r \in Chat!Conns :
           /\ fd[r] = Chat!Target(c) /\ fd[r] # 0 /\ client[r] = "connected"
           /\ \A b \in Chat!Conns : fd[b] = Chat!Target(c) => b = r
           /\ \/ /\ ~Chat!Fits(c) \/ job[c].rank = Chat!Other \/ ~Chat!InRoom(r)
                 /\ heard' = heard
              \/ /\ Chat!Fits(c) /\ job[c].rank # Chat!Other /\ Chat!InRoom(r)
                 /\ job[c].rank \in 1 .. Chat!Left
                 /\ heard' \in [Chat!Conns -> [Chat!Conns -> Seq(1 .. Chat!Left)]]
                 /\ heard'[r][c] = Append(heard[r][c], job[c].rank)
                 /\ \A b, s \in Chat!Conns : b # r \/ s # c => heard'[b][s] = heard[b][s]
<1> DEFINE r == Chat!ConnOf(Chat!Target(c))
<1>1. r \in Chat!Conns /\ fd[r] = Chat!Target(c) /\ Chat!Target(c) # 0 /\ client[r] = "connected"
  BY DEF Chat!Connected, Chat!Open, Chat!ConnOf
<1>2. \A b \in Chat!Conns : fd[b] = Chat!Target(c) => b = r
  BY <1>1 DEF Chat!Connections
<1>3. \/ /\ ~Chat!Fits(c) \/ job[c].rank = Chat!Other \/ ~Chat!InRoom(r)
         /\ heard' = heard
      \/ /\ Chat!Fits(c) /\ job[c].rank # Chat!Other /\ Chat!InRoom(r)
         /\ heard' = [heard EXCEPT ![r][c] = Append(@, job[c].rank)]
  BY DEF Chat!Deliver, Chat!Receiver
<1> HIDE DEF r
<1>4. CASE Chat!Fits(c) /\ job[c].rank # Chat!Other /\ Chat!InRoom(r)
           /\ heard' = [heard EXCEPT ![r][c] = Append(@, job[c].rank)]
  <2>1. job[c].rank \in 0 .. Chat!Left /\ Chat!Left \in Nat
    BY RanksAreNumbers DEF Chat!TypeOK, Chat!Job
  <2>2. job[c].rank \in 1 .. Chat!Left
    BY <1>4, <2>1 DEF Chat!Other
  <2>3. heard \in [Chat!Conns -> [Chat!Conns -> Seq(1 .. Chat!Left)]]
    BY DEF Chat!TypeOK
  <2> DEFINE said == Append(heard[r][c], job[c].rank)
  <2>4. said \in Seq(1 .. Chat!Left)
    BY <1>1, <2>2, <2>3
  <2>5. heard' = [heard EXCEPT ![r][c] = said]
    BY <1>4
  <2> HIDE DEF said
  <2>6. /\ heard' \in [Chat!Conns -> [Chat!Conns -> Seq(1 .. Chat!Left)]]
        /\ heard'[r][c] = said
        /\ \A b, s \in Chat!Conns : b # r \/ s # c => heard'[b][s] = heard[b][s]
    BY <1>1, <2>3, <2>4, <2>5
  <2> USE DEF said
  <2> QED
    BY <1>1, <1>2, <1>4, <2>2, <2>6
<1> QED
  BY <1>1, <1>2, <1>3, <1>4

(* The stream of client r goes on with what c sends, or is torn.           *)
Arrives(c, next, r) ==
  /\ fd[r] = Chat!Target(c) /\ fd[r] # 0 /\ client[r] = "connected"
  /\ \A b \in Chat!Conns : fd[b] = Chat!Target(c) => b = r
  /\ \A b \in Chat!Conns : b # r => amid'[b] = amid[b] /\ torn'[b] = torn[b]
  /\ c \in begun /\ amid[r] = c /\ torn[r] = {} => Chat!Fits(c)
  /\ \/ Chat!Fits(c) /\ amid'[r] = next /\ torn[r] = {} /\ torn'[r] = {}
     \/ ~Chat!Fits(c) /\ amid'[r] = Chat!Nobody /\ torn[r] # {} /\ torn'[r] = torn[r]
     \/ /\ ~Chat!Fits(c) /\ amid'[r] = Chat!Nobody
        /\ torn[r] = {} /\ torn'[r] = {<<amid[r], c>>}

(* What is sent reaches the stream of whoever has the descriptor.          *)
LEMMA ArriveEffect ==
  ASSUME Chat!TypeOK, Chat!Connections, NEW c \in Chat!Conns,
         NEW next \in Chat!Conns \cup {Chat!Nobody}, Chat!Connected(Chat!Target(c)), Chat!Arrive(c, next)
  PROVE  /\ amid' \in [Chat!Conns -> Chat!Conns \cup {Chat!Nobody}]
         /\ torn' \in [Chat!Conns -> SUBSET ((Chat!Conns \cup {Chat!Nobody}) \X Chat!Conns)]
         /\ \E r \in Chat!Conns : Arrives(c, next, r)
<1> DEFINE r == Chat!Receiver(c)
<1>1. r \in Chat!Conns /\ fd[r] = Chat!Target(c) /\ Chat!Target(c) # 0 /\ client[r] = "connected"
  BY DEF Chat!Connected, Chat!Open, Chat!ConnOf, Chat!Receiver
<1>2. \A b \in Chat!Conns : fd[b] = Chat!Target(c) => b = r
  BY <1>1 DEF Chat!Connections
<1>3. Chat!Fits(c) <=> torn[r] = {} /\ amid[r] = IF c \in begun THEN c ELSE Chat!Nobody
  BY DEF Chat!Fits
<1>4. /\ amid' = [amid EXCEPT ![r] = IF Chat!Fits(c) THEN next ELSE Chat!Nobody]
      /\ torn' = [torn EXCEPT ![r] =
                    IF Chat!Fits(c) \/ torn[r] # {} THEN torn[r] ELSE {<<amid[r], c>>}]
  BY <1>1 DEF Chat!Arrive, Chat!TypeOK
<1> HIDE DEF r
<1>5. /\ amid \in [Chat!Conns -> Chat!Conns \cup {Chat!Nobody}]
      /\ torn \in [Chat!Conns -> SUBSET ((Chat!Conns \cup {Chat!Nobody}) \X Chat!Conns)]
  BY DEF Chat!TypeOK
<1>6. {<<amid[r], c>>} \in SUBSET ((Chat!Conns \cup {Chat!Nobody}) \X Chat!Conns)
  BY <1>1, <1>5
<1>7. /\ amid' \in [Chat!Conns -> Chat!Conns \cup {Chat!Nobody}]
      /\ torn' \in [Chat!Conns -> SUBSET ((Chat!Conns \cup {Chat!Nobody}) \X Chat!Conns)]
  BY <1>1, <1>4, <1>5, <1>6
<1>8. Arrives(c, next, r)
  BY <1>1, <1>2, <1>3, <1>4, <1>5 DEF Arrives
<1> QED
  BY <1>1, <1>7, <1>8

(* accept() takes a descriptor that nobody has.                            *)
LEMMA LowestIsFree ==
  ASSUME Chat!ChatAssumption, NEW c \in Chat!Conns, Chat!Accept(c)
  PROVE  \E d \in Chat!Fds \ Chat!Open : fd' = [fd EXCEPT ![c] = d] /\ armed' = armed \cup {fd'[c]}
<1>1. Chat!Fds \ Chat!Open \in SUBSET Nat
  BY DEF Chat!Fds, Chat!ChatAssumption
<1>2. \E d \in Chat!Fds \ Chat!Open : \A e \in Chat!Fds \ Chat!Open : d <= e
  BY <1>1, Least DEF Chat!Accept
<1> DEFINE d == CHOOSE d \in Chat!Fds \ Chat!Open : \A e \in Chat!Fds \ Chat!Open : d <= e
<1>3. d \in Chat!Fds \ Chat!Open
  BY <1>2
<1>4. fd' = [fd EXCEPT ![c] = d] /\ armed' = armed \cup {fd'[c]}
  BY DEF Chat!Accept
<1> QED
  BY <1>3, <1>4

(* Only sockets of connections fill up.                                    *)
LEMMA FillsUp ==
  ASSUME Chat!TypeOK, NEW c \in Chat!Conns, Chat!Connected(Chat!Target(c)),
         Chat!FillUp(Chat!Target(c))
  PROVE  full' \subseteq Chat!Fds /\ fills' \in Nat
<1>1. Chat!Target(c) \in Chat!Fds
  BY DEF Chat!Connected, Chat!Open, Chat!TypeOK, Chat!Fds
<1> QED
  BY <1>1 DEF Chat!FillUp, Chat!TypeOK

(* Every step keeps the types of the server's variables.                   *)
LEMMA ChatTypeStep ==
  ASSUME Chat!ChatAssumption, Chat!TypeOK, Chat!Connections, Chat!Jobs, Chat!Room,
         [Chat!Next]_Chat!vars
  PROVE  Chat!TypeOK'
<1> USE DEF Chat!room, Chat!reactor, Chat!network, Chat!stream
<1>1. CASE UNCHANGED Chat!vars
  BY <1>1 DEF Chat!TypeOK, Chat!vars
<1>2. ASSUME NEW c \in Chat!Conns, Begins(c) PROVE Chat!TypeOK'
  <2>1. PICK rank \in 0 .. Chat!Left, fds \in Seq(Chat!Fds), next \in Chat!States :
               Begin(c, rank, fds, next)
    BY <1>2 DEF Begins
  <2>2. handler' \in [Chat!Conns -> Chat!States] /\ job' \in [Chat!Conns -> Chat!Job]
    BY <2>1, SendEffect DEF Begin
  <2>3. registered' \subseteq Chat!Conns /\ chat_users' \in Seq(Chat!Conns)
    <3>1. Append(chat_users, c) \in Seq(Chat!Conns) /\ registered \cup {c} \subseteq Chat!Conns
      BY DEF Chat!TypeOK
    <3> QED
      BY <2>1, <3>1 DEF Begin, Chat!TypeOK
  <2> QED
    BY <2>1, <2>2, <2>3 DEF Begin, Chat!TypeOK
<1>3. ASSUME NEW c \in Chat!Conns, Moves(c) PROVE Chat!TypeOK'
  <2>1. /\ {"removing", "telling", "leaving", "closing"} \subseteq Chat!States
        /\ Chat!Without(c) \in Seq(Chat!Conns)
    BY WithoutOne DEF Chat!States, Chat!Room
  <2>2. texts' \in [Chat!Conns -> 0 .. MaxTexts] /\ chat_users' \in Seq(Chat!Conns)
    BY <1>3, <2>1 DEF Moves, Chat!TypeOK, Chat!ChatAssumption
  <2>3. handler' \in [Chat!Conns -> Chat!States]
    BY <1>3, <2>1 DEF Moves, Chat!TypeOK, Chat!Goto
  <2> QED
    BY <1>3, <2>2, <2>3 DEF Moves, Chat!TypeOK
<1>4. ASSUME NEW c \in Chat!Conns, Closes(c) PROVE Chat!TypeOK'
  <2>1. /\ client' \in [Chat!Conns -> {"away", "connected", "gone"}]
        /\ fd' \in [Chat!Conns -> 0 .. MaxFd] /\ handler' \in [Chat!Conns -> Chat!States]
        /\ texts' \in [Chat!Conns -> 0 .. MaxTexts]
    BY <1>4 DEF Closes, Chat!CloseFd, Chat!TypeOK, Chat!Goto, Chat!States, Chat!ChatAssumption
  <2>2. heard' \in [Chat!Conns -> [Chat!Conns -> Seq(1 .. Chat!Left)]]
    BY <1>4 DEF Closes, Chat!CloseFd, Chat!TypeOK
  <2>3. /\ amid' \in [Chat!Conns -> Chat!Conns \cup {Chat!Nobody}]
        /\ torn' \in [Chat!Conns -> SUBSET ((Chat!Conns \cup {Chat!Nobody}) \X Chat!Conns)]
    BY <1>4 DEF Closes, Chat!CloseFd, Chat!TypeOK
  <2> QED
    BY <1>4, <2>1, <2>2, <2>3 DEF Closes, Chat!CloseFd, Chat!TypeOK
<1>5. ASSUME NEW c \in Chat!Conns, Chat!Accept(c) PROVE Chat!TypeOK'
  <2>1. PICK d \in Chat!Fds : fd' = [fd EXCEPT ![c] = d] /\ armed' = armed \cup {fd'[c]}
    BY <1>5, LowestIsFree
  <2>2. fd' \in [Chat!Conns -> 0 .. MaxFd] /\ armed' \subseteq Chat!Fds
    <3>1. fd' \in [Chat!Conns -> 0 .. MaxFd] /\ fd'[c] = d
      BY <2>1 DEF Chat!TypeOK, Chat!Fds, Chat!ChatAssumption
    <3> QED
      BY <2>1, <3>1 DEF Chat!TypeOK
  <2> QED
    BY <1>5, <2>2 DEF Chat!Accept, Chat!TypeOK, Chat!Goto, Chat!States
<1>6. ASSUME NEW c \in Chat!Conns, Chat!Disconnect(c) PROVE Chat!TypeOK'
  BY <1>6 DEF Chat!Disconnect, Chat!TypeOK
<1>7. ASSUME NEW c \in Chat!Conns, Chat!SendFails(c) PROVE Chat!TypeOK'
  <2>1. begun' \subseteq Chat!Conns
    BY <1>7 DEF Chat!SendFails, Chat!Proceed, Chat!TypeOK
  <2>2. handler' \in [Chat!Conns -> Chat!States] /\ job' \in [Chat!Conns -> Chat!Job]
    BY <1>7, ProceedEffect DEF Chat!SendFails, Chat!Jobs, Chat!Moving
  <2> QED
    BY <1>7, <2>1, <2>2 DEF Chat!SendFails, Chat!TypeOK
<1>8. ASSUME NEW c \in Chat!Conns, Chat!SendTakes(c) PROVE Chat!TypeOK'
  <2>1. heard' \in [Chat!Conns -> [Chat!Conns -> Seq(1 .. Chat!Left)]]
    BY <1>8, DeliverEffect DEF Chat!SendTakes, Chat!HasRoom, Chat!TypeOK
  <2>2. begun' \subseteq Chat!Conns
    BY <1>8 DEF Chat!SendTakes, Chat!Proceed, Chat!TypeOK
  <2>3. handler' \in [Chat!Conns -> Chat!States] /\ job' \in [Chat!Conns -> Chat!Job]
    BY <1>8, ProceedEffect DEF Chat!SendTakes, Chat!HasRoom, Chat!Jobs, Chat!Moving
  <2>4. full' \subseteq Chat!Fds /\ fills' \in Nat
    BY <1>8, FillsUp DEF Chat!SendTakes, Chat!HasRoom, Chat!TypeOK
  <2>5. /\ amid' \in [Chat!Conns -> Chat!Conns \cup {Chat!Nobody}]
        /\ torn' \in [Chat!Conns -> SUBSET ((Chat!Conns \cup {Chat!Nobody}) \X Chat!Conns)]
    BY <1>8, ArriveEffect DEF Chat!SendTakes, Chat!HasRoom
  <2> QED
    BY <1>8, <2>1, <2>2, <2>3, <2>4, <2>5 DEF Chat!SendTakes, Chat!TypeOK
<1>9. ASSUME NEW c \in Chat!Conns, Chat!SendWaits(c) PROVE Chat!TypeOK'
  <2>1. Chat!Target(c) \in Chat!Fds
    BY <1>9 DEF Chat!SendWaits, Chat!Wait, Chat!TypeOK
  <2> QED
    BY <1>9, <2>1 DEF Chat!SendWaits, Chat!Wait, Chat!TypeOK, Chat!Goto, Chat!States, Chat!Moving
<1>10. ASSUME NEW d \in Chat!Fds, Chat!Writable(d) PROVE Chat!TypeOK'
  BY <1>10 DEF Chat!Writable, Chat!TypeOK, Chat!Goto, Chat!States, Chat!Moving
<1>11. ASSUME NEW d \in Chat!Fds, Chat!Drain(d) PROVE Chat!TypeOK'
  BY <1>11 DEF Chat!Drain, Chat!TypeOK
<1>12. ASSUME NEW c \in Chat!Conns, Chat!SendTakesPart(c) PROVE Chat!TypeOK'
  <2>1. begun' \subseteq Chat!Conns
    BY <1>12 DEF Chat!SendTakesPart, Chat!TypeOK
  <2>2. full' \subseteq Chat!Fds /\ fills' \in Nat
    BY <1>12, FillsUp DEF Chat!SendTakesPart, Chat!HasRoom
  <2>3. /\ amid' \in [Chat!Conns -> Chat!Conns \cup {Chat!Nobody}]
        /\ torn' \in [Chat!Conns -> SUBSET ((Chat!Conns \cup {Chat!Nobody}) \X Chat!Conns)]
    BY <1>12, ArriveEffect DEF Chat!SendTakesPart, Chat!HasRoom
  <2> QED
    BY <1>12, <2>1, <2>2, <2>3 DEF Chat!SendTakesPart, Chat!TypeOK
<1> QED
  BY <1>1, <1>2, <1>3, <1>4, <1>5, <1>6, <1>7, <1>8, <1>9, <1>10, <1>11, <1>12, ChatSteps

(* Every step keeps a descriptor to one connection.                        *)
LEMMA ConnectionsStep ==
  ASSUME Chat!ChatAssumption, Chat!TypeOK, Chat!Connections, Chat!Jobs, Chat!Room,
         [Chat!Next]_Chat!vars
  PROVE  Chat!Connections'
<1> USE DEF Chat!room, Chat!reactor, Chat!network, Chat!stream
<1>1. CASE UNCHANGED Chat!vars
  BY <1>1 DEF Chat!Connections, Chat!vars
<1>2. ASSUME NEW c \in Chat!Conns, UNCHANGED <<client, fd>>,
             \A b \in Chat!Conns : b # c => handler'[b] = handler[b],
             handler[c] \notin {"none", "ended"}, handler'[c] \notin {"none", "ended"}
      PROVE  Chat!Connections'
  BY <1>2 DEF Chat!Connections
<1>3. ASSUME NEW c \in Chat!Conns, Begins(c) PROVE Chat!Connections'
  <2>1. PICK rank \in 0 .. Chat!Left, fds \in Seq(Chat!Fds), next \in Chat!States :
               Begin(c, rank, fds, next)
    BY <1>3 DEF Begins
  <2>2. /\ \A b \in Chat!Conns : b # c => handler'[b] = handler[b]
        /\ handler'[c] = next \/ handler'[c] = "sending"
    BY <2>1, SendEffect DEF Begin
  <2> QED
    BY <1>2, <2>1, <2>2 DEF Begin
<1>4. ASSUME NEW c \in Chat!Conns, Moves(c) PROVE Chat!Connections'
  BY <1>2, <1>4 DEF Moves, Chat!TypeOK, Chat!Goto
<1>5. ASSUME NEW c \in Chat!Conns, Closes(c) PROVE Chat!Connections'
  BY <1>5 DEF Closes, Chat!CloseFd, Chat!TypeOK, Chat!Goto, Chat!Connections
<1>6. ASSUME NEW c \in Chat!Conns, Chat!Accept(c) PROVE Chat!Connections'
  <2>1. PICK d \in Chat!Fds \ Chat!Open : fd' = [fd EXCEPT ![c] = d]
    BY <1>6, LowestIsFree
  <2>2. d # 0 /\ \A b \in Chat!Conns : fd[b] # d
    BY <2>1 DEF Chat!Fds, Chat!Open
  <2>3. /\ client'[c] = "connected" /\ handler'[c] = "handshake" /\ fd'[c] = d
        /\ \A b \in Chat!Conns : b # c =>
             client'[b] = client[b] /\ handler'[b] = handler[b] /\ fd'[b] = fd[b]
    BY <1>6, <2>1 DEF Chat!Accept, Chat!TypeOK, Chat!Goto
  <2> QED
    BY <2>2, <2>3 DEF Chat!Connections
<1>7. ASSUME NEW c \in Chat!Conns, Chat!Disconnect(c) PROVE Chat!Connections'
  BY <1>7 DEF Chat!Disconnect, Chat!TypeOK, Chat!Connections
<1>8. ASSUME NEW c \in Chat!Conns, Chat!SendFails(c) \/ Chat!SendTakes(c) PROVE Chat!Connections'
  <2>1. /\ \A b \in Chat!Conns : b # c => handler'[b] = handler[b]
        /\ handler'[c] = job[c].then \/ handler'[c] = "sending"
    BY <1>8, ProceedEffect DEF Chat!SendFails, Chat!SendTakes, Chat!HasRoom, Chat!Jobs, Chat!Moving
  <2>2. job[c].then \notin {"none", "ended"}
    BY <1>8 DEF Chat!SendFails, Chat!SendTakes, Chat!HasRoom, Chat!Jobs, Chat!Moving
  <2> QED
    BY <1>2, <1>8, <2>1, <2>2 DEF Chat!SendFails, Chat!SendTakes, Chat!HasRoom
<1>9. ASSUME NEW c \in Chat!Conns, Chat!SendWaits(c) PROVE Chat!Connections'
  BY <1>2, <1>9 DEF Chat!SendWaits, Chat!Wait, Chat!Goto, Chat!TypeOK
<1>10. ASSUME NEW d \in Chat!Fds, Chat!Writable(d) PROVE Chat!Connections'
  <2>1. writer[d] \in Chat!Conns /\ handler[writer[d]] = "parked"
    BY <1>10 DEF Chat!Writable, Chat!TypeOK, Chat!Jobs
  <2> QED
    BY <1>2, <1>10, <2>1 DEF Chat!Writable, Chat!Goto, Chat!TypeOK
<1>11. ASSUME Quiet PROVE Chat!Connections'
  BY <1>11 DEF Quiet, Chat!Connections
<1> QED
  BY <1>1, <1>3, <1>4, <1>5, <1>6, <1>7, <1>8, <1>9, <1>10, <1>11, ChatSteps

(* What is said of a handler's job is the handler's and the job's alone.   *)
LEMMA OthersKept ==
  ASSUME NEW b, handler'[b] = handler[b], job'[b] = job[b]
  PROVE  /\ Chat!After(b)' = Chat!After(b) /\ (Chat!Ranked(b)' <=> Chat!Ranked(b))
         /\ \A d : (Chat!InTodo(d, b)' <=> Chat!InTodo(d, b))
BY DEF Chat!After, Chat!Ranked, Chat!InTodo

(* What a handler that begins a frame changes, of itself only.             *)
LEMMA BeginEffect ==
  ASSUME Chat!ChatAssumption, Chat!TypeOK, NEW c \in Chat!Conns, NEW rank \in 0 .. Chat!Left,
         NEW fds \in Seq(Chat!Fds),
         NEW next \in Chat!States, Begin(c, rank, fds, next)
  PROVE  /\ handler[c] \notin Chat!Moving /\ next \notin Chat!Moving
         /\ Chat!After(c) = handler[c] /\ Chat!After(c)' = next /\ ~Chat!Ranked(c)
         /\ \A b \in Chat!Conns : b # c =>
              /\ handler'[b] = handler[b] /\ job'[b] = job[b]
              /\ Chat!After(b)' = Chat!After(b) /\ (Chat!Ranked(b)' <=> Chat!Ranked(b))
              /\ \A d : (Chat!InTodo(d, b)' <=> Chat!InTodo(d, b))
         /\ Chat!Ranked(c)' <=> (fds # <<>> /\ rank # Chat!Other)
         /\ \/ fds = <<>> /\ handler'[c] = next
            \/ /\ fds # <<>> /\ handler'[c] = "sending"
               /\ job'[c].rank = rank /\ job'[c].todo = fds /\ job'[c].then = next
<1>1. handler[c] \notin Chat!Moving /\ next \notin Chat!Moving
  BY DEF Begin, Chat!Moving
<1>2. /\ \A b \in Chat!Conns : b # c => handler'[b] = handler[b] /\ job'[b] = job[b]
      /\ \/ fds = <<>> /\ handler'[c] = next
         \/ /\ fds # <<>> /\ handler'[c] = "sending"
            /\ job'[c].rank = rank /\ job'[c].todo = fds /\ job'[c].then = next
  BY SendEffect DEF Begin
<1>3. Chat!After(c) = handler[c] /\ ~Chat!Ranked(c) /\ Chat!After(c)' = next
  BY <1>1, <1>2 DEF Chat!After, Chat!Ranked, Chat!Moving
<1>4. Chat!Ranked(c)' <=> (fds # <<>> /\ rank # Chat!Other)
  BY <1>1, <1>2 DEF Chat!Ranked, Chat!Moving
<1> QED
  BY <1>1, <1>2, <1>3, <1>4, OthersKept

(* What a handler that goes on with its job changes.                       *)
LEMMA ProceedMoves ==
  ASSUME Chat!ChatAssumption, Chat!TypeOK, Chat!Jobs, NEW c \in Chat!Conns,
         handler[c] = "sending", Chat!Proceed(c)
  PROVE  /\ Chat!After(c) = job[c].then /\ Chat!After(c)' = Chat!After(c)
         /\ \A b \in Chat!Conns : b # c =>
              /\ handler'[b] = handler[b] /\ job'[b] = job[b]
              /\ Chat!After(b)' = Chat!After(b) /\ (Chat!Ranked(b)' <=> Chat!Ranked(b))
              /\ \A d : (Chat!InTodo(d, b)' <=> Chat!InTodo(d, b))
         /\ Chat!Ranked(c)' => Chat!Ranked(c)
         /\ \/ handler'[c] = job[c].then /\ handler'[c] \notin Chat!Moving
            \/ handler'[c] = "sending" /\ job'[c].todo # <<>>
               /\ \A i, j \in 1 .. Len(job'[c].todo) : job'[c].todo[i] = job'[c].todo[j] => i = j
         /\ handler'[c] \in Chat!Moving =>
              /\ (Chat!Ranked(c)' <=> Chat!Ranked(c))
              /\ job'[c].rank = job[c].rank /\ job'[c].then = job[c].then
              /\ \A d : Chat!InTodo(d, c)' => Chat!InTodo(d, c) /\ d # Chat!Target(c)
         /\ \A d : Chat!InTodo(d, c) /\ d # Chat!Target(c)
                => handler'[c] \in Chat!Moving /\ Chat!InTodo(d, c)'
<1>0. job[c].todo \in Seq(Chat!Fds) /\ Len(job[c].todo) \in Nat /\ job[c].todo # <<>>
  BY DEF Chat!TypeOK, Chat!Job, Chat!Jobs, Chat!Moving
<1>1. /\ \A b \in Chat!Conns : b # c => handler'[b] = handler[b] /\ job'[b] = job[b]
      /\ \/ Len(job[c].todo) = 1 /\ handler'[c] = job[c].then
         \/ /\ Len(job[c].todo) > 1 /\ handler'[c] = "sending"
            /\ job'[c].rank = job[c].rank /\ job'[c].then = job[c].then
            /\ job'[c].todo = Tail(job[c].todo) /\ job'[c].todo # <<>>
  BY <1>0, ProceedEffect
<1>2. /\ job[c].then \notin Chat!Moving
      /\ \A i, j \in 1 .. Len(job[c].todo) : job[c].todo[i] = job[c].todo[j] => i = j
  BY DEF Chat!Jobs, Chat!Moving
<1>3. Chat!After(c) = job[c].then /\ Chat!After(c)' = Chat!After(c)
  BY <1>1, <1>2 DEF Chat!After, Chat!Moving
<1>4. CASE Len(job[c].todo) = 1 /\ handler'[c] = job[c].then
  <2>1. \A d : Chat!InTodo(d, c) => d = Chat!Target(c)
    BY <1>0, <1>4 DEF Chat!InTodo, Chat!Target
  <2>2. ~Chat!Ranked(c)'
    BY <1>2, <1>4 DEF Chat!Ranked
  <2> QED
    BY <1>1, <1>2, <1>3, <1>4, <2>1, <2>2, OthersKept
<1>5. CASE /\ Len(job[c].todo) > 1 /\ handler'[c] = "sending"
           /\ job'[c].rank = job[c].rank /\ job'[c].then = job[c].then
           /\ job'[c].todo = Tail(job[c].todo) /\ job'[c].todo # <<>>
  <2> DEFINE queue == job[c].todo
             rest == Tail(job[c].todo)
  <2>1. /\ Len(rest) = Len(queue) - 1
        /\ \A i \in 1 .. Len(rest) : rest[i] = queue[i + 1] /\ i + 1 \in 1 .. Len(queue)
    BY <1>0, <1>5
  <2>2. Chat!Target(c) = queue[1] /\ 1 \in 1 .. Len(queue)
    BY <1>0, <1>5 DEF Chat!Target
  <2>3. \A i, j \in 1 .. Len(rest) : rest[i] = rest[j] => i = j
    BY <1>0, <1>2, <2>1
  <2>4. \A d : Chat!InTodo(d, c)' => Chat!InTodo(d, c) /\ d # Chat!Target(c)
    <3>1. ASSUME NEW d, NEW i \in 1 .. Len(rest), rest[i] = d
          PROVE  Chat!InTodo(d, c) /\ d # Chat!Target(c)
      <4>1. queue[i + 1] = d /\ i + 1 \in 1 .. Len(queue) /\ i + 1 # 1
        BY <1>0, <2>1, <3>1
      <4> QED
        BY <1>2, <2>2, <4>1 DEF Chat!InTodo
    <3> QED
      BY <1>5, <3>1 DEF Chat!InTodo
  <2>5. \A d : Chat!InTodo(d, c) /\ d # Chat!Target(c) => Chat!InTodo(d, c)'
    <3>1. ASSUME NEW d, d # Chat!Target(c), NEW i \in 1 .. Len(queue), queue[i] = d
          PROVE  \E j \in 1 .. Len(rest) : rest[j] = d
      <4>1. i # 1
        BY <2>2, <3>1
      <4>2. i - 1 \in 1 .. Len(rest) /\ (i - 1) + 1 = i
        BY <1>0, <2>1, <3>1, <4>1
      <4>3. rest[i - 1] = d
        BY <2>1, <3>1, <4>2
      <4> QED
        BY <4>2, <4>3
    <3> QED
      BY <1>5, <3>1 DEF Chat!InTodo
  <2>6. (Chat!Ranked(c)' <=> Chat!Ranked(c))
    BY <1>5 DEF Chat!Ranked, Chat!Moving
  <2>7. "sending" \in Chat!Moving
    BY DEF Chat!Moving
  <2> HIDE DEF queue, rest
  <2> QED
    BY <1>1, <1>3, <1>5, <2>3, <2>4, <2>5, <2>6, <2>7, OthersKept DEF rest
<1> QED
  BY <1>1, <1>4, <1>5

(* Every step keeps what the jobs and the reactor have of each other.      *)
LEMMA JobsStep ==
  ASSUME Chat!ChatAssumption, Chat!TypeOK, Chat!Connections, Chat!Jobs, Chat!Room,
         [Chat!Next]_Chat!vars
  PROVE  Chat!Jobs'
<1> USE DEF Chat!room, Chat!reactor, Chat!network, Chat!stream
<1>1. CASE UNCHANGED Chat!vars
  BY <1>1 DEF Chat!Jobs, Chat!vars
<1>2. ASSUME NEW c \in Chat!Conns, UNCHANGED writer, handler[c] # "parked",
             \A b \in Chat!Conns : b # c => handler'[b] = handler[b] /\ job'[b] = job[b],
             handler'[c] \in Chat!Moving =>
               /\ job'[c].todo # <<>>
               /\ job'[c].then \in {"reading", "joining", "listing", "removing", "listing_last", "closing"}
               /\ \A i, j \in 1 .. Len(job'[c].todo) : job'[c].todo[i] = job'[c].todo[j] => i = j
      PROVE  Chat!Jobs'
  <2>1. \A d \in Chat!Fds : writer[d] # Chat!Nobody => writer[d] \in Chat!Conns /\ writer[d] # c
    BY <1>2 DEF Chat!Jobs, Chat!TypeOK
  <2>2. \A d \in Chat!Fds : writer'[d] # Chat!Nobody => handler'[writer'[d]] = "parked"
    BY <1>2, <2>1 DEF Chat!Jobs
  <2>3. \A b \in Chat!Conns : handler'[b] \in Chat!Moving =>
         /\ job'[b].todo # <<>>
         /\ job'[b].then \in {"reading", "joining", "listing", "removing", "listing_last", "closing"}
         /\ \A i, j \in 1 .. Len(job'[b].todo) : job'[b].todo[i] = job'[b].todo[j] => i = j
    <3>1. ASSUME NEW b \in Chat!Conns, b # c, handler'[b] \in Chat!Moving
          PROVE  /\ job'[b].todo # <<>>
                 /\ job'[b].then \in {"reading", "joining", "listing", "removing", "listing_last", "closing"}
                 /\ \A i, j \in 1 .. Len(job'[b].todo) : job'[b].todo[i] = job'[b].todo[j] => i = j
      BY <1>2, <3>1 DEF Chat!Jobs
    <3> QED
      BY <1>2, <3>1
  <2> QED
    BY <1>2, <2>2, <2>3 DEF Chat!Jobs
<1>3. ASSUME NEW c \in Chat!Conns, Begins(c) PROVE Chat!Jobs'
  <2>1. PICK rank \in 0 .. Chat!Left, fds \in Seq(Chat!Fds), next \in Chat!States :
          Begin(c, rank, fds, next) /\ \A i, j \in 1 .. Len(fds) : fds[i] = fds[j] => i = j
    BY <1>3 DEF Begins
  <2>2. next \in {"reading", "joining", "listing", "removing", "listing_last", "closing"}
        /\ UNCHANGED writer
    BY <2>1 DEF Begin
  <2> QED
    BY <1>2, <2>1, <2>2, BeginEffect DEF Chat!Moving
<1>4. ASSUME NEW c \in Chat!Conns, Moves(c) PROVE Chat!Jobs'
  BY <1>2, <1>4 DEF Moves, Chat!TypeOK, Chat!Goto, Chat!Moving
<1>5. ASSUME NEW c \in Chat!Conns, Closes(c) PROVE Chat!Jobs'
  BY <1>2, <1>5 DEF Closes, Chat!CloseFd, Chat!TypeOK, Chat!Goto, Chat!Moving
<1>6. ASSUME NEW c \in Chat!Conns, Chat!Accept(c) PROVE Chat!Jobs'
  <2>1. handler[c] = "none"
    BY <1>6 DEF Chat!Accept, Chat!Connections
  <2> QED
    BY <1>2, <1>6, <2>1 DEF Chat!Accept, Chat!TypeOK, Chat!Goto, Chat!Moving
<1>7. ASSUME NEW c \in Chat!Conns, Chat!Disconnect(c) PROVE Chat!Jobs'
  BY <1>7 DEF Chat!Disconnect, Chat!Jobs
<1>8. ASSUME NEW c \in Chat!Conns, Chat!SendFails(c) \/ Chat!SendTakes(c) PROVE Chat!Jobs'
  <2>1. handler[c] = "sending" /\ Chat!Proceed(c) /\ UNCHANGED writer
    BY <1>8 DEF Chat!SendFails, Chat!SendTakes, Chat!HasRoom
  <2>2. job[c].then \in {"reading", "joining", "listing", "removing", "listing_last", "closing"}
    BY <2>1 DEF Chat!Jobs, Chat!Moving
  <2> QED
    BY <1>2, <2>1, <2>2, ProceedMoves
<1>9. ASSUME NEW c \in Chat!Conns, Chat!SendWaits(c) PROVE Chat!Jobs'
  <2>1. Chat!Target(c) \in Chat!Fds
    BY <1>9 DEF Chat!SendWaits, Chat!Wait, Chat!TypeOK
  <2>2. \A d \in Chat!Fds : writer[d] # c
    BY <1>9 DEF Chat!SendWaits, Chat!Wait, Chat!Jobs, Chat!Conns, Chat!Nobody
  <2>3. /\ handler'[c] = "parked" /\ job' = job
        /\ \A b \in Chat!Conns : b # c => handler'[b] = handler[b]
        /\ writer'[Chat!Target(c)] = c /\ \A d \in Chat!Fds : d # Chat!Target(c)
               => writer'[d] = writer[d]
    BY <1>9, <2>1 DEF Chat!SendWaits, Chat!Wait, Chat!TypeOK, Chat!Goto
  <2>4. handler[c] \in Chat!Moving /\ handler'[c] \in Chat!Moving
    BY <1>9, <2>3 DEF Chat!SendWaits, Chat!Wait, Chat!Moving
  <2>5. \A b \in Chat!Conns : handler'[b] \in Chat!Moving => handler[b] \in Chat!Moving
    BY <2>3, <2>4
  <2>6. \A b \in Chat!Conns : handler'[b] \in Chat!Moving =>
         /\ job'[b].todo # <<>>
         /\ job'[b].then \in {"reading", "joining", "listing", "removing", "listing_last", "closing"}
         /\ \A i, j \in 1 .. Len(job'[b].todo) : job'[b].todo[i] = job'[b].todo[j] => i = j
    BY <2>3, <2>5 DEF Chat!Jobs
  <2>7. \A e \in Chat!Fds : writer'[e] # Chat!Nobody => handler'[writer'[e]] = "parked"
    BY <2>1, <2>2, <2>3, ZenonT(60) DEF Chat!Jobs, Chat!TypeOK
  <2>8. \A d1, d2 \in Chat!Fds : writer'[d1] = writer'[d2] /\ writer'[d1] # Chat!Nobody => d1 = d2
    BY <2>1, <2>2, <2>3 DEF Chat!Jobs
  <2> QED
    BY <2>6, <2>7, <2>8 DEF Chat!Jobs
<1>10. ASSUME NEW d \in Chat!Fds, Chat!Writable(d) PROVE Chat!Jobs'
  <2>1. writer[d] \in Chat!Conns /\ handler[writer[d]] = "parked"
    BY <1>10 DEF Chat!Writable, Chat!TypeOK, Chat!Jobs
  <2>2. /\ handler'[writer[d]] = "sending" /\ job' = job
        /\ \A b \in Chat!Conns : b # writer[d] => handler'[b] = handler[b]
        /\ writer'[d] = Chat!Nobody /\ \A e \in Chat!Fds : e # d => writer'[e] = writer[e]
    BY <1>10, <2>1 DEF Chat!Writable, Chat!TypeOK, Chat!Goto
  <2>3. handler[writer[d]] \in Chat!Moving /\ handler'[writer[d]] \in Chat!Moving
    BY <2>1, <2>2 DEF Chat!Moving
  <2>5. \A b \in Chat!Conns : handler'[b] \in Chat!Moving => handler[b] \in Chat!Moving
    BY <2>2, <2>3
  <2>6. \A b \in Chat!Conns : handler'[b] \in Chat!Moving =>
         /\ job'[b].todo # <<>>
         /\ job'[b].then \in {"reading", "joining", "listing", "removing", "listing_last", "closing"}
         /\ \A i, j \in 1 .. Len(job'[b].todo) : job'[b].todo[i] = job'[b].todo[j] => i = j
    BY <2>2, <2>5 DEF Chat!Jobs
  <2>7. \A e \in Chat!Fds : writer'[e] # Chat!Nobody => handler'[writer'[e]] = "parked"
    <3>1. ASSUME NEW e \in Chat!Fds, writer'[e] # Chat!Nobody PROVE handler'[writer'[e]] = "parked"
      <4>1. e # d /\ writer'[e] = writer[e]
        BY <2>2, <3>1
      <4>2. writer[e] \in Chat!Conns /\ handler[writer[e]] = "parked" /\ writer[e] # writer[d]
        BY <1>10, <3>1, <4>1 DEF Chat!Jobs, Chat!TypeOK, Chat!Writable
      <4> QED
        BY <2>2, <4>1, <4>2
    <3> QED
      BY <3>1
  <2>8. \A d1, d2 \in Chat!Fds : writer'[d1] = writer'[d2] /\ writer'[d1] # Chat!Nobody => d1 = d2
    BY <1>10, <2>1, <2>2 DEF Chat!Jobs
  <2> QED
    BY <2>6, <2>7, <2>8 DEF Chat!Jobs
<1>11. ASSUME Quiet PROVE Chat!Jobs'
  BY <1>11 DEF Quiet, Chat!Jobs
<1> QED
  BY <1>1, <1>3, <1>4, <1>5, <1>6, <1>7, <1>8, <1>9, <1>10, <1>11, ChatSteps

(* Every step keeps the list of users that of the registered who are not   *)
(* yet removed.                                                            *)
LEMMA RoomStep ==
  ASSUME Chat!ChatAssumption, Chat!TypeOK, Chat!Connections, Chat!Jobs, Chat!Room,
         [Chat!Next]_Chat!vars
  PROVE  Chat!Room'
<1> USE DEF Chat!room, Chat!reactor, Chat!network, Chat!stream
<1> DEFINE Listed == {"reading", "joining", "listing", "telling", "removing"}
           Unlisted == {"none", "handshake", "reading", "removing", "closing", "ended"}
<1>1. CASE UNCHANGED Chat!vars
  BY <1>1 DEF Chat!Room, Chat!After, Chat!InRoom, Chat!vars
<1>2. ASSUME UNCHANGED <<registered, chat_users>>,
             \A b \in Chat!Conns : Chat!After(b)' = Chat!After(b)
      PROVE  Chat!Room'
  BY <1>2 DEF Chat!Room, Chat!InRoom
<1>3. ASSUME NEW c \in Chat!Conns,
             \A i, j \in 1 .. Len(chat_users') : chat_users'[i] = chat_users'[j] => i = j,
             \A b \in Chat!Conns : b # c =>
               /\ Chat!After(b)' = Chat!After(b) /\ (Chat!InRoom(b)' <=> Chat!InRoom(b))
               /\ (b \in registered' <=> b \in registered),
             Chat!InRoom(c)' <=> (c \in registered' /\ Chat!After(c)' \in Listed),
             c \notin registered' => Chat!After(c)' \in Unlisted,
             Chat!After(c)' \in {"none", "handshake", "ended"} => c \notin registered'
      PROVE  Chat!Room'
  <2>1. ASSUME NEW b \in Chat!Conns
        PROVE  /\ Chat!InRoom(b)' <=> (b \in registered' /\ Chat!After(b)' \in Listed)
               /\ b \notin registered' => Chat!After(b)' \in Unlisted
               /\ Chat!After(b)' \in {"none", "handshake", "ended"} => b \notin registered'
    <3>1. CASE b = c
      BY <1>3, <3>1
    <3>2. CASE b # c
      BY <1>3, <3>2 DEF Chat!Room
    <3> QED
      BY <3>1, <3>2
  <2> QED
    BY <1>3, <2>1 DEF Chat!Room
<1>4. ASSUME NEW c \in Chat!Conns, UNCHANGED <<registered, chat_users>>,
             \A b \in Chat!Conns : b # c => Chat!After(b)' = Chat!After(b),
             Chat!InRoom(c) <=> (c \in registered /\ Chat!After(c)' \in Listed),
             c \notin registered => Chat!After(c)' \in Unlisted,
             Chat!After(c)' \in {"none", "handshake", "ended"} => c \notin registered
      PROVE  Chat!Room'
  <2>1. \A b \in Chat!Conns : (Chat!InRoom(b)' <=> Chat!InRoom(b))
    BY <1>4 DEF Chat!InRoom
  <2>2. \A i, j \in 1 .. Len(chat_users') : chat_users'[i] = chat_users'[j] => i = j
    BY <1>4 DEF Chat!Room
  <2> QED
    BY <1>3, <1>4, <2>1, <2>2
<1>5. ASSUME NEW c \in Chat!Conns, Begins(c) PROVE Chat!Room'
  <2>1. PICK rank \in 0 .. Chat!Left, fds \in Seq(Chat!Fds), next \in Chat!States :
               Begin(c, rank, fds, next)
    BY <1>5 DEF Begins
  <2>2. Chat!After(c) = handler[c] /\ Chat!After(c)' = next /\ \A b \in Chat!Conns : b # c
            => Chat!After(b)' = Chat!After(b)
    BY <2>1, BeginEffect
  <2>3. /\ Chat!InRoom(c) <=> (c \in registered /\ Chat!After(c) \in Listed)
        /\ c \notin registered => Chat!After(c) \in Unlisted
        /\ Chat!After(c) \in {"none", "handshake", "ended"} => c \notin registered
    BY DEF Chat!Room
  <2>4. CASE UNCHANGED <<registered, chat_users>>
    <3>1. \/ handler[c] = "handshake" /\ next \in {"closing", "reading"}
          \/ handler[c] = "reading" /\ next \in {"removing", "reading"}
          \/ handler[c] = "joining" /\ next = "listing"
          \/ handler[c] = "telling" /\ next = "reading"
          \/ handler[c] = "leaving" /\ next = "listing_last"
          \/ handler[c] = "listing" /\ next = "reading"
          \/ handler[c] = "listing_last" /\ next = "closing"
          \/ handler[c] = "reading" /\ c \notin registered /\ registered' = registered \cup {c}
      BY <2>1 DEF Begin
    <3>2. /\ Chat!InRoom(c) <=> (c \in registered /\ Chat!After(c)' \in Listed)
          /\ c \notin registered => Chat!After(c)' \in Unlisted
          /\ Chat!After(c)' \in {"none", "handshake", "ended"} => c \notin registered
      BY <2>2, <2>3, <2>4, <3>1
    <3> QED
      BY <1>4, <2>2, <2>4, <3>2
  <2>5. CASE /\ handler[c] = "reading" /\ c \notin registered
             /\ registered' = registered \cup {c} /\ chat_users' = Append(chat_users, c)
             /\ next = "joining"
    <3>0. chat_users \in Seq(Chat!Conns) /\ Len(chat_users) \in Nat
      BY DEF Chat!TypeOK
    <3>1. /\ Len(chat_users') = Len(chat_users) + 1
          /\ chat_users'[Len(chat_users) + 1] = c
          /\ \A i \in 1 .. Len(chat_users) : chat_users'[i] = chat_users[i]
      BY <2>5, <3>0
    <3>2. \A i \in 1 .. Len(chat_users) : chat_users[i] # c
      BY <2>3, <2>5 DEF Chat!InRoom
    <3>3. \A i \in 1 .. Len(chat_users') : i \in 1 .. Len(chat_users) \/ i = Len(chat_users) + 1
      BY <3>0, <3>1
    <3>4. \A i, j \in 1 .. Len(chat_users') : chat_users'[i] = chat_users'[j] => i = j
      BY <3>1, <3>2, <3>3 DEF Chat!Room
    <3>5. /\ 1 .. Len(chat_users) \subseteq 1 .. Len(chat_users')
          /\ Len(chat_users) + 1 \in 1 .. Len(chat_users')
      BY <3>0, <3>1
    <3>6. \A b \in Chat!Conns : b # c => (Chat!InRoom(b)' <=> Chat!InRoom(b))
      BY <3>1, <3>3, <3>5 DEF Chat!InRoom
    <3>7. Chat!InRoom(c)'
      BY <3>1, <3>5 DEF Chat!InRoom
    <3> QED
      BY <1>3, <2>2, <2>5, <3>4, <3>6, <3>7
  <2> QED
    BY <2>1, <2>4, <2>5 DEF Begin
<1>6. ASSUME NEW c \in Chat!Conns, Moves(c) PROVE Chat!Room'
  <2>1. /\ \A b \in Chat!Conns : b # c => Chat!After(b)' = Chat!After(b)
        /\ handler[c] \notin Chat!Moving /\ Chat!After(c) = handler[c]
        /\ Chat!After(c)' = handler'[c] /\ registered' = registered
    BY <1>6 DEF Moves, Chat!Goto, Chat!TypeOK, Chat!After, Chat!Moving
  <2>2. /\ Chat!InRoom(c) <=> (c \in registered /\ Chat!After(c) \in Listed)
        /\ c \notin registered => Chat!After(c) \in Unlisted
        /\ Chat!After(c) \in {"none", "handshake", "ended"} => c \notin registered
    BY DEF Chat!Room
  <2>3. \/ handler[c] = "reading" /\ handler'[c] = "removing" /\ chat_users' = chat_users
        \/ /\ handler[c] = "reading" /\ c \in registered /\ handler'[c] = "telling"
           /\ chat_users' = chat_users
        \/ /\ handler[c] = "removing" /\ chat_users' = Chat!Without(c)
           /\ (c \in registered /\ handler'[c] = "leaving") \/ (c \notin registered /\ handler'[c] = "closing")
    <3>1. CASE handler[c] = "reading" /\ Chat!Goto(c, "removing") /\ UNCHANGED <<texts, chat_users>>
      BY <3>1 DEF Chat!Goto, Chat!TypeOK
    <3>2. CASE handler[c] = "reading" /\ c \in registered /\ Chat!Goto(c, "telling") /\ UNCHANGED chat_users
      BY <3>2 DEF Chat!Goto, Chat!TypeOK
    <3>3. CASE /\ handler[c] = "removing" /\ chat_users' = Chat!Without(c)
               /\ Chat!Goto(c, IF c \in registered THEN "leaving" ELSE "closing")
      <4>1. handler'[c] = IF c \in registered THEN "leaving" ELSE "closing"
        BY <3>3 DEF Chat!Goto, Chat!TypeOK
      <4>2. c \in registered => handler'[c] = "leaving"
        BY <4>1
      <4>3. c \notin registered => handler'[c] = "closing"
        BY <4>1
      <4> QED
        BY <3>3, <4>2, <4>3
    <3> QED
      BY <1>6, <3>1, <3>2, <3>3 DEF Moves
  <2>4. CASE chat_users' = chat_users /\ handler[c] = "reading" /\ handler'[c] \in {"removing", "telling"}
             /\ (handler'[c] = "telling" => c \in registered)
    BY <1>4, <2>1, <2>2, <2>4
  <2>5. CASE /\ chat_users' = Chat!Without(c)
             /\ (c \in registered /\ handler'[c] = "leaving") \/ (c \notin registered /\ handler'[c] = "closing")
    <3>1. /\ \A i, j \in 1 .. Len(chat_users') : chat_users'[i] = chat_users'[j] => i = j
          /\ \A b : Chat!InRoom(b)' <=> (Chat!InRoom(b) /\ b # c)
      <4>1. \A i, j \in 1 .. Len(chat_users) : chat_users[i] = chat_users[j] => i = j
        BY DEF Chat!Room
      <4>2. /\ \A i, j \in 1 .. Len(Chat!Without(c)) :
                 Chat!Without(c)[i] = Chat!Without(c)[j] => i = j
            /\ \A b : (\E i \in 1 .. Len(Chat!Without(c)) : Chat!Without(c)[i] = b)
                 <=> Chat!InRoom(b) /\ b # c
        BY <4>1, WithoutOne
      <4>3. \A b : Chat!InRoom(b)' <=> \E i \in 1 .. Len(Chat!Without(c)) : Chat!Without(c)[i] = b
        BY <2>5 DEF Chat!InRoom
      <4> QED
        BY <2>5, <4>2, <4>3
    <3> QED
      BY <1>3, <2>1, <2>5, <3>1
  <2> QED
    BY <2>3, <2>4, <2>5
<1>7. ASSUME NEW c \in Chat!Conns, Closes(c) PROVE Chat!Room'
  <2>1. /\ \A b \in Chat!Conns : b # c => Chat!After(b)' = Chat!After(b)
        /\ Chat!After(c) = handler[c] /\ Chat!After(c)' = "ended"
        /\ registered' = registered \ {c} /\ chat_users' = chat_users
    BY <1>7 DEF Closes, Chat!CloseFd, Chat!Goto, Chat!TypeOK, Chat!After, Chat!Moving
  <2>2. handler[c] \in {"handshake", "closing"}
    BY <1>7 DEF Closes
  <2>3. ~Chat!InRoom(c)
    BY <2>1, <2>2 DEF Chat!Room
  <2>4. \A b \in Chat!Conns : (Chat!InRoom(b)' <=> Chat!InRoom(b))
    BY <2>1 DEF Chat!InRoom
  <2>5. \A i, j \in 1 .. Len(chat_users') : chat_users'[i] = chat_users'[j] => i = j
    BY <2>1 DEF Chat!Room
  <2> QED
    BY <1>3, <2>1, <2>3, <2>4, <2>5
<1>8. ASSUME NEW c \in Chat!Conns, Chat!Accept(c) PROVE Chat!Room'
  <2>1. /\ \A b \in Chat!Conns : b # c => Chat!After(b)' = Chat!After(b)
        /\ handler[c] = "none" /\ Chat!After(c) = "none" /\ Chat!After(c)' = "handshake"
        /\ registered' = registered /\ chat_users' = chat_users
    BY <1>8 DEF Chat!Accept, Chat!Connections, Chat!Goto, Chat!TypeOK, Chat!After, Chat!Moving
  <2>2. c \notin registered /\ ~Chat!InRoom(c)
    BY <2>1 DEF Chat!Room
  <2> QED
    BY <1>4, <2>1, <2>2
<1>9. ASSUME NEW c \in Chat!Conns, Chat!Disconnect(c) PROVE Chat!Room'
  BY <1>2, <1>9 DEF Chat!Disconnect, Chat!After
<1>10. ASSUME NEW c \in Chat!Conns, Chat!SendFails(c) \/ Chat!SendTakes(c) PROVE Chat!Room'
  <2>1. handler[c] = "sending" /\ Chat!Proceed(c) /\ UNCHANGED <<registered, chat_users>>
    BY <1>10 DEF Chat!SendFails, Chat!SendTakes, Chat!HasRoom
  <2> QED
    BY <1>2, <2>1, ProceedMoves
<1>11. ASSUME NEW c \in Chat!Conns, Chat!SendWaits(c) PROVE Chat!Room'
  <2>1. \A b \in Chat!Conns : Chat!After(b)' = Chat!After(b)
    BY <1>11 DEF Chat!SendWaits, Chat!Wait, Chat!Goto, Chat!TypeOK, Chat!After, Chat!Moving
  <2> QED
    BY <1>2, <1>11, <2>1 DEF Chat!SendWaits, Chat!Wait
<1>12. ASSUME NEW d \in Chat!Fds, Chat!Writable(d) PROVE Chat!Room'
  <2>1. writer[d] \in Chat!Conns /\ handler[writer[d]] = "parked"
    BY <1>12 DEF Chat!Writable, Chat!TypeOK, Chat!Jobs
  <2>2. \A b \in Chat!Conns : Chat!After(b)' = Chat!After(b)
    BY <1>12, <2>1 DEF Chat!Writable, Chat!Goto, Chat!TypeOK, Chat!After, Chat!Moving
  <2> QED
    BY <1>2, <1>12, <2>2 DEF Chat!Writable
<1>13. ASSUME Quiet PROVE Chat!Room'
  BY <1>2, <1>13 DEF Quiet, Chat!After
<1> QED
  BY <1>1, <1>5, <1>6, <1>7, <1>8, <1>9, <1>10, <1>11, <1>12, <1>13, ChatSteps

(* The parts of Ranks: what is in a job, and what has been heard.          *)
JobRanks ==
  \A c \in Chat!Conns :
    /\ Chat!Ranked(c) =>
         /\ c \in registered
         /\ \/ job[c].then \in {"reading", "listing"} /\ job[c].rank <= 2 + texts[c]
            \/ job[c].then = "listing_last" /\ job[c].rank = Chat!Left
    /\ handler[c] = "telling" => texts[c] > 0

(* Every step keeps the ranks of jobs at what the member has said.         *)
LEMMA JobRanksStep ==
  ASSUME Chat!ChatAssumption, Chat!TypeOK, Chat!Connections, Chat!Jobs, Chat!Room, JobRanks,
         [Chat!Next]_Chat!vars
  PROVE  JobRanks'
<1> USE DEF Chat!room, Chat!reactor, Chat!network, Chat!stream
<1>1. CASE UNCHANGED Chat!vars
  BY <1>1 DEF JobRanks, Chat!Ranked, Chat!vars
<1>2. ASSUME NEW c \in Chat!Conns,
             \A b \in Chat!Conns : b # c =>
               /\ b \in registered => b \in registered'
               /\ Chat!Ranked(b)' <=> Chat!Ranked(b)
               /\ job'[b] = job[b] /\ texts'[b] = texts[b] /\ handler'[b] = handler[b],
             Chat!Ranked(c)' =>
               /\ c \in registered'
               /\ \/ job'[c].then \in {"reading", "listing"} /\ job'[c].rank <= 2 + texts'[c]
                  \/ job'[c].then = "listing_last" /\ job'[c].rank = Chat!Left,
             handler'[c] = "telling" => texts'[c] > 0
      PROVE  JobRanks'
  <2>1. ASSUME NEW b \in Chat!Conns, b # c
        PROVE  /\ Chat!Ranked(b)' =>
                    /\ b \in registered'
                    /\ \/ job'[b].then \in {"reading", "listing"} /\ job'[b].rank <= 2 + texts'[b]
                       \/ job'[b].then = "listing_last" /\ job'[b].rank = Chat!Left
               /\ handler'[b] = "telling" => texts'[b] > 0
    BY <1>2, <2>1 DEF JobRanks
  <2>2. Chat!Left' = Chat!Left
    BY DEF Chat!Left
  <2> QED
    BY <1>2, <2>1, <2>2 DEF JobRanks
<1>3. ASSUME NEW c \in Chat!Conns, Begins(c) PROVE JobRanks'
  <2>1. PICK rank \in 0 .. Chat!Left, fds \in Seq(Chat!Fds), next \in Chat!States :
               Begin(c, rank, fds, next)
    BY <1>3 DEF Begins
  <2>2. /\ \A b \in Chat!Conns : b # c =>
             handler'[b] = handler[b] /\ job'[b] = job[b] /\ (Chat!Ranked(b)' <=> Chat!Ranked(b))
        /\ Chat!After(c) = handler[c]
        /\ Chat!Ranked(c)' => rank # Chat!Other /\ job'[c].rank = rank /\ job'[c].then = next
        /\ handler'[c] = next \/ handler'[c] = "sending"
    BY <2>1, BeginEffect
  <2>3. texts' = texts /\ registered \subseteq registered'
    BY <2>1 DEF Begin
  <2>4. handler[c] \in {"joining", "telling", "leaving"} => c \in registered
    BY <2>2 DEF Chat!Room
  <2>5. texts[c] \in Nat /\ Chat!Joined = 1 /\ Chat!Text(c) = 2 + texts[c]
    BY DEF Chat!TypeOK, Chat!Joined, Chat!Text, Chat!ChatAssumption
  <2>6. rank # Chat!Other =>
          \/ handler[c] = "joining" /\ next = "listing" /\ rank <= 2 + texts[c]
          \/ handler[c] = "telling" /\ next = "reading" /\ rank <= 2 + texts[c]
          \/ handler[c] = "leaving" /\ next = "listing_last" /\ rank = Chat!Left
    BY <2>1, <2>5 DEF Begin
  <2>7. next # "telling"
    BY <2>1 DEF Begin
  <2> QED
    BY <1>2, <2>2, <2>3, <2>4, <2>6, <2>7
<1>4. ASSUME NEW c \in Chat!Conns, Moves(c) PROVE JobRanks'
  <2>1. /\ \A b \in Chat!Conns : b # c => handler'[b] = handler[b] /\ texts'[b] = texts[b]
        /\ handler'[c] \notin Chat!Moving /\ job' = job /\ registered' = registered
    BY <1>4 DEF Moves, Chat!Goto, Chat!TypeOK, Chat!Moving
  <2>2. handler'[c] = "telling" => texts'[c] = texts[c] + 1 /\ texts[c] \in Nat
    BY <1>4 DEF Moves, Chat!Goto, Chat!TypeOK, Chat!ChatAssumption
  <2>3. ~Chat!Ranked(c)' /\ \A b \in Chat!Conns : b # c => (Chat!Ranked(b)' <=> Chat!Ranked(b))
    BY <2>1 DEF Chat!Ranked
  <2> QED
    BY <1>2, <2>1, <2>2, <2>3
<1>5. ASSUME NEW c \in Chat!Conns, Closes(c) PROVE JobRanks'
  <2>1. /\ \A b \in Chat!Conns : b # c =>
             /\ handler'[b] = handler[b] /\ texts'[b] = texts[b]
             /\ b \in registered => b \in registered'
        /\ handler'[c] = "ended" /\ job' = job
    BY <1>5 DEF Closes, Chat!CloseFd, Chat!Goto, Chat!TypeOK
  <2>2. ~Chat!Ranked(c)' /\ \A b \in Chat!Conns : b # c => (Chat!Ranked(b)' <=> Chat!Ranked(b))
    BY <2>1 DEF Chat!Ranked, Chat!Moving
  <2> QED
    BY <1>2, <2>1, <2>2
<1>6. ASSUME NEW c \in Chat!Conns, Chat!Accept(c) PROVE JobRanks'
  <2>1. /\ \A b \in Chat!Conns : b # c => handler'[b] = handler[b]
        /\ handler'[c] = "handshake" /\ job' = job /\ texts' = texts /\ registered' = registered
    BY <1>6 DEF Chat!Accept, Chat!Goto, Chat!TypeOK
  <2>2. ~Chat!Ranked(c)' /\ \A b \in Chat!Conns : b # c => (Chat!Ranked(b)' <=> Chat!Ranked(b))
    BY <2>1 DEF Chat!Ranked, Chat!Moving
  <2> QED
    BY <1>2, <2>1, <2>2
<1>7. ASSUME NEW c \in Chat!Conns, Chat!Disconnect(c) PROVE JobRanks'
  BY <1>7 DEF Chat!Disconnect, JobRanks, Chat!Ranked
<1>8. ASSUME NEW c \in Chat!Conns, Chat!SendFails(c) \/ Chat!SendTakes(c) PROVE JobRanks'
  <2>1. handler[c] = "sending" /\ Chat!Proceed(c) /\ UNCHANGED <<texts, registered, chat_users>>
    BY <1>8 DEF Chat!SendFails, Chat!SendTakes, Chat!HasRoom
  <2>2. /\ \A b \in Chat!Conns : b # c =>
             handler'[b] = handler[b] /\ job'[b] = job[b] /\ (Chat!Ranked(b)' <=> Chat!Ranked(b))
        /\ Chat!Ranked(c)' => Chat!Ranked(c)
        /\ handler'[c] \in Chat!Moving => job'[c].rank = job[c].rank /\ job'[c].then = job[c].then
        /\ handler'[c] = job[c].then \/ handler'[c] = "sending"
    BY <2>1, ProceedMoves
  <2>3. Chat!Ranked(c)' => handler'[c] \in Chat!Moving
    BY DEF Chat!Ranked
  <2>4. job[c].then # "telling"
    BY <2>1 DEF Chat!Jobs, Chat!Moving
  <2>5. Chat!Ranked(c) =>
          /\ c \in registered
          /\ \/ job[c].then \in {"reading", "listing"} /\ job[c].rank <= 2 + texts[c]
             \/ job[c].then = "listing_last" /\ job[c].rank = Chat!Left
    BY DEF JobRanks
  <2> QED
    BY <1>2, <2>1, <2>2, <2>3, <2>4, <2>5
<1>9. ASSUME NEW c \in Chat!Conns, UNCHANGED <<registered, texts, job>>,
             handler[c] \in Chat!Moving, handler' \in [Chat!Conns -> Chat!States],
             handler'[c] \in Chat!Moving,
             \A b \in Chat!Conns : b # c => handler'[b] = handler[b]
      PROVE  JobRanks'
  <2>1. \A b \in Chat!Conns : Chat!Ranked(b)' <=> Chat!Ranked(b)
    BY <1>9 DEF Chat!Ranked
  <2>2. handler'[c] # "telling"
    BY <1>9 DEF Chat!Moving
  <2>3. Chat!Ranked(c) =>
          /\ c \in registered
          /\ \/ job[c].then \in {"reading", "listing"} /\ job[c].rank <= 2 + texts[c]
             \/ job[c].then = "listing_last" /\ job[c].rank = Chat!Left
    BY DEF JobRanks
  <2> QED
    BY <1>2, <1>9, <2>1, <2>2, <2>3
<1>10. ASSUME NEW c \in Chat!Conns, Chat!SendWaits(c) PROVE JobRanks'
  <2>1. /\ handler[c] \in Chat!Moving /\ handler'[c] \in Chat!Moving
        /\ handler' \in [Chat!Conns -> Chat!States]
        /\ \A b \in Chat!Conns : b # c => handler'[b] = handler[b]
    BY <1>10 DEF Chat!SendWaits, Chat!Wait, Chat!Goto, Chat!TypeOK, Chat!Moving, Chat!States
  <2> QED
    BY <1>9, <1>10, <2>1 DEF Chat!SendWaits, Chat!Wait
<1>11. ASSUME NEW d \in Chat!Fds, Chat!Writable(d) PROVE JobRanks'
  <2>1. writer[d] \in Chat!Conns /\ handler[writer[d]] = "parked"
    BY <1>11 DEF Chat!Writable, Chat!TypeOK, Chat!Jobs
  <2>2. /\ handler[writer[d]] \in Chat!Moving /\ handler'[writer[d]] \in Chat!Moving
        /\ handler' \in [Chat!Conns -> Chat!States]
        /\ \A b \in Chat!Conns : b # writer[d] => handler'[b] = handler[b]
    BY <1>11, <2>1 DEF Chat!Writable, Chat!Goto, Chat!TypeOK, Chat!Moving, Chat!States
  <2> QED
    BY <1>9, <1>11, <2>1, <2>2 DEF Chat!Writable
<1>12. ASSUME Quiet PROVE JobRanks'
  BY <1>12 DEF Quiet, JobRanks, Chat!Ranked
<1> QED
  BY <1>1, <1>3, <1>4, <1>5, <1>6, <1>7, <1>8, <1>10, <1>11, <1>12, ChatSteps

(* What a member has said last is a rank.                                  *)
LEMMA SaidIsNumber ==
  ASSUME Chat!ChatAssumption, Chat!TypeOK, NEW c \in Chat!Conns
  PROVE  Chat!Said(c) \in Nat
<1>1. texts[c] \in Nat /\ MaxTexts \in Nat /\ Chat!Left \in Nat /\ job[c].rank \in Nat
  BY RanksAreNumbers DEF Chat!TypeOK, Chat!ChatAssumption, Chat!Job
<1> QED
  BY <1>1 DEF Chat!Said

(* Who does not step, says nothing.                                        *)
LEMMA SaidKept ==
  ASSUME NEW b, handler'[b] = handler[b], job'[b] = job[b], texts'[b] = texts[b],
         b \in registered' <=> b \in registered
  PROVE  Chat!Said(b)' = Chat!Said(b)
<1>1. Chat!After(b)' = Chat!After(b) /\ (Chat!Ranked(b)' <=> Chat!Ranked(b))
  BY OthersKept
<1>2. Chat!Left' = Chat!Left
  BY DEF Chat!Left
<1> HIDE DEF Chat!After, Chat!Ranked
<1> QED
  BY <1>1, <1>2 DEF Chat!Said

(* A handler that begins to send says something new, or nothing.           *)
LEMMA BeginSays ==
  ASSUME Chat!ChatAssumption, Chat!TypeOK, Chat!Connections, Chat!Jobs, Chat!Room, JobRanks,
         NEW c \in Chat!Conns,
         NEW rank \in 0 .. Chat!Left, NEW fds \in Seq(Chat!Fds), NEW next \in Chat!States,
         Begin(c, rank, fds, next)
  PROVE  Chat!Said(c) <= Chat!Said(c)' /\ (rank # Chat!Other => Chat!Said(c) < rank)
<1>1. /\ handler[c] \notin Chat!Moving /\ Chat!After(c) = handler[c] /\ Chat!After(c)' = next
      /\ ~Chat!Ranked(c)
      /\ Chat!Ranked(c)' <=> fds # <<>> /\ rank # Chat!Other
      /\ Chat!Ranked(c)' => job'[c].rank = rank
      /\ handler'[c] = next \/ handler'[c] = "sending"
  BY BeginEffect
<1>2. /\ texts[c] \in 0 .. MaxTexts /\ texts[c] \in Nat /\ MaxTexts \in Nat
      /\ Chat!Left = 3 + MaxTexts
      /\ Chat!Joined = 1 /\ Chat!Text(c) = 2 + texts[c] /\ Chat!Left' = Chat!Left /\ Chat!Other = 0
  BY DEF Chat!TypeOK, Chat!ChatAssumption, Chat!Left, Chat!Joined, Chat!Text, Chat!Other
<1>3. texts' = texts
  BY DEF Begin
<1>4. c \notin registered
          => Chat!After(c) \in {"none", "handshake", "reading", "removing", "closing", "ended"}
  BY DEF Chat!Room
<1>5. handler'[c] # "ended" /\ handler[c] # "ended"
  BY <1>1 DEF Begin
<1> HIDE DEF Chat!After, Chat!Ranked
<1>6. CASE UNCHANGED <<registered, chat_users>> /\ rank = Chat!Other
  <2>1. ~Chat!Ranked(c)'
    BY <1>1, <1>6
  <2>2. \/ handler[c] = "handshake" /\ next \in {"closing", "reading"} /\ c \notin registered
        \/ handler[c] = "reading" /\ next \in {"removing", "reading"}
        \/ handler[c] = "listing" /\ next = "reading"
        \/ handler[c] = "listing_last" /\ next = "closing"
    BY <1>1, <1>2, <1>6 DEF Begin, Chat!Room, Chat!Joined, Chat!Other
  <2> QED
    BY <1>1, <1>2, <1>3, <1>5, <1>6, <2>1, <2>2 DEF Chat!Said
<1>7. CASE handler[c] = "reading" /\ c \notin registered /\ rank = Chat!Other /\ next = "joining"
  <2>1. Chat!Said(c) = 0
    BY <1>1, <1>5, <1>7 DEF Chat!Said
  <2>2. Chat!Said(c)' = 0
    BY <1>1, <1>5, <1>7 DEF Chat!Said
  <2> QED
    BY <1>7, <2>1, <2>2
<1>8. CASE UNCHANGED <<registered, chat_users>> /\ handler[c] = "joining" /\ rank = Chat!Joined /\ next = "listing"
  <2>1. c \in registered
    BY <1>1, <1>4, <1>8
  <2>2. Chat!Said(c) = 0
    BY <1>1, <1>5, <1>8 DEF Chat!Said
  <2>3. Chat!Said(c)' \in {rank, 2 + texts[c]}
    BY <1>1, <1>3, <1>5, <1>8, <2>1 DEF Chat!Said
  <2> QED
    BY <1>2, <1>8, <2>2, <2>3
<1>9. CASE UNCHANGED <<registered, chat_users>> /\ handler[c] = "telling" /\ rank = Chat!Text(c) /\ next = "reading"
  <2>1. c \in registered
    BY <1>1, <1>4, <1>9
  <2>2. Chat!Said(c) = 1 + texts[c]
    BY <1>1, <1>5, <1>9, <2>1 DEF Chat!Said
  <2>3. Chat!Said(c)' \in {rank, 2 + texts[c]}
    BY <1>1, <1>3, <1>5, <1>9, <2>1 DEF Chat!Said
  <2> QED
    BY <1>2, <1>9, <2>2, <2>3
<1>10. CASE UNCHANGED <<registered, chat_users>> /\ handler[c] = "leaving" /\ rank = Chat!Left /\ next = "listing_last"
  <2>1. c \in registered
    BY <1>1, <1>4, <1>10
  <2>2. Chat!Said(c) = 2 + MaxTexts
    BY <1>1, <1>5, <1>10, <2>1 DEF Chat!Said
  <2>3. Chat!Said(c)' = Chat!Left
    BY <1>1, <1>2, <1>5, <1>10, <2>1 DEF Chat!Said
  <2> QED
    BY <1>2, <1>10, <2>2, <2>3
<1> QED
  BY <1>6, <1>7, <1>8, <1>9, <1>10 DEF Begin

(* What a member says is never older than what it has said.                *)
LEMMA SaidGrows ==
  ASSUME Chat!ChatAssumption, Chat!TypeOK, Chat!Connections, Chat!Jobs, Chat!Room, JobRanks,
         [Chat!Next]_Chat!vars
  PROVE  \A c \in Chat!Conns : Chat!Said(c) <= Chat!Said(c)'
<1> USE DEF Chat!room, Chat!reactor, Chat!network, Chat!stream
<1>0. /\ \A c \in Chat!Conns : Chat!Said(c) \in Nat
      /\ Chat!Left' = Chat!Left /\ Chat!Left = 3 + MaxTexts /\ Chat!Left \in Nat
      /\ MaxTexts \in Nat /\ Chat!Other = 0
  BY SaidIsNumber, RanksAreNumbers DEF Chat!ChatAssumption, Chat!Left, Chat!Other
<1>1. CASE UNCHANGED Chat!vars
  <2>1. ASSUME NEW c \in Chat!Conns PROVE Chat!Said(c)' = Chat!Said(c)
    BY <1>1, SaidKept DEF Chat!vars
  <2> QED
    BY <1>0, <2>1
<1>2. ASSUME NEW c \in Chat!Conns, Chat!Said(c) <= Chat!Said(c)',
             \A b \in Chat!Conns : b # c =>
               /\ handler'[b] = handler[b] /\ job'[b] = job[b] /\ texts'[b] = texts[b]
               /\ b \in registered' <=> b \in registered
      PROVE  \A b \in Chat!Conns : Chat!Said(b) <= Chat!Said(b)'
  <2>1. ASSUME NEW b \in Chat!Conns, b # c PROVE Chat!Said(b)' = Chat!Said(b)
    BY <1>2, <2>1, SaidKept
  <2> QED
    BY <1>0, <1>2, <2>1
<1>3. ASSUME NEW c \in Chat!Conns, Begins(c)
      PROVE  \A b \in Chat!Conns : Chat!Said(b) <= Chat!Said(b)'
  <2>1. PICK rank \in 0 .. Chat!Left, fds \in Seq(Chat!Fds), next \in Chat!States :
               Begin(c, rank, fds, next)
    BY <1>3 DEF Begins
  <2>2. Chat!Said(c) <= Chat!Said(c)'
    BY <2>1, BeginSays
  <2>3. \A b \in Chat!Conns : b # c => handler'[b] = handler[b] /\ job'[b] = job[b]
    BY <2>1, BeginEffect
  <2>4. \A b \in Chat!Conns : b # c
            => texts'[b] = texts[b] /\ (b \in registered' <=> b \in registered)
    BY <2>1 DEF Begin
  <2> QED
    BY <1>2, <2>2, <2>3, <2>4
<1>4. ASSUME NEW c \in Chat!Conns, Moves(c)
      PROVE  \A b \in Chat!Conns : Chat!Said(b) <= Chat!Said(b)'
  <2>1. /\ \A b \in Chat!Conns : b # c => handler'[b] = handler[b] /\ texts'[b] = texts[b]
        /\ handler[c] \notin Chat!Moving /\ handler'[c] \notin Chat!Moving
        /\ job' = job /\ registered' = registered
        /\ handler[c] # "ended" /\ handler'[c] # "ended"
    BY <1>4 DEF Moves, Chat!Goto, Chat!TypeOK, Chat!Moving
  <2>2. /\ Chat!After(c) = handler[c] /\ Chat!After(c)' = handler'[c] /\ ~Chat!Ranked(c)
        /\ ~Chat!Ranked(c)'
    BY <2>1 DEF Chat!After, Chat!Ranked
  <2>3. texts[c] \in Nat /\ texts[c] <= MaxTexts
    BY DEF Chat!TypeOK, Chat!ChatAssumption
  <2>4. \/ handler[c] = "reading" /\ handler'[c] = "removing" /\ texts'[c] = texts[c]
        \/ handler[c] = "reading" /\ handler'[c] = "telling" /\ texts'[c] = texts[c] + 1
        \/ handler[c] = "removing" /\ handler'[c] = "leaving" /\ texts'[c] = texts[c]
        \/ handler[c] = "removing" /\ handler'[c] = "closing" /\ c \notin registered
    <3>1. CASE handler[c] = "reading" /\ Chat!Goto(c, "removing") /\ texts' = texts
      BY <3>1 DEF Chat!Goto, Chat!TypeOK
    <3>2. CASE handler[c] = "reading" /\ Chat!Goto(c, "telling") /\ texts' = [texts EXCEPT ![c] = @ + 1]
      BY <3>2 DEF Chat!Goto, Chat!TypeOK
    <3>3. CASE /\ handler[c] = "removing" /\ texts' = texts
               /\ Chat!Goto(c, IF c \in registered THEN "leaving" ELSE "closing")
      <4>1. handler'[c] = IF c \in registered THEN "leaving" ELSE "closing"
        BY <3>3 DEF Chat!Goto, Chat!TypeOK
      <4>2. c \in registered => handler'[c] = "leaving"
        BY <4>1
      <4>3. c \notin registered => handler'[c] = "closing"
        BY <4>1
      <4> QED
        BY <3>3, <4>2, <4>3
    <3> QED
      BY <1>4, <3>1, <3>2, <3>3 DEF Moves
  <2> HIDE DEF Chat!After, Chat!Ranked
  <2>5. CASE c \notin registered
    <3>1. Chat!Said(c) = 0 /\ Chat!Said(c)' = 0
      BY <2>1, <2>5 DEF Chat!Said
    <3> QED
      BY <1>2, <2>1, <3>1
  <2>6. CASE c \in registered
    <3>1. Chat!Said(c) = 2 + texts[c]
      BY <2>1, <2>2, <2>4, <2>6 DEF Chat!Said
    <3>2. \/ Chat!Said(c)' = 2 + texts'[c] /\ texts'[c] = texts[c]
          \/ Chat!Said(c)' = 1 + texts'[c] /\ texts'[c] = texts[c] + 1
          \/ Chat!Said(c)' = 2 + MaxTexts
      BY <2>1, <2>2, <2>4, <2>6 DEF Chat!Said
    <3>3. Chat!Said(c) <= Chat!Said(c)'
      BY <1>0, <2>3, <3>1, <3>2
    <3> QED
      BY <1>2, <2>1, <3>3
  <2> QED
    BY <2>5, <2>6
<1>5. ASSUME NEW c \in Chat!Conns, Closes(c)
      PROVE  \A b \in Chat!Conns : Chat!Said(b) <= Chat!Said(b)'
  <2>1. /\ \A b \in Chat!Conns : b # c =>
             /\ handler'[b] = handler[b] /\ texts'[b] = texts[b]
             /\ b \in registered' <=> b \in registered
        /\ handler'[c] = "ended" /\ job' = job
        /\ handler[c] \in {"handshake", "closing"}
    BY <1>5 DEF Closes, Chat!CloseFd, Chat!Goto, Chat!TypeOK
  <2>2. Chat!After(c) = handler[c] /\ ~Chat!Ranked(c)
    BY <2>1 DEF Chat!After, Chat!Ranked, Chat!Moving
  <2>3. handler[c] = "handshake" => c \notin registered
    BY <2>2 DEF Chat!Room
  <2>4. Chat!Said(c)' = Chat!Left
    BY <1>0, <2>1 DEF Chat!Said
  <2>5. Chat!Said(c) = Chat!Left \/ Chat!Said(c) = 0
    BY <2>1, <2>2, <2>3 DEF Chat!Said
  <2>6. Chat!Said(c) <= Chat!Said(c)'
    BY <1>0, <2>4, <2>5
  <2> QED
    BY <1>2, <2>1, <2>6
<1>6. ASSUME NEW c \in Chat!Conns, Chat!Accept(c)
      PROVE  \A b \in Chat!Conns : Chat!Said(b) <= Chat!Said(b)'
  <2>1. /\ \A b \in Chat!Conns : b # c => handler'[b] = handler[b]
        /\ handler[c] = "none" /\ handler'[c] = "handshake"
        /\ job' = job /\ texts' = texts /\ registered' = registered
    BY <1>6 DEF Chat!Accept, Chat!Connections, Chat!Goto, Chat!TypeOK
  <2>2. Chat!After(c) = "none"
    BY <2>1 DEF Chat!After, Chat!Moving
  <2>3. c \notin registered
    BY <2>2 DEF Chat!Room
  <2>4. Chat!Said(c) = 0 /\ Chat!Said(c)' = 0
    BY <2>1, <2>3 DEF Chat!Said
  <2> QED
    BY <1>2, <2>1, <2>4
<1>7. ASSUME NEW c \in Chat!Conns, Chat!Disconnect(c)
      PROVE  \A b \in Chat!Conns : Chat!Said(b) <= Chat!Said(b)'
  <2>1. ASSUME NEW b \in Chat!Conns PROVE Chat!Said(b)' = Chat!Said(b)
    BY <1>7, SaidKept DEF Chat!Disconnect
  <2> QED
    BY <1>0, <2>1
<1>8. ASSUME NEW c \in Chat!Conns, Chat!SendFails(c) \/ Chat!SendTakes(c)
      PROVE \A b \in Chat!Conns : Chat!Said(b) <= Chat!Said(b)'
  <2>1. /\ handler[c] = "sending" /\ Chat!Proceed(c) /\ texts' = texts /\ registered' = registered
    BY <1>8 DEF Chat!SendFails, Chat!SendTakes, Chat!HasRoom
  <2>2. /\ \A b \in Chat!Conns : b # c => handler'[b] = handler[b] /\ job'[b] = job[b]
        /\ Chat!After(c) = job[c].then /\ Chat!After(c)' = Chat!After(c)
        /\ Chat!Ranked(c)' => Chat!Ranked(c) /\ handler'[c] \in Chat!Moving
        /\ handler'[c] \in Chat!Moving
               => (Chat!Ranked(c)' <=> Chat!Ranked(c)) /\ job'[c].rank = job[c].rank
        /\ handler'[c] = job[c].then \/ handler'[c] = "sending"
    BY <2>1, ProceedMoves DEF Chat!Ranked
  <2>3. handler'[c] # "ended" /\ handler[c] # "ended"
    BY <2>1, <2>2 DEF Chat!Jobs, Chat!Moving
  <2>4. texts[c] \in Nat /\ job[c].rank \in Nat
    BY RanksAreNumbers DEF Chat!TypeOK, Chat!ChatAssumption, Chat!Job
  <2>5. Chat!Ranked(c) =>
          /\ c \in registered
          /\ \/ Chat!After(c) \in {"reading", "listing"} /\ job[c].rank <= 2 + texts[c]
             \/ Chat!After(c) = "listing_last" /\ job[c].rank = Chat!Left
    BY <2>2 DEF JobRanks
  <2> HIDE DEF Chat!After, Chat!Ranked
  <2>6. CASE Chat!Ranked(c) <=> Chat!Ranked(c)'
    <3>1. Chat!Ranked(c) => job'[c].rank = job[c].rank
      BY <2>2, <2>6
    <3>2. Chat!Said(c)' = Chat!Said(c)
      BY <1>0, <2>1, <2>2, <2>3, <2>6, <3>1 DEF Chat!Said
    <3>3. Chat!Said(c) \in Nat
      BY <1>0
    <3>4. Chat!Said(c) <= Chat!Said(c)'
      BY <3>2, <3>3
    <3> QED
      BY <1>2, <2>1, <2>2, <3>4
  <2>7. CASE Chat!Ranked(c) /\ ~Chat!Ranked(c)'
    <3>1. Chat!Said(c) = job[c].rank
      BY <2>3, <2>5, <2>7 DEF Chat!Said
    <3>2. \/ Chat!Said(c)' = 2 + texts[c] /\ job[c].rank <= 2 + texts[c]
          \/ Chat!Said(c)' = Chat!Left /\ job[c].rank = Chat!Left
      BY <1>0, <2>1, <2>2, <2>3, <2>5, <2>7 DEF Chat!Said
    <3>3. Chat!Said(c) <= Chat!Said(c)'
      BY <1>0, <2>4, <3>1, <3>2
    <3> QED
      BY <1>2, <2>1, <2>2, <3>3
  <2> QED
    BY <2>2, <2>6, <2>7
<1>9. ASSUME NEW c \in Chat!Conns, UNCHANGED <<registered, texts, job>>,
             handler[c] \in Chat!Moving, handler'[c] \in Chat!Moving,
             \A b \in Chat!Conns : b # c => handler'[b] = handler[b]
      PROVE  \A b \in Chat!Conns : Chat!Said(b) <= Chat!Said(b)'
  <2>1. Chat!After(c)' = Chat!After(c) /\ (Chat!Ranked(c)' <=> Chat!Ranked(c))
    BY <1>9 DEF Chat!After, Chat!Ranked
  <2>2. handler[c] # "ended" /\ handler'[c] # "ended"
    BY <1>9 DEF Chat!Moving
  <2> HIDE DEF Chat!After, Chat!Ranked
  <2>3. Chat!Said(c)' = Chat!Said(c)
    BY <1>9, <2>1, <2>2, <1>0 DEF Chat!Said
  <2>4. Chat!Said(c) <= Chat!Said(c)'
    BY <1>0, <2>3
  <2> QED
    BY <1>2, <1>9, <2>4
<1>10. ASSUME NEW c \in Chat!Conns, Chat!SendWaits(c)
       PROVE  \A b \in Chat!Conns : Chat!Said(b) <= Chat!Said(b)'
  <2>1. /\ handler[c] \in Chat!Moving /\ handler'[c] \in Chat!Moving
        /\ \A b \in Chat!Conns : b # c => handler'[b] = handler[b]
    BY <1>10 DEF Chat!SendWaits, Chat!Wait, Chat!Goto, Chat!TypeOK, Chat!Moving
  <2> QED
    BY <1>9, <1>10, <2>1 DEF Chat!SendWaits, Chat!Wait
<1>11. ASSUME NEW d \in Chat!Fds, Chat!Writable(d)
       PROVE  \A b \in Chat!Conns : Chat!Said(b) <= Chat!Said(b)'
  <2>1. writer[d] \in Chat!Conns /\ handler[writer[d]] = "parked"
    BY <1>11 DEF Chat!Writable, Chat!TypeOK, Chat!Jobs
  <2>2. /\ handler[writer[d]] \in Chat!Moving /\ handler'[writer[d]] \in Chat!Moving
        /\ \A b \in Chat!Conns : b # writer[d] => handler'[b] = handler[b]
    BY <1>11, <2>1 DEF Chat!Writable, Chat!Goto, Chat!TypeOK, Chat!Moving
  <2> QED
    BY <1>9, <1>11, <2>1, <2>2 DEF Chat!Writable
<1>12. ASSUME Quiet
       PROVE  \A b \in Chat!Conns : Chat!Said(b) <= Chat!Said(b)'
  <2>1. ASSUME NEW b \in Chat!Conns PROVE Chat!Said(b)' = Chat!Said(b)
    BY <1>12, SaidKept DEF Quiet
  <2> QED
    BY <1>0, <2>1
<1> QED
  BY <1>1, <1>3, <1>4, <1>5, <1>6, <1>7, <1>8, <1>10, <1>11, <1>12, ChatSteps

(* Nobody has heard what has not been said, and who has heard what is      *)
(* being told is not told again.                                           *)
HeardRanks ==
  \A c, s \in Chat!Conns : \A i \in 1 .. Len(heard[c][s]) :
    /\ c \in registered
    /\ heard[c][s][i] <= Chat!Said(s)
    /\ Chat!Ranked(s) /\ heard[c][s][i] = job[s].rank => ~Chat!InTodo(fd[c], s)

(* The parts of PerSenderOrder: the frames that are whole, and the others. *)
InOrder ==
  \A c, s \in Chat!Conns : \A i, j \in 1 .. Len(heard[c][s]) :
    i < j => heard[c][s][i] < heard[c][s][j]
CutByOthers == \A c \in Chat!Conns : \A cut \in torn[c] : cut[1] # cut[2]

(* So every step appends, to what a client has heard of a member,          *)
(* something newer only.                                                   *)
LEMMA HeardStep ==
  ASSUME Chat!ChatAssumption, Chat!TypeOK, Chat!Connections, Chat!Jobs, Chat!Room, JobRanks,
         HeardRanks, InOrder,
         [Chat!Next]_Chat!vars
  PROVE  HeardRanks' /\ InOrder'
<1> USE DEF Chat!room, Chat!reactor, Chat!network, Chat!stream
<1>0. /\ \A c \in Chat!Conns :
           Chat!Said(c) <= Chat!Said(c)' /\ Chat!Said(c) \in Nat /\ Chat!Said(c)' \in Nat
      /\ \A c, s \in Chat!Conns : heard[c][s] \in Seq(1 .. Chat!Left)
      /\ \A c, s \in Chat!Conns : \A i \in 1 .. Len(heard[c][s]) : heard[c][s][i] \in Nat
      /\ Chat!Left \in Nat
  <2>1. Chat!TypeOK'
    BY ChatTypeStep
  <2>2. \A c \in Chat!Conns :
          texts'[c] \in Nat /\ MaxTexts \in Nat /\ Chat!Left \in Nat /\ job'[c].rank \in Nat
    BY <2>1, RanksAreNumbers DEF Chat!TypeOK, Chat!ChatAssumption, Chat!Job, Chat!Left
  <2>3. Chat!Left' = Chat!Left
    BY DEF Chat!Left
  <2>4. \A c \in Chat!Conns : Chat!Said(c)' \in Nat
    BY <2>2, <2>3 DEF Chat!Said
  <2>5. \A c, s \in Chat!Conns : heard[c][s] \in Seq(1 .. Chat!Left)
    BY DEF Chat!TypeOK
  <2>6. ASSUME NEW c \in Chat!Conns, NEW s \in Chat!Conns, NEW i \in 1 .. Len(heard[c][s])
        PROVE  heard[c][s][i] \in Nat
    <3> DEFINE told == heard[c][s]
    <3>1. told \in Seq(1 .. Chat!Left) /\ i \in 1 .. Len(told)
      BY <2>5, <2>6
    <3> HIDE DEF told
    <3>2. told[i] \in 1 .. Chat!Left
      <4>1. ASSUME NEW S, NEW t \in Seq(S), NEW j \in 1 .. Len(t) PROVE t[j] \in S
        OBVIOUS
      <4> QED
        BY <3>1, <4>1
    <3>3. told[i] \in Nat
      BY <3>2, RanksAreNumbers
    <3> QED
      BY <3>3 DEF told
  <2> QED
    BY <2>4, <2>5, <2>6, SaidGrows, SaidIsNumber, RanksAreNumbers
<1> HIDE DEF Chat!Said, Chat!Ranked, Chat!InTodo
<1>1. ASSUME \A b \in Chat!Conns :
               \/ /\ heard'[b] = heard[b] /\ fd'[b] = fd[b]
                  /\ b \in registered => b \in registered'
               \/ \A s \in Chat!Conns : heard'[b][s] = <<>>,
             \A s \in Chat!Conns : Chat!Ranked(s)' =>
               \/ /\ Chat!Ranked(s) /\ job'[s].rank = job[s].rank
                  /\ \A d : Chat!InTodo(d, s)' => Chat!InTodo(d, s)
               \/ Chat!Said(s) < job'[s].rank
      PROVE  HeardRanks' /\ InOrder'
  <2>1. ASSUME NEW c \in Chat!Conns, NEW s \in Chat!Conns, NEW i \in 1 .. Len(heard'[c][s])
        PROVE  /\ heard'[c] = heard[c] /\ fd'[c] = fd[c] /\ c \in registered'
               /\ heard'[c][s][i] <= Chat!Said(s)'
               /\ Chat!Ranked(s)' /\ heard'[c][s][i] = job'[s].rank => ~Chat!InTodo(fd[c], s)'
    <3>1. heard'[c][s] # <<>>
      BY <2>1
    <3>2. heard'[c] = heard[c] /\ fd'[c] = fd[c] /\ (c \in registered => c \in registered')
      BY <1>1, <3>1
    <3>3. i \in 1 .. Len(heard[c][s])
      BY <2>1, <3>2
    <3>4. /\ c \in registered /\ heard[c][s][i] <= Chat!Said(s)
          /\ Chat!Ranked(s) /\ heard[c][s][i] = job[s].rank => ~Chat!InTodo(fd[c], s)
      BY <3>3 DEF HeardRanks
    <3>5. heard[c][s][i] <= Chat!Said(s)'
      <4>1. /\ Chat!Said(s) <= Chat!Said(s)' /\ Chat!Said(s) \in Nat /\ Chat!Said(s)' \in Nat
            /\ heard[c][s][i] \in Nat
        BY <1>0, <3>3
      <4> QED
        BY <3>4, <4>1
    <3>6. ASSUME Chat!Ranked(s)', heard[c][s][i] = job'[s].rank
          PROVE  ~Chat!InTodo(fd[c], s)'
      <4>1. ~(Chat!Said(s) < job'[s].rank)
        <5>1. Chat!Said(s) \in Nat /\ heard[c][s][i] \in Nat
          BY <1>0, <3>3
        <5>2. job'[s].rank \in Nat
          BY <3>6, <5>1
        <5> QED
          BY <3>4, <3>6, <5>1, <5>2
      <4>2. /\ Chat!Ranked(s) /\ job'[s].rank = job[s].rank
            /\ \A d : Chat!InTodo(d, s)' => Chat!InTodo(d, s)
        BY <1>1, <3>6, <4>1
      <4>3. ~Chat!InTodo(fd[c], s)
        BY <3>4, <3>6, <4>2
      <4> QED
        BY <3>2, <4>2, <4>3 DEF Chat!InTodo
    <3> QED
      BY <3>2, <3>4, <3>5, <3>6
  <2>2. HeardRanks'
    BY <2>1 DEF HeardRanks
  <2>3. InOrder'
    BY <2>1 DEF InOrder
  <2> QED
    BY <2>2, <2>3
<1>2. CASE UNCHANGED Chat!vars
  <2>1. \A s \in Chat!Conns : job'[s].rank = job[s].rank /\ \A d : Chat!InTodo(d, s)'
            => Chat!InTodo(d, s)
    BY <1>2 DEF Chat!InTodo, Chat!vars
  <2>2. \A s \in Chat!Conns : Chat!Ranked(s)' => Chat!Ranked(s)
    BY <1>2 DEF Chat!Ranked, Chat!vars
  <2>3. UNCHANGED <<heard, fd, registered>>
    BY <1>2 DEF Chat!vars
  <2> QED
    BY <1>1, <2>1, <2>2, <2>3
<1>3. ASSUME NEW c \in Chat!Conns, UNCHANGED <<heard, fd>>, registered \subseteq registered',
             \A b \in Chat!Conns : b # c => handler'[b] = handler[b] /\ job'[b] = job[b],
             Chat!Ranked(c)' =>
               \/ Chat!Ranked(c) /\ job'[c].rank = job[c].rank /\ \A d : Chat!InTodo(d, c)'
                      => Chat!InTodo(d, c)
               \/ Chat!Said(c) < job'[c].rank
      PROVE  HeardRanks' /\ InOrder'
  <2>1. ASSUME NEW s \in Chat!Conns, Chat!Ranked(s)', s # c
        PROVE  Chat!Ranked(s) /\ job'[s].rank = job[s].rank /\ \A d : Chat!InTodo(d, s)'
                   => Chat!InTodo(d, s)
    BY <1>3, <2>1, OthersKept
  <2> QED
    BY <1>1, <1>3, <2>1
<1>4. ASSUME NEW c \in Chat!Conns, Begins(c) PROVE HeardRanks' /\ InOrder'
  <2>1. PICK rank \in 0 .. Chat!Left, fds \in Seq(Chat!Fds), next \in Chat!States :
               Begin(c, rank, fds, next)
    BY <1>4 DEF Begins
  <2>2. /\ \A b \in Chat!Conns : b # c => handler'[b] = handler[b] /\ job'[b] = job[b]
        /\ Chat!Ranked(c)' => rank # Chat!Other
        /\ Chat!Ranked(c)' => job'[c].rank = rank
    BY <2>1, BeginEffect
  <2>3. rank # Chat!Other => Chat!Said(c) < rank
    BY <2>1, BeginSays
  <2>4. UNCHANGED <<heard, fd>> /\ registered \subseteq registered'
    BY <2>1 DEF Begin
  <2> QED
    BY <1>3, <2>2, <2>3, <2>4
<1>5. ASSUME NEW c \in Chat!Conns, Moves(c) PROVE HeardRanks' /\ InOrder'
  <2>1. /\ \A b \in Chat!Conns : b # c => handler'[b] = handler[b]
        /\ handler'[c] \notin Chat!Moving /\ job' = job /\ UNCHANGED <<registered, fd, heard>>
    BY <1>5 DEF Moves, Chat!Goto, Chat!TypeOK, Chat!Moving
  <2>2. ~Chat!Ranked(c)'
    BY <2>1 DEF Chat!Ranked
  <2> QED
    BY <1>3, <2>1, <2>2
<1>6. ASSUME NEW c \in Chat!Conns, Closes(c) PROVE HeardRanks' /\ InOrder'
  <2>1. /\ \A b \in Chat!Conns : b # c =>
             /\ handler'[b] = handler[b] /\ heard'[b] = heard[b] /\ fd'[b] = fd[b]
             /\ b \in registered => b \in registered'
        /\ handler'[c] = "ended" /\ job' = job
        /\ \A s \in Chat!Conns : heard'[c][s] = <<>>
    BY <1>6 DEF Closes, Chat!CloseFd, Chat!Goto, Chat!TypeOK
  <2>2. ~Chat!Ranked(c)'
    BY <2>1 DEF Chat!Ranked, Chat!Moving
  <2>3. ASSUME NEW s \in Chat!Conns, Chat!Ranked(s)'
        PROVE  Chat!Ranked(s) /\ job'[s].rank = job[s].rank /\ \A d : Chat!InTodo(d, s)'
                   => Chat!InTodo(d, s)
    <3>1. s # c
      BY <2>2, <2>3
    <3> QED
      BY <2>1, <2>3, <3>1, OthersKept
  <2> QED
    BY <1>1, <2>1, <2>3
<1>7. ASSUME NEW c \in Chat!Conns, Chat!Accept(c) PROVE HeardRanks' /\ InOrder'
  <2>1. PICK d \in Chat!Fds : fd' = [fd EXCEPT ![c] = d]
    BY <1>7, LowestIsFree
  <2>2. /\ \A b \in Chat!Conns : b # c => handler'[b] = handler[b] /\ fd'[b] = fd[b]
        /\ handler[c] = "none" /\ handler'[c] = "handshake" /\ job' = job
        /\ UNCHANGED <<heard, registered>>
    BY <1>7, <2>1 DEF Chat!Accept, Chat!Connections, Chat!Goto, Chat!TypeOK
  <2>3. c \notin registered
    BY <2>2 DEF Chat!Room, Chat!After, Chat!Moving
  <2>4. ASSUME NEW s \in Chat!Conns PROVE heard'[c][s] = <<>>
    <3>1. heard[c][s] \in Seq(1 .. Chat!Left) /\ 1 .. Len(heard[c][s]) = {}
      BY <1>0, <2>3 DEF HeardRanks
    <3> DEFINE told == heard[c][s]
    <3> HIDE DEF told
    <3>2. told \in Seq(1 .. Chat!Left) /\ 1 .. Len(told) = {}
      BY <3>1 DEF told
    <3>3. Len(told) = 0
      BY <3>2
    <3>4. told = <<>>
      BY <3>2, <3>3
    <3> QED
      BY <2>2, <3>4 DEF told
  <2>5. ~Chat!Ranked(c)'
    BY <2>2 DEF Chat!Ranked, Chat!Moving
  <2>6. ASSUME NEW s \in Chat!Conns, Chat!Ranked(s)'
        PROVE  Chat!Ranked(s) /\ job'[s].rank = job[s].rank /\ \A e : Chat!InTodo(e, s)'
                   => Chat!InTodo(e, s)
    <3>1. s # c
      BY <2>5, <2>6
    <3> QED
      BY <2>2, <2>6, <3>1, OthersKept
  <2> QED
    BY <1>1, <2>2, <2>4, <2>6
<1>8. ASSUME NEW c \in Chat!Conns, Chat!Disconnect(c) PROVE HeardRanks' /\ InOrder'
  <2>1. Chat!Ranked(c)' => Chat!Ranked(c) /\ job'[c].rank = job[c].rank /\ \A d :
          Chat!InTodo(d, c)' => Chat!InTodo(d, c)
    BY <1>8, OthersKept DEF Chat!Disconnect
  <2> QED
    BY <1>3, <1>8, <2>1 DEF Chat!Disconnect
<1>9. ASSUME NEW c \in Chat!Conns, Chat!SendFails(c) PROVE HeardRanks' /\ InOrder'
  <2>1. handler[c] = "sending" /\ Chat!Proceed(c) /\ UNCHANGED <<heard, fd, registered>>
    BY <1>9 DEF Chat!SendFails
  <2>2. /\ \A b \in Chat!Conns : b # c => handler'[b] = handler[b] /\ job'[b] = job[b]
        /\ Chat!Ranked(c)' => Chat!Ranked(c)
        /\ handler'[c] \in Chat!Moving =>
             job'[c].rank = job[c].rank /\ \A d : Chat!InTodo(d, c)' => Chat!InTodo(d, c)
    BY <2>1, ProceedMoves
  <2>3. Chat!Ranked(c)' => handler'[c] \in Chat!Moving
    BY DEF Chat!Ranked
  <2> QED
    BY <1>3, <2>1, <2>2, <2>3
<1>10. ASSUME NEW c \in Chat!Conns, Chat!SendWaits(c) PROVE HeardRanks' /\ InOrder'
  <2>1. /\ handler[c] \in Chat!Moving /\ handler'[c] \in Chat!Moving
        /\ \A b \in Chat!Conns : b # c => handler'[b] = handler[b]
        /\ UNCHANGED <<heard, fd, registered, job>>
    BY <1>10 DEF Chat!SendWaits, Chat!Wait, Chat!Goto, Chat!TypeOK, Chat!Moving
  <2>2. Chat!Ranked(c)' => Chat!Ranked(c)
    BY <2>1 DEF Chat!Ranked
  <2>3. \A d : Chat!InTodo(d, c)' => Chat!InTodo(d, c)
    BY <2>1 DEF Chat!InTodo
  <2> QED
    BY <1>3, <2>1, <2>2, <2>3
<1>11. ASSUME NEW d \in Chat!Fds, Chat!Writable(d) PROVE HeardRanks' /\ InOrder'
  <2>1. PICK c \in Chat!Conns : c = writer[d] /\ handler[c] = "parked"
    BY <1>11 DEF Chat!Writable, Chat!TypeOK, Chat!Jobs
  <2>2. /\ handler[c] \in Chat!Moving /\ handler'[c] \in Chat!Moving
        /\ \A b \in Chat!Conns : b # c => handler'[b] = handler[b]
        /\ UNCHANGED <<heard, fd, registered, job>>
    BY <1>11, <2>1 DEF Chat!Writable, Chat!Goto, Chat!TypeOK, Chat!Moving
  <2>3. Chat!Ranked(c)' => Chat!Ranked(c)
    BY <2>2 DEF Chat!Ranked
  <2>4. \A e : Chat!InTodo(e, c)' => Chat!InTodo(e, c)
    BY <2>2 DEF Chat!InTodo
  <2> QED
    BY <1>3, <2>2, <2>3, <2>4
<1>12. ASSUME Quiet
       PROVE  HeardRanks' /\ InOrder'
  <2>1. UNCHANGED <<heard, fd, registered, job, handler>>
    BY <1>12 DEF Quiet
  <2>2. ASSUME NEW s \in Chat!Conns, Chat!Ranked(s)'
        PROVE  Chat!Ranked(s) /\ job'[s].rank = job[s].rank /\ \A e : Chat!InTodo(e, s)'
                   => Chat!InTodo(e, s)
    BY <2>1, <2>2, OthersKept
  <2> QED
    BY <1>1, <2>1, <2>2
<1>13. ASSUME NEW c \in Chat!Conns, Chat!SendTakes(c) PROVE HeardRanks' /\ InOrder'
  <2>1. /\ handler[c] = "sending" /\ Chat!Proceed(c) /\ UNCHANGED <<fd, registered, chat_users>>
        /\ Chat!Connected(Chat!Target(c)) /\ Chat!Deliver(c)
    BY <1>13 DEF Chat!SendTakes, Chat!HasRoom
  <2>2. /\ \A b \in Chat!Conns : b # c => handler'[b] = handler[b] /\ job'[b] = job[b]
        /\ Chat!Ranked(c)' => Chat!Ranked(c)
        /\ handler'[c] \in Chat!Moving =>
             /\ job'[c].rank = job[c].rank
             /\ \A d : Chat!InTodo(d, c)' => Chat!InTodo(d, c) /\ d # Chat!Target(c)
        /\ Chat!After(c) = job[c].then
    BY <2>1, ProceedMoves
  <2>3. Chat!Ranked(c)' => handler'[c] \in Chat!Moving
    BY DEF Chat!Ranked
  <2>4. PICK r \in Chat!Conns :
          /\ fd[r] = Chat!Target(c)
          /\ \A b \in Chat!Conns : fd[b] = Chat!Target(c) => b = r
          /\ \/ heard' = heard
             \/ /\ job[c].rank # Chat!Other /\ Chat!InRoom(r) /\ job[c].rank \in 1 .. Chat!Left
                /\ heard'[r][c] = Append(heard[r][c], job[c].rank)
                /\ \A b, s \in Chat!Conns : b # r \/ s # c => heard'[b][s] = heard[b][s]
    BY <2>1, DeliverEffect
  <2>5. CASE heard' = heard
    BY <1>3, <2>1, <2>2, <2>3, <2>5
  <2>6. CASE /\ job[c].rank # Chat!Other /\ Chat!InRoom(r) /\ job[c].rank \in 1 .. Chat!Left
             /\ heard'[r][c] = Append(heard[r][c], job[c].rank)
             /\ \A b, s \in Chat!Conns : b # r \/ s # c => heard'[b][s] = heard[b][s]
    <3> DEFINE rank == job[c].rank
               told == heard[r][c]
    <3>1. Chat!Ranked(c) /\ handler[c] \in Chat!Moving
      BY <2>1, <2>6 DEF Chat!Ranked, Chat!Moving
    <3>2. Chat!Said(c) = rank
      <4>1. /\ c \in registered /\ Chat!After(c) \in {"reading", "listing", "listing_last"}
        BY <2>2, <3>1 DEF JobRanks
      <4> HIDE DEF Chat!After
      <4> QED
        BY <2>1, <3>1, <4>1 DEF Chat!Said
    <3>3. rank \in Nat /\ told \in Seq(1 .. Chat!Left) /\ Len(told) \in Nat
      <4>1. told \in Seq(1 .. Chat!Left) /\ rank \in 1 .. Chat!Left /\ Chat!Left \in Nat
        BY <1>0, <2>6
      <4> HIDE DEF told, rank
      <4> QED
        BY <4>1
    <3>4. \A i \in 1 .. Len(told) : told[i] < rank
      <4>1. ASSUME NEW i \in 1 .. Len(told) PROVE told[i] < rank
        <5>1. told[i] \in Nat /\ told[i] <= rank
          BY <1>0, <3>2 DEF HeardRanks
        <5>2. job[c].todo # <<>> /\ job[c].todo \in Seq(Chat!Fds)
          BY <3>1 DEF Chat!Jobs, Chat!TypeOK, Chat!Job
        <5>3. Chat!InTodo(fd[r], c)
          BY <2>4, <5>2 DEF Chat!InTodo, Chat!Target
        <5>4. told[i] # rank
          BY <3>1, <5>3 DEF HeardRanks
        <5> QED
          BY <3>3, <5>1, <5>4
      <4> QED
        BY <4>1
    <3>5. r \in registered
      BY <2>6 DEF Chat!Room
    <3>6. ASSUME NEW b \in Chat!Conns, NEW s \in Chat!Conns, NEW i \in 1 .. Len(heard'[b][s])
          PROVE  /\ b \in registered'
                 /\ heard'[b][s][i] <= Chat!Said(s)'
                 /\ Chat!Ranked(s)' /\ heard'[b][s][i] = job'[s].rank => ~Chat!InTodo(fd[b], s)'
      <4>1. CASE i \in 1 .. Len(heard[b][s]) /\ heard'[b][s][i] = heard[b][s][i]
        <5>1. /\ b \in registered /\ heard[b][s][i] <= Chat!Said(s)
              /\ Chat!Ranked(s) /\ heard[b][s][i] = job[s].rank => ~Chat!InTodo(fd[b], s)
          BY <4>1 DEF HeardRanks
        <5>2. heard[b][s][i] <= Chat!Said(s)'
          <6>1. Chat!Said(s) <= Chat!Said(s)' /\ Chat!Said(s) \in Nat /\ Chat!Said(s)' \in Nat
            BY <1>0
          <6>2. heard[b][s][i] \in Nat
            BY <1>0, <4>1
          <6> QED
            BY <5>1, <6>1, <6>2
        <5>3. Chat!Ranked(s)' =>
                Chat!Ranked(s) /\ job'[s].rank = job[s].rank /\ \A d : Chat!InTodo(d, s)'
                    => Chat!InTodo(d, s)
          <6>1. CASE s = c
            BY <2>2, <2>3, <6>1
          <6>2. CASE s # c
            BY <2>2, <6>2, OthersKept
          <6> QED
            BY <6>1, <6>2
        <5>4. ASSUME Chat!Ranked(s)', heard[b][s][i] = job'[s].rank PROVE ~Chat!InTodo(fd[b], s)'
          <6>1. ~Chat!InTodo(fd[b], s) /\ \A d : Chat!InTodo(d, s)' => Chat!InTodo(d, s)
            BY <5>1, <5>3, <5>4
          <6> QED
            BY <2>1, <6>1 DEF Chat!InTodo
        <5> QED
          BY <2>1, <4>1, <5>1, <5>2, <5>4
      <4>2. CASE b = r /\ s = c /\ heard'[b][s][i] = rank
        <5>1. rank <= Chat!Said(c)'
          BY <1>0, <3>2
        <5>2. Chat!Ranked(c)' => ~Chat!InTodo(fd[r], c)'
          <6>1. ASSUME Chat!Ranked(c)' PROVE \A d : Chat!InTodo(d, c)' => d # Chat!Target(c)
            BY <2>2, <2>3, <6>1
          <6> QED
            BY <2>1, <2>4, <6>1 DEF Chat!InTodo
        <5> QED
          BY <2>1, <3>5, <4>2, <5>1, <5>2
      <4>3. \/ i \in 1 .. Len(heard[b][s]) /\ heard'[b][s][i] = heard[b][s][i]
            \/ b = r /\ s = c /\ heard'[b][s][i] = rank
        <5>1. CASE b # r \/ s # c
          BY <2>6, <3>6, <5>1
        <5>2. CASE b = r /\ s = c
          <6>1. i \in 1 .. Len(Append(told, rank))
            BY <2>6, <3>6, <5>2
          <6>2. \/ i \in 1 .. Len(told) /\ Append(told, rank)[i] = told[i]
                \/ Append(told, rank)[i] = rank
            <7> HIDE DEF told, rank
            <7> QED
              BY <3>3, <6>1
          <6> QED
            BY <2>6, <5>2, <6>2
        <5> QED
          BY <5>1, <5>2
      <4> QED
        BY <4>1, <4>2, <4>3
    <3>7. HeardRanks'
      BY <3>6 DEF HeardRanks
    <3>8. ASSUME NEW b \in Chat!Conns, NEW s \in Chat!Conns,
                 NEW i \in 1 .. Len(heard'[b][s]), NEW j \in 1 .. Len(heard'[b][s]), i < j
          PROVE  heard'[b][s][i] < heard'[b][s][j]
      <4>1. CASE b # r \/ s # c
        BY <2>6, <3>8, <4>1 DEF InOrder
      <4>2. CASE b = r /\ s = c
        <5>1. i \in 1 .. Len(Append(told, rank)) /\ j \in 1 .. Len(Append(told, rank))
          BY <2>6, <3>8, <4>2
        <5>2. \A k, l \in 1 .. Len(told) : k < l => told[k] < told[l]
          BY DEF InOrder
        <5>3. Append(told, rank)[i] < Append(told, rank)[j]
          <6> HIDE DEF told, rank
          <6>1. i \in 1 .. Len(told) /\ Append(told, rank)[i] = told[i]
            BY <3>3, <3>8, <5>1
          <6>2. CASE j \in 1 .. Len(told)
            BY <3>3, <3>8, <5>2, <6>1, <6>2
          <6>3. CASE j = Len(told) + 1
            BY <3>3, <3>4, <6>1, <6>3
          <6>4. j \in 1 .. Len(told) \/ j = Len(told) + 1
            BY <3>3, <5>1
          <6> QED
            BY <6>2, <6>3, <6>4
        <5> QED
          BY <2>6, <4>2, <5>3
      <4> QED
        BY <4>1, <4>2
    <3>9. InOrder'
      BY <3>8 DEF InOrder
    <3> QED
      BY <3>7, <3>9
  <2> QED
    BY <2>4, <2>5, <2>6
<1> QED
  BY <1>2, <1>4, <1>5, <1>6, <1>7, <1>8, <1>9, <1>10, <1>11, <1>12, <1>13, ChatSteps

(* What Told says of one member and one client.                            *)
ToldTo(c, r) ==
  Chat!After(c) \in {"listing_last", "closing", "ended"} /\ Chat!Hears(r) /\ heard[r][c] # <<>>
    => \/ heard[r][c][Len(heard[r][c])] = Chat!Left
       \/ Chat!Ranked(c) /\ job[c].rank = Chat!Left /\ Chat!InTodo(fd[r], c)

(* Nobody hears of who has not joined, and who has not joined hears        *)
(* nothing.                                                                *)
LEMMA Unheard ==
  ASSUME Chat!ChatAssumption, Chat!TypeOK, HeardRanks, NEW c \in Chat!Conns, NEW r \in Chat!Conns,
         r \notin registered \/ (c \notin registered /\ handler[c] # "ended")
  PROVE  heard[r][c] = <<>>
<1> DEFINE told == heard[r][c]
<1>1. told \in Seq(1 .. Chat!Left) /\ Chat!Left \in Nat /\ Len(told) \in Nat
  BY RanksAreNumbers DEF Chat!TypeOK
<1>2. ASSUME NEW i \in 1 .. Len(told) PROVE FALSE
  <2>1. r \in registered /\ told[i] <= Chat!Said(c)
    BY <1>2 DEF HeardRanks
  <2>2. Chat!Said(c) = 0
    BY <2>1 DEF Chat!Said
  <2>3. \A S : \A t \in Seq(S) : \A j \in 1 .. Len(t) : t[j] \in S
    OBVIOUS
  <2> HIDE DEF told
  <2>4. told[i] \in 1 .. Chat!Left
    BY <1>1, <1>2, <2>3
  <2> QED
    BY <1>1, <2>1, <2>2, <2>4
<1> HIDE DEF told
<1>3. Len(told) = 0
  BY <1>1, <1>2
<1>4. told = <<>>
  BY <1>1, <1>3
<1> QED
  BY <1>4 DEF told

(* Every step keeps those who heard of a member in what is told of its     *)
(* leave.                                                                  *)
LEMMA ToldStep ==
  ASSUME Chat!ChatAssumption, Chat!TypeOK, Chat!Connections, Chat!Jobs, Chat!Room, JobRanks,
         HeardRanks, Chat!Told, [Chat!Next]_Chat!vars
  PROVE  Chat!Told'
<1> USE DEF Chat!room, Chat!reactor, Chat!network, Chat!stream
<1> DEFINE Last == {"listing_last", "closing", "ended"}
<1>0. /\ \A c, r \in Chat!Conns : ToldTo(c, r)
      /\ Chat!Left' = Chat!Left
  BY DEF Chat!Told, ToldTo, Chat!Left
<1>1. ASSUME \A c, r \in Chat!Conns : ToldTo(c, r)' PROVE Chat!Told'
  BY <1>1 DEF Chat!Told, ToldTo
<1>2. ASSUME NEW c \in Chat!Conns, NEW r \in Chat!Conns, handler'[c] = handler[c], job'[c] = job[c],
             \/ fd'[r] = fd[r] /\ heard'[r][c] = heard[r][c] /\ (Chat!Hears(r)' => Chat!Hears(r))
             \/ heard'[r][c] = <<>>
             \/ ~Chat!Hears(r)'
      PROVE  ToldTo(c, r)'
  <2>1. /\ Chat!After(c)' = Chat!After(c) /\ (Chat!Ranked(c)' <=> Chat!Ranked(c))
        /\ \A d : Chat!InTodo(d, c)' <=> Chat!InTodo(d, c)
    BY <1>2, OthersKept
  <2>2. CASE fd'[r] = fd[r] /\ heard'[r][c] = heard[r][c] /\ (Chat!Hears(r)' => Chat!Hears(r))
    <3>1. Chat!InTodo(fd[r], c)' <=> Chat!InTodo(fd[r], c)
      BY <1>2, <2>2 DEF Chat!InTodo
    <3> HIDE DEF Chat!After, Chat!Ranked, Chat!InTodo, Chat!Hears
    <3>2. ToldTo(c, r)
      BY <1>0
    <3> QED
      BY <1>0, <1>2, <2>1, <2>2, <3>1, <3>2 DEF ToldTo
  <2>3. CASE heard'[r][c] = <<>> \/ ~Chat!Hears(r)'
    BY <2>3 DEF ToldTo
  <2> QED
    BY <1>2, <2>2, <2>3
<1>3. CASE UNCHANGED Chat!vars
  <2>1. ASSUME NEW c \in Chat!Conns, NEW r \in Chat!Conns PROVE ToldTo(c, r)'
    BY <1>2, <1>3 DEF Chat!vars, Chat!Hears, Chat!InRoom
  <2> QED
    BY <1>1, <2>1
<1>4. ASSUME NEW c \in Chat!Conns, Begins(c) PROVE Chat!Told'
  <2>1. PICK rank \in 0 .. Chat!Left, fds \in Seq(Chat!Fds), next \in Chat!States :
               Begin(c, rank, fds, next)
    BY <1>4 DEF Begins
  <2>2. /\ \A b \in Chat!Conns : b # c => handler'[b] = handler[b] /\ job'[b] = job[b]
        /\ handler[c] \notin Chat!Moving /\ Chat!After(c) = handler[c] /\ Chat!After(c)' = next
        /\ ~Chat!Ranked(c)
        /\ Chat!Ranked(c)' <=> (fds # <<>> /\ rank # Chat!Other)
        /\ fds # <<>> => job'[c].rank = rank /\ job'[c].todo = fds
    BY <2>1, BeginEffect
  <2>3. UNCHANGED <<client, fd, heard, torn>>
    BY <2>1 DEF Begin
  <2>4. ASSUME NEW b \in Chat!Conns, NEW r \in Chat!Conns, b # c PROVE ToldTo(b, r)'
    <3>1. CASE chat_users' = chat_users
      BY <1>2, <2>2, <2>3, <2>4, <3>1 DEF Chat!Hears, Chat!InRoom
    <3>2. CASE c \notin registered /\ chat_users' = Append(chat_users, c)
      <4>1. CASE r = c
        <5>1. heard'[r][b] = <<>>
          BY <2>3, <3>2, <4>1, Unheard
        <5> QED
          BY <1>2, <2>2, <2>4, <5>1
      <4>2. CASE r # c
        <5>1. Chat!InRoom(r)' => Chat!InRoom(r)
          <6>1. chat_users \in Seq(Chat!Conns) /\ Len(chat_users) \in Nat
            BY DEF Chat!TypeOK
          <6>2. ASSUME NEW i \in 1 .. Len(chat_users'), chat_users'[i] = r
                PROVE  i \in 1 .. Len(chat_users) /\ chat_users[i] = r
            BY <3>2, <4>2, <6>1, <6>2
          <6> QED
            BY <6>2 DEF Chat!InRoom
        <5> QED
          BY <1>2, <2>2, <2>3, <2>4, <5>1 DEF Chat!Hears
      <4> QED
        BY <4>1, <4>2
    <3> QED
      BY <2>1, <3>1, <3>2 DEF Begin
  <2>5. ASSUME NEW r \in Chat!Conns PROVE ToldTo(c, r)'
    <3>1. CASE next \notin Last
      BY <2>2, <3>1 DEF ToldTo
    <3>2. CASE handler[c] = "handshake"
      <4>1. c \notin registered
        BY <2>2, <3>2 DEF Chat!Room
      <4>2. heard'[r][c] = <<>>
        BY <2>3, <3>2, <4>1, Unheard
      <4> QED
        BY <4>2 DEF ToldTo
    <3>3. CASE /\ handler[c] = "leaving" /\ rank = Chat!Left /\ chat_users' = chat_users
               /\ \A q \in Chat!Conns : Chat!InRoom(q) => \E i \in 1 .. Len(fds) : fds[i] = fd[q]
      <4>1. ASSUME /\ Chat!Hears(r)' PROVE Chat!Ranked(c)' /\ job'[c].rank = Chat!Left
                   /\ Chat!InTodo(fd[r], c)'
        <5>1. Chat!InRoom(r)
          BY <3>3, <4>1 DEF Chat!Hears, Chat!InRoom
        <5>2. PICK i \in 1 .. Len(fds) : fds[i] = fd[r]
          BY <3>3, <5>1
        <5>3. fds # <<>> /\ rank # Chat!Other
          <6>1. Chat!Left # Chat!Other
            BY DEF Chat!Other, Chat!Left, Chat!ChatAssumption
          <6>2. fds # <<>>
            BY <5>2
          <6> QED
            BY <3>3, <6>1, <6>2
        <5>4. job'[c].todo = fds /\ Chat!Ranked(c)' /\ job'[c].rank = Chat!Left
          BY <2>2, <3>3, <5>3
        <5>5. Chat!InTodo(fd[r], c)'
          BY <2>3, <5>2, <5>4 DEF Chat!InTodo
        <5> QED
          BY <5>4, <5>5
      <4> QED
        BY <1>0, <4>1 DEF ToldTo
    <3>4. CASE handler[c] = "listing_last" /\ chat_users' = chat_users
      <4>1. ToldTo(c, r) /\ (Chat!Hears(r)' <=> Chat!Hears(r)) /\ heard' = heard
        BY <1>0, <2>3, <3>4 DEF Chat!Hears, Chat!InRoom
      <4> HIDE DEF Chat!After, Chat!Ranked, Chat!InTodo, Chat!Hears
      <4> QED
        BY <1>0, <2>2, <3>4, <4>1 DEF ToldTo
    <3> QED
      BY <2>1, <3>1, <3>2, <3>3, <3>4 DEF Begin
  <2>6. \A b, r \in Chat!Conns : ToldTo(b, r)'
    BY <2>4, <2>5
  <2> QED
    BY <1>1, <2>6
<1>5. ASSUME NEW c \in Chat!Conns, Moves(c) PROVE Chat!Told'
  <2>1. /\ \A b \in Chat!Conns : b # c => handler'[b] = handler[b]
        /\ handler[c] \notin Chat!Moving /\ handler'[c] \notin Chat!Moving /\ job' = job
        /\ UNCHANGED <<client, fd, heard, torn, registered>>
    BY <1>5 DEF Moves, Chat!Goto, Chat!TypeOK, Chat!Moving
  <2>2. handler[c] # "ended" /\ handler'[c] \in Last => c \notin registered
    <3>1. CASE Chat!Goto(c, "removing") \/ Chat!Goto(c, "telling")
      BY <3>1 DEF Chat!Goto, Chat!TypeOK
    <3>2. CASE Chat!Goto(c, IF c \in registered THEN "leaving" ELSE "closing")
      <4>1. handler'[c] = IF c \in registered THEN "leaving" ELSE "closing"
        BY <3>2 DEF Chat!Goto, Chat!TypeOK
      <4>2. c \in registered => handler'[c] = "leaving"
        BY <4>1
      <4> QED
        BY <4>2
    <3> QED
      BY <1>5, <3>1, <3>2 DEF Moves
  <2>3. \A r \in Chat!Conns : Chat!InRoom(r)' => Chat!InRoom(r)
    <3>1. CASE chat_users' = chat_users
      BY <3>1 DEF Chat!InRoom
    <3>2. CASE chat_users' = Chat!Without(c)
      <4>1. \A b : (\E i \in 1 .. Len(Chat!Without(c)) : Chat!Without(c)[i] = b)
                 <=> Chat!InRoom(b) /\ b # c
        BY WithoutOne DEF Chat!Room
      <4> QED
        BY <3>2, <4>1 DEF Chat!InRoom
    <3> QED
      BY <1>5, <3>1, <3>2 DEF Moves
  <2>4. ASSUME NEW b \in Chat!Conns, NEW r \in Chat!Conns, b # c PROVE ToldTo(b, r)'
    BY <1>2, <2>1, <2>3, <2>4 DEF Chat!Hears
  <2>5. ASSUME NEW r \in Chat!Conns PROVE ToldTo(c, r)'
    <3>1. Chat!After(c)' = handler'[c]
      BY <2>1 DEF Chat!After
    <3>2. CASE handler'[c] \in Last
      <4>1. handler[c] # "ended"
        BY <1>5 DEF Moves
      <4>2. heard'[r][c] = <<>>
        BY <2>1, <2>2, <3>2, <4>1, Unheard
      <4> QED
        BY <4>2 DEF ToldTo
    <3>3. CASE handler'[c] \notin Last
      BY <3>1, <3>3 DEF ToldTo
    <3> QED
      BY <3>2, <3>3
  <2>6. \A b, r \in Chat!Conns : ToldTo(b, r)'
    BY <2>4, <2>5
  <2> QED
    BY <1>1, <2>6
<1>6. ASSUME NEW c \in Chat!Conns, Closes(c) PROVE Chat!Told'
  <2>1. /\ \A b \in Chat!Conns : b # c =>
             /\ handler'[b] = handler[b] /\ heard'[b] = heard[b] /\ fd'[b] = fd[b]
             /\ client'[b] = client[b] /\ torn'[b] = torn[b]
        /\ handler'[c] = "ended" /\ job' = job /\ chat_users' = chat_users
        /\ \A s \in Chat!Conns : heard'[c][s] = <<>>
        /\ handler[c] \in {"handshake", "closing"}
    BY <1>6 DEF Closes, Chat!CloseFd, Chat!Goto, Chat!TypeOK
  <2>2. ASSUME NEW b \in Chat!Conns, NEW r \in Chat!Conns, b # c PROVE ToldTo(b, r)'
    <3>1. CASE r = c
      BY <1>2, <2>1, <2>2, <3>1
    <3>2. CASE r # c
      BY <1>2, <2>1, <2>2, <3>2 DEF Chat!Hears, Chat!InRoom
    <3> QED
      BY <3>1, <3>2
  <2>3. ASSUME NEW r \in Chat!Conns PROVE ToldTo(c, r)'
    <3>1. CASE r = c
      BY <2>1, <3>1 DEF ToldTo
    <3>2. CASE r # c /\ handler[c] = "closing"
      <4>1. ToldTo(c, r) /\ (Chat!Hears(r)' <=> Chat!Hears(r)) /\ heard'[r] = heard[r]
        BY <1>0, <2>1, <3>2 DEF Chat!Hears, Chat!InRoom
      <4>2. Chat!After(c) = "closing" /\ ~Chat!Ranked(c)
        BY <3>2 DEF Chat!After, Chat!Ranked, Chat!Moving
      <4> HIDE DEF Chat!After, Chat!Ranked, Chat!InTodo, Chat!Hears
      <4> QED
        BY <1>0, <4>1, <4>2 DEF ToldTo
    <3>3. CASE r # c /\ handler[c] = "handshake"
      <4>1. c \notin registered
        BY <3>3 DEF Chat!Room, Chat!After, Chat!Moving
      <4>2. heard'[r][c] = <<>>
        BY <2>1, <3>3, <4>1, Unheard
      <4> QED
        BY <4>2 DEF ToldTo
    <3> QED
      BY <2>1, <3>1, <3>2, <3>3
  <2>4. \A b, r \in Chat!Conns : ToldTo(b, r)'
    BY <2>2, <2>3
  <2> QED
    BY <1>1, <2>4
<1>7. ASSUME NEW c \in Chat!Conns, Chat!Accept(c) PROVE Chat!Told'
  <2>1. PICK d \in Chat!Fds : fd' = [fd EXCEPT ![c] = d]
    BY <1>7, LowestIsFree
  <2>2. /\ \A b \in Chat!Conns : b # c
               => handler'[b] = handler[b] /\ fd'[b] = fd[b] /\ client'[b] = client[b]
        /\ handler[c] = "none" /\ handler'[c] = "handshake" /\ job' = job
        /\ UNCHANGED <<heard, torn, registered, chat_users>>
    BY <1>7, <2>1 DEF Chat!Accept, Chat!Connections, Chat!Goto, Chat!TypeOK
  <2>3. ~Chat!InRoom(c)
    BY <2>2 DEF Chat!Room, Chat!After, Chat!Moving
  <2>4. ~Chat!Hears(c)'
    BY <2>2, <2>3 DEF Chat!Hears, Chat!InRoom
  <2>5. ASSUME NEW b \in Chat!Conns, NEW r \in Chat!Conns, b # c PROVE ToldTo(b, r)'
    <3>1. CASE r = c
      BY <1>2, <2>2, <2>4, <2>5, <3>1
    <3>2. CASE r # c
      BY <1>2, <2>2, <2>5, <3>2 DEF Chat!Hears, Chat!InRoom
    <3> QED
      BY <3>1, <3>2
  <2>6. ASSUME NEW r \in Chat!Conns PROVE ToldTo(c, r)'
    <3>1. Chat!After(c)' = "handshake"
      BY <2>2 DEF Chat!After, Chat!Moving
    <3> QED
      BY <3>1 DEF ToldTo
  <2>7. \A b, r \in Chat!Conns : ToldTo(b, r)'
    BY <2>5, <2>6
  <2> QED
    BY <1>1, <2>7
<1>8. ASSUME NEW c \in Chat!Conns, Chat!Disconnect(c) PROVE Chat!Told'
  <2>1. \A r \in Chat!Conns : Chat!Hears(r)' => Chat!Hears(r)
    BY <1>8 DEF Chat!Disconnect, Chat!Hears, Chat!InRoom, Chat!TypeOK
  <2>2. ASSUME NEW b \in Chat!Conns, NEW r \in Chat!Conns PROVE ToldTo(b, r)'
    BY <1>2, <1>8, <2>1 DEF Chat!Disconnect
  <2> QED
    BY <1>1, <2>2
<1>9. ASSUME Quiet, \A r \in Chat!Conns : torn'[r] = {} => torn[r] = {} PROVE Chat!Told'
  <2>1. ASSUME NEW b \in Chat!Conns, NEW r \in Chat!Conns PROVE ToldTo(b, r)'
    BY <1>2, <1>9 DEF Quiet, Chat!Hears, Chat!InRoom
  <2> QED
    BY <1>1, <2>1
<1>14. ASSUME NEW d \in Chat!Fds, Chat!Drain(d) /\ Quiet PROVE Chat!Told'
  BY <1>9, <1>14 DEF Chat!Drain
<1>15. ASSUME NEW c \in Chat!Conns, Chat!SendTakesPart(c) /\ Quiet PROVE Chat!Told'
  <2>1. PICK q \in Chat!Conns : Arrives(c, c, q)
    BY <1>15, ArriveEffect DEF Chat!SendTakesPart, Chat!HasRoom
  <2>2. \A r \in Chat!Conns : torn'[r] = {} => torn[r] = {}
    BY <2>1 DEF Arrives
  <2> QED
    BY <1>9, <1>15, <2>2
<1>10. ASSUME NEW c \in Chat!Conns, UNCHANGED <<client, fd, job, chat_users, heard, torn>>,
              handler[c] \in Chat!Moving, handler'[c] \in Chat!Moving,
              \A b \in Chat!Conns : b # c => handler'[b] = handler[b]
       PROVE  Chat!Told'
  <2>1. ASSUME NEW b \in Chat!Conns, NEW r \in Chat!Conns, b # c PROVE ToldTo(b, r)'
    BY <1>2, <1>10, <2>1 DEF Chat!Hears, Chat!InRoom
  <2>2. ASSUME NEW r \in Chat!Conns PROVE ToldTo(c, r)'
    <3>1. /\ Chat!After(c)' = Chat!After(c) /\ (Chat!Ranked(c)' <=> Chat!Ranked(c))
          /\ Chat!InTodo(fd[r], c)' <=> Chat!InTodo(fd[r], c)
          /\ Chat!Hears(r)' <=> Chat!Hears(r)
      BY <1>10 DEF Chat!After, Chat!Ranked, Chat!InTodo, Chat!Hears, Chat!InRoom
    <3>2. ToldTo(c, r)
      BY <1>0
    <3> HIDE DEF Chat!After, Chat!Ranked, Chat!InTodo, Chat!Hears
    <3> QED
      BY <1>0, <1>10, <3>1, <3>2 DEF ToldTo
  <2>3. \A b, r \in Chat!Conns : ToldTo(b, r)'
    BY <2>1, <2>2
  <2> QED
    BY <1>1, <2>3
<1>11. ASSUME NEW c \in Chat!Conns, Chat!SendWaits(c) PROVE Chat!Told'
  <2>1. /\ handler[c] \in Chat!Moving /\ handler'[c] \in Chat!Moving
        /\ \A b \in Chat!Conns : b # c => handler'[b] = handler[b]
    BY <1>11 DEF Chat!SendWaits, Chat!Wait, Chat!Goto, Chat!TypeOK, Chat!Moving
  <2> QED
    BY <1>10, <1>11, <2>1 DEF Chat!SendWaits, Chat!Wait
<1>12. ASSUME NEW d \in Chat!Fds, Chat!Writable(d) PROVE Chat!Told'
  <2>1. PICK c \in Chat!Conns : c = writer[d] /\ handler[c] = "parked"
    BY <1>12 DEF Chat!Writable, Chat!TypeOK, Chat!Jobs
  <2>2. /\ handler[c] \in Chat!Moving /\ handler'[c] \in Chat!Moving
        /\ \A b \in Chat!Conns : b # c => handler'[b] = handler[b]
    BY <1>12, <2>1 DEF Chat!Writable, Chat!Goto, Chat!TypeOK, Chat!Moving
  <2> QED
    BY <1>10, <1>12, <2>2 DEF Chat!Writable
<1>13. ASSUME NEW c \in Chat!Conns, Chat!SendFails(c) \/ Chat!SendTakes(c) PROVE Chat!Told'
  <2>1. /\ handler[c] = "sending" /\ Chat!Proceed(c)
        /\ UNCHANGED <<client, fd, registered, chat_users>>
    BY <1>13 DEF Chat!SendFails, Chat!SendTakes, Chat!HasRoom
  <2>2. /\ \A b \in Chat!Conns : b # c => handler'[b] = handler[b] /\ job'[b] = job[b]
        /\ Chat!After(c) = job[c].then /\ Chat!After(c)' = Chat!After(c)
        /\ handler'[c] \in Chat!Moving
               => (Chat!Ranked(c)' <=> Chat!Ranked(c)) /\ job'[c].rank = job[c].rank
        /\ \A d : Chat!InTodo(d, c) /\ d # Chat!Target(c)
               => handler'[c] \in Chat!Moving /\ Chat!InTodo(d, c)'
    BY <2>1, ProceedMoves
  <2>3. /\ \A r \in Chat!Conns : Chat!Hears(r)' => Chat!Hears(r)
        /\ \A r \in Chat!Conns : Chat!Hears(r)' /\ fd[r] = Chat!Target(c) /\ Chat!SendTakes(c)
             => Chat!Fits(c)
    <3>1. CASE Chat!SendFails(c)
      <4>1. torn' = torn /\ ~Chat!SendTakes(c)
        BY <3>1 DEF Chat!SendFails, Chat!SendTakes, Chat!HasRoom
      <4> QED
        BY <2>1, <4>1 DEF Chat!Hears, Chat!InRoom
    <3>2. CASE Chat!SendTakes(c)
      <4>1. Chat!Connected(Chat!Target(c)) /\ Chat!Arrive(c, Chat!Nobody)
        BY <3>2 DEF Chat!SendTakes, Chat!HasRoom
      <4>2. \A r \in Chat!Conns : torn'[r] = {}
                => torn[r] = {} /\ (fd[r] = Chat!Target(c) => Chat!Fits(c))
        <5>1. Chat!Nobody \in Chat!Conns \cup {Chat!Nobody}
          OBVIOUS
        <5>2. PICK q \in Chat!Conns : Arrives(c, Chat!Nobody, q)
          BY <4>1, <5>1, ArriveEffect
        <5>3. torn'[q] = {} => torn[q] = {} /\ Chat!Fits(c)
          BY <5>2 DEF Arrives
        <5> QED
          BY <5>2, <5>3 DEF Arrives
      <4> QED
        BY <2>1, <4>2 DEF Chat!Hears, Chat!InRoom
    <3> QED
      BY <1>13, <3>1, <3>2
  <2>4. \A b, r \in Chat!Conns : b # c => heard'[r][b] = heard[r][b]
    <3>1. CASE Chat!SendFails(c)
      BY <3>1 DEF Chat!SendFails
    <3>2. CASE Chat!SendTakes(c)
      <4>1. Chat!Connected(Chat!Target(c)) /\ Chat!Deliver(c)
        BY <3>2 DEF Chat!SendTakes, Chat!HasRoom
      <4> QED
        BY <4>1, DeliverEffect
    <3> QED
      BY <1>13, <3>1, <3>2
  <2>5. ASSUME NEW b \in Chat!Conns, NEW r \in Chat!Conns, b # c PROVE ToldTo(b, r)'
    BY <1>2, <2>1, <2>2, <2>3, <2>4, <2>5
  <2>6. ASSUME NEW r \in Chat!Conns, Chat!After(c) \in Last, Chat!Hears(r), Chat!Hears(r)',
               heard'[r][c] # <<>>
        PROVE  \/ heard'[r][c][Len(heard'[r][c])] = Chat!Left
               \/ Chat!Ranked(c)' /\ job'[c].rank = Chat!Left /\ Chat!InTodo(fd[r], c)'
    <3> DEFINE told == heard[r][c]
    <3>0. Chat!Ranked(c) => job[c].rank = Chat!Left
      BY <2>2, <2>6 DEF JobRanks
    <3>1. CASE heard'[r][c] = told /\ fd[r] # Chat!Target(c)
      <4>1. \/ told[Len(told)] = Chat!Left
            \/ Chat!Ranked(c) /\ job[c].rank = Chat!Left /\ Chat!InTodo(fd[r], c)
        BY <1>0, <2>6, <3>1 DEF ToldTo
      <4>2. CASE Chat!Ranked(c) /\ job[c].rank = Chat!Left /\ Chat!InTodo(fd[r], c)
        <5>1. handler'[c] \in Chat!Moving /\ Chat!InTodo(fd[r], c)'
          BY <2>1, <2>2, <3>1, <4>2 DEF Chat!InTodo
        <5> QED
          BY <2>2, <4>2, <5>1
      <4> QED
        BY <3>1, <4>1, <4>2
    <3>2. CASE fd[r] = Chat!Target(c) /\ Chat!Ranked(c)
      <4>1. Chat!InRoom(r) /\ client[r] = "connected"
        BY <2>6 DEF Chat!Hears
      <4>2. fd[r] # 0
        BY <4>1 DEF Chat!Room, Chat!Connections, Chat!After, Chat!Moving
      <4>3. Chat!Connected(Chat!Target(c))
        <5>1. fd[r] \in Chat!Open
          BY <4>2 DEF Chat!Open
        <5>2. Chat!ConnOf(fd[r]) = r
          BY <4>2 DEF Chat!ConnOf, Chat!Connections
        <5> QED
          BY <3>2, <4>1, <5>1, <5>2 DEF Chat!Connected
      <4>4. Chat!SendTakes(c) /\ Chat!Deliver(c)
        BY <1>13, <4>3 DEF Chat!SendFails, Chat!SendTakes, Chat!HasRoom
      <4>5. heard'[r][c] = Append(told, Chat!Left)
        <5>1. job[c].rank # Chat!Other
          BY <3>2 DEF Chat!Ranked
        <5>2. Chat!Fits(c)
          BY <2>3, <2>6, <3>2, <4>4
        <5> QED
          BY <3>0, <3>2, <4>1, <4>3, <4>4, <5>1, <5>2, DeliverEffect
      <4>6. told \in Seq(1 .. Chat!Left)
        BY DEF Chat!TypeOK
      <4>7. Append(told, Chat!Left)[Len(Append(told, Chat!Left))] = Chat!Left
        <5>1. \A S : \A t \in Seq(S) : \A e :
                Append(t, e)[Len(t) + 1] = e /\ Len(Append(t, e)) = Len(t) + 1
          OBVIOUS
        <5> HIDE DEF told
        <5> QED
          BY <4>6, <5>1
      <4> QED
        BY <4>5, <4>7
    <3>3. CASE heard'[r][c] = told /\ ~Chat!Ranked(c)
      <4>1. told[Len(told)] = Chat!Left
        BY <1>0, <2>6, <3>3 DEF ToldTo
      <4> QED
        BY <3>3, <4>1
    <3>4. heard'[r][c] = told \/ (fd[r] = Chat!Target(c) /\ Chat!Ranked(c))
      <4>1. CASE Chat!SendFails(c)
        BY <4>1 DEF Chat!SendFails
      <4>2. CASE Chat!SendTakes(c)
        <5>1. Chat!Connected(Chat!Target(c)) /\ Chat!Deliver(c)
          BY <4>2 DEF Chat!SendTakes, Chat!HasRoom
        <5>2. handler[c] \in Chat!Moving
          BY <2>1 DEF Chat!Moving
        <5> QED
          BY <5>1, <5>2, DeliverEffect DEF Chat!Ranked
      <4> QED
        BY <1>13, <4>1, <4>2
    <3> QED
      BY <3>1, <3>2, <3>3, <3>4
  <2>7. ASSUME NEW r \in Chat!Conns PROVE ToldTo(c, r)'
    BY <1>0, <2>2, <2>3, <2>6 DEF ToldTo
  <2>8. \A b, r \in Chat!Conns : ToldTo(b, r)'
    BY <2>5, <2>7
  <2> QED
    BY <1>1, <2>8
<1> QED
  BY <1>3, <1>4, <1>5, <1>6, <1>7, <1>8, <1>11, <1>12, <1>13, <1>14, <1>15, ChatSteps

(* Whose frame a client is amid of keeps at it, and cuts only the frames   *)
(* of others.                                                              *)
LEMMA StreamsStep ==
  ASSUME Chat!ChatAssumption, Chat!TypeOK, Chat!Connections, Chat!Jobs, Chat!Room,
         Chat!Streams, CutByOthers, [Chat!Next]_Chat!vars
  PROVE  Chat!Streams' /\ CutByOthers'
<1> USE DEF Chat!room, Chat!reactor, Chat!network, Chat!stream
<1>1. ASSUME \A b \in begun' : handler'[b] \in Chat!Moving,
             \A r \in Chat!Conns :
               /\ torn'[r] # {} => amid'[r] = Chat!Nobody
               /\ amid'[r] # Chat!Nobody => fd'[r] # 0
               /\ amid'[r] # Chat!Nobody /\ client'[r] = "connected" =>
                    amid'[r] \in begun' /\ Head(job'[amid'[r]].todo) = fd'[r]
               /\ \A cut \in torn'[r] : cut[1] # cut[2]
      PROVE  Chat!Streams' /\ CutByOthers'
  BY <1>1 DEF Chat!Streams, CutByOthers, Chat!Target
<1>2. /\ \A r \in Chat!Conns :
           /\ torn[r] # {} => amid[r] = Chat!Nobody
           /\ amid[r] # Chat!Nobody => fd[r] # 0
           /\ amid[r] # Chat!Nobody /\ client[r] = "connected" =>
                amid[r] \in begun /\ Head(job[amid[r]].todo) = fd[r]
           /\ \A cut \in torn[r] : cut[1] # cut[2]
      /\ \A b \in begun : b \in Chat!Conns /\ handler[b] \in Chat!Moving
      /\ \A c \in Chat!Conns : c # Chat!Nobody
  BY DEF Chat!Streams, CutByOthers, Chat!Target, Chat!TypeOK, Chat!Conns, Chat!Nobody
<1>3. ASSUME UNCHANGED begun,
             \A b \in begun : handler'[b] \in Chat!Moving /\ job'[b] = job[b],
             \A r \in Chat!Conns :
               \/ amid'[r] = Chat!Nobody /\ torn'[r] = {}
               \/ /\ amid'[r] = amid[r] /\ torn'[r] = torn[r]
                  /\ amid[r] # Chat!Nobody =>
                       fd'[r] = fd[r] /\ (client'[r] = "connected" => client[r] = "connected")
      PROVE  Chat!Streams' /\ CutByOthers'
  <2>1. ASSUME NEW r \in Chat!Conns
        PROVE  /\ torn'[r] # {} => amid'[r] = Chat!Nobody
               /\ amid'[r] # Chat!Nobody => fd'[r] # 0
               /\ amid'[r] # Chat!Nobody /\ client'[r] = "connected" =>
                    amid'[r] \in begun' /\ Head(job'[amid'[r]].todo) = fd'[r]
               /\ \A cut \in torn'[r] : cut[1] # cut[2]
    <3>1. CASE amid'[r] = Chat!Nobody /\ torn'[r] = {}
      BY <3>1
    <3>2. CASE /\ amid'[r] = amid[r] /\ torn'[r] = torn[r]
               /\ amid[r] # Chat!Nobody =>
                    fd'[r] = fd[r] /\ (client'[r] = "connected" => client[r] = "connected")
      BY <1>2, <1>3, <3>2
    <3> QED
      BY <1>3, <3>1, <3>2
  <2> QED
    BY <1>1, <1>3, <2>1
<1>4. CASE UNCHANGED Chat!vars
  BY <1>2, <1>3, <1>4 DEF Chat!vars
<1>5. ASSUME NEW c \in Chat!Conns, Begins(c) PROVE Chat!Streams' /\ CutByOthers'
  <2>1. PICK rank \in 0 .. Chat!Left, fds \in Seq(Chat!Fds), next \in Chat!States :
               Begin(c, rank, fds, next)
    BY <1>5 DEF Begins
  <2>2. /\ handler[c] \notin Chat!Moving
        /\ \A b \in Chat!Conns : b # c => handler'[b] = handler[b] /\ job'[b] = job[b]
    BY <2>1, BeginEffect
  <2>3. UNCHANGED <<begun, amid, torn, fd, client>>
    BY <2>1 DEF Begin
  <2> QED
    BY <1>2, <1>3, <2>2, <2>3
<1>6. ASSUME NEW c \in Chat!Conns, Moves(c) PROVE Chat!Streams' /\ CutByOthers'
  <2>1. /\ handler[c] \notin Chat!Moving /\ job' = job
        /\ \A b \in Chat!Conns : b # c => handler'[b] = handler[b]
        /\ UNCHANGED <<begun, amid, torn, fd, client>>
    BY <1>6 DEF Moves, Chat!Goto, Chat!TypeOK, Chat!Moving
  <2> QED
    BY <1>2, <1>3, <2>1
<1>7. ASSUME NEW c \in Chat!Conns, Closes(c) PROVE Chat!Streams' /\ CutByOthers'
  <2>1. /\ handler[c] \notin Chat!Moving /\ job' = job /\ begun' = begun
        /\ \A b \in Chat!Conns : b # c =>
             /\ handler'[b] = handler[b] /\ amid'[b] = amid[b] /\ torn'[b] = torn[b]
             /\ fd'[b] = fd[b] /\ client'[b] = client[b]
        /\ amid'[c] = Chat!Nobody /\ torn'[c] = {}
    BY <1>7 DEF Closes, Chat!CloseFd, Chat!Goto, Chat!TypeOK, Chat!Moving
  <2> QED
    BY <1>2, <1>3, <2>1
<1>8. ASSUME NEW c \in Chat!Conns, Chat!Accept(c) PROVE Chat!Streams' /\ CutByOthers'
  <2>1. PICK d \in Chat!Fds : fd' = [fd EXCEPT ![c] = d]
    BY <1>8, LowestIsFree
  <2>2. /\ handler[c] \notin Chat!Moving /\ fd[c] = 0 /\ job' = job
        /\ \A b \in Chat!Conns : b # c =>
             handler'[b] = handler[b] /\ fd'[b] = fd[b] /\ client'[b] = client[b]
        /\ UNCHANGED <<begun, amid, torn>>
    BY <1>8, <2>1 DEF Chat!Accept, Chat!Connections, Chat!Goto, Chat!TypeOK, Chat!Moving
  <2>3. amid[c] = Chat!Nobody
    BY <1>2, <2>2
  <2> QED
    BY <1>2, <1>3, <2>2, <2>3
<1>9. ASSUME NEW c \in Chat!Conns, Chat!Disconnect(c) PROVE Chat!Streams' /\ CutByOthers'
  <2>1. /\ UNCHANGED <<begun, amid, torn, fd, handler, job>>
        /\ \A b \in Chat!Conns : client'[b] = "connected" => client[b] = "connected"
    BY <1>9 DEF Chat!Disconnect, Chat!TypeOK
  <2> QED
    BY <1>2, <1>3, <2>1
<1>10. ASSUME NEW c \in Chat!Conns, Chat!SendWaits(c) PROVE Chat!Streams' /\ CutByOthers'
  <2>1. /\ handler'[c] \in Chat!Moving
        /\ \A b \in Chat!Conns : b # c => handler'[b] = handler[b]
        /\ UNCHANGED <<begun, amid, torn, fd, client, job>>
    BY <1>10 DEF Chat!SendWaits, Chat!Wait, Chat!Goto, Chat!TypeOK, Chat!Moving
  <2> QED
    BY <1>2, <1>3, <2>1
<1>11. ASSUME NEW d \in Chat!Fds, Chat!Writable(d) PROVE Chat!Streams' /\ CutByOthers'
  <2>1. writer[d] \in Chat!Conns
    BY <1>11 DEF Chat!Writable, Chat!TypeOK
  <2>2. /\ handler'[writer[d]] \in Chat!Moving
        /\ \A b \in Chat!Conns : b # writer[d] => handler'[b] = handler[b]
        /\ UNCHANGED <<begun, amid, torn, fd, client, job>>
    BY <1>11, <2>1 DEF Chat!Writable, Chat!Goto, Chat!TypeOK, Chat!Moving
  <2> QED
    BY <1>2, <1>3, <2>1, <2>2
<1>12. ASSUME NEW d \in Chat!Fds, Chat!Drain(d) PROVE Chat!Streams' /\ CutByOthers'
  <2>1. UNCHANGED <<begun, amid, torn, fd, client, handler, job>>
    BY <1>12 DEF Chat!Drain
  <2> QED
    BY <1>2, <1>3, <2>1
<1>13. ASSUME NEW c \in Chat!Conns, handler[c] = "sending", Chat!Proceed(c),
              UNCHANGED <<client, fd>>,
              \A r \in Chat!Conns :
                \/ amid'[r] = Chat!Nobody /\ \A cut \in torn'[r] : cut[1] # cut[2]
                \/ /\ amid'[r] = amid[r] /\ torn'[r] = torn[r]
                   /\ client[r] = "connected" => amid[r] # c
       PROVE  Chat!Streams' /\ CutByOthers'
  <2>1. /\ begun' = begun \ {c}
        /\ \A b \in Chat!Conns : b # c => handler'[b] = handler[b] /\ job'[b] = job[b]
    BY <1>13, ProceedMoves DEF Chat!Proceed
  <2>2. ASSUME NEW r \in Chat!Conns
        PROVE  /\ torn'[r] # {} => amid'[r] = Chat!Nobody
               /\ amid'[r] # Chat!Nobody => fd'[r] # 0
               /\ amid'[r] # Chat!Nobody /\ client'[r] = "connected" =>
                    amid'[r] \in begun' /\ Head(job'[amid'[r]].todo) = fd'[r]
               /\ \A cut \in torn'[r] : cut[1] # cut[2]
    <3>1. CASE amid'[r] = Chat!Nobody /\ \A cut \in torn'[r] : cut[1] # cut[2]
      BY <3>1
    <3>2. CASE /\ amid'[r] = amid[r] /\ torn'[r] = torn[r]
               /\ client[r] = "connected" => amid[r] # c
      BY <1>2, <1>13, <2>1, <3>2
    <3> QED
      BY <1>13, <3>1, <3>2
  <2> QED
    BY <1>1, <1>2, <2>1, <2>2
<1>14. ASSUME NEW c \in Chat!Conns, Chat!SendFails(c) PROVE Chat!Streams' /\ CutByOthers'
  <2>1. ASSUME NEW r \in Chat!Conns, client[r] = "connected" PROVE amid[r] # c
    <3>1. SUFFICES ASSUME amid[r] = c PROVE FALSE
      OBVIOUS
    <3>2. fd[r] = Chat!Target(c) /\ fd[r] # 0
      BY <1>2, <2>1, <3>1 DEF Chat!Target
    <3>3. Chat!ConnOf(Chat!Target(c)) = r /\ Chat!Target(c) \in Chat!Open
      BY <3>2 DEF Chat!ConnOf, Chat!Connections, Chat!Open
    <3> QED
      BY <1>14, <2>1, <3>3 DEF Chat!SendFails, Chat!Connected
  <2>2. handler[c] = "sending" /\ Chat!Proceed(c) /\ UNCHANGED <<client, fd, amid, torn>>
    BY <1>14 DEF Chat!SendFails
  <2> QED
    BY <1>13, <2>1, <2>2
<1>15. ASSUME NEW c \in Chat!Conns, NEW next \in Chat!Conns \cup {Chat!Nobody},
              Chat!Connected(Chat!Target(c)), Chat!Arrive(c, next)
       PROVE  \E r \in Chat!Conns :
                /\ fd[r] = Chat!Target(c) /\ fd[r] # 0
                /\ \A cut \in torn'[r] : cut[1] # cut[2]
                /\ amid'[r] \in {next, Chat!Nobody} /\ (torn'[r] # {} => amid'[r] = Chat!Nobody)
                /\ \A b \in Chat!Conns : b # r =>
                     /\ amid'[b] = amid[b] /\ torn'[b] = torn[b]
                     /\ client[b] = "connected" => amid[b] # c
  <2>1. PICK r \in Chat!Conns : Arrives(c, next, r)
    BY <1>15, ArriveEffect
  <2>2. ~Chat!Fits(c) /\ torn[r] = {} => amid[r] # c
    <3>1. amid[r] = c => c \in begun
      BY <1>2, <2>1 DEF Arrives
    <3> QED
      BY <2>1, <3>1 DEF Arrives
  <2>3. \A cut \in torn'[r] : cut[1] # cut[2]
    BY <1>2, <2>1, <2>2 DEF Arrives
  <2>4. ASSUME NEW b \in Chat!Conns, b # r, client[b] = "connected" PROVE amid[b] # c
    BY <1>2, <2>1, <2>4 DEF Arrives, Chat!Target
  <2>5. amid'[r] \in {next, Chat!Nobody} /\ (torn'[r] # {} => amid'[r] = Chat!Nobody)
    BY <2>1 DEF Arrives
  <2>6. fd[r] = Chat!Target(c) /\ fd[r] # 0
    BY <2>1 DEF Arrives
  <2>7. \A b \in Chat!Conns : b # r => amid'[b] = amid[b] /\ torn'[b] = torn[b]
    BY <2>1 DEF Arrives
  <2> QED
    BY <2>3, <2>4, <2>5, <2>6, <2>7
<1>16. ASSUME NEW c \in Chat!Conns, Chat!SendTakes(c) PROVE Chat!Streams' /\ CutByOthers'
  <2>1. /\ handler[c] = "sending" /\ Chat!Proceed(c) /\ UNCHANGED <<client, fd>>
        /\ Chat!Connected(Chat!Target(c)) /\ Chat!Arrive(c, Chat!Nobody)
    BY <1>16 DEF Chat!SendTakes, Chat!HasRoom
  <2>2. \A r \in Chat!Conns :
          \/ amid'[r] = Chat!Nobody /\ \A cut \in torn'[r] : cut[1] # cut[2]
          \/ /\ amid'[r] = amid[r] /\ torn'[r] = torn[r]
             /\ client[r] = "connected" => amid[r] # c
    BY <1>15, <2>1
  <2> QED
    BY <1>13, <2>1, <2>2
<1>17. ASSUME NEW c \in Chat!Conns, Chat!SendTakesPart(c) PROVE Chat!Streams' /\ CutByOthers'
  <2>1. /\ handler[c] \in Chat!Moving /\ begun' = begun \cup {c}
        /\ UNCHANGED <<client, fd, handler, job>>
        /\ Chat!Connected(Chat!Target(c)) /\ Chat!Arrive(c, c)
    BY <1>17 DEF Chat!SendTakesPart, Chat!HasRoom, Chat!Moving
  <2>2. PICK r \in Chat!Conns :
          /\ fd[r] = Chat!Target(c) /\ fd[r] # 0
          /\ \A cut \in torn'[r] : cut[1] # cut[2]
          /\ amid'[r] \in {c, Chat!Nobody} /\ (torn'[r] # {} => amid'[r] = Chat!Nobody)
          /\ \A b \in Chat!Conns : b # r => amid'[b] = amid[b] /\ torn'[b] = torn[b]
    BY <1>15, <2>1
  <2>3. ASSUME NEW b \in Chat!Conns
        PROVE  /\ torn'[b] # {} => amid'[b] = Chat!Nobody
               /\ amid'[b] # Chat!Nobody => fd'[b] # 0
               /\ amid'[b] # Chat!Nobody /\ client'[b] = "connected" =>
                    amid'[b] \in begun' /\ Head(job'[amid'[b]].todo) = fd'[b]
               /\ \A cut \in torn'[b] : cut[1] # cut[2]
    <3>1. CASE b = r
      BY <2>1, <2>2, <3>1 DEF Chat!Target
    <3>2. CASE b # r
      BY <1>2, <2>1, <2>2, <3>2
    <3> QED
      BY <3>1, <3>2
  <2> QED
    BY <1>1, <1>2, <2>1, <2>3
<1> QED
  BY <1>4, <1>5, <1>6, <1>7, <1>8, <1>9, <1>10, <1>11, <1>12, <1>14, <1>16, <1>17, ChatSteps

(* The server starts with nobody connected.                                *)
LEMMA ChatInit ==
  ASSUME Chat!ChatAssumption, Chat!Init PROVE Chat!IInv
<1>1. Chat!TypeOK
  <2>1. Chat!NoJob \in Chat!Job /\ "none" \in Chat!States
    BY RanksAreNumbers DEF Chat!NoJob, Chat!Job, Chat!States, Chat!Other
  <2>2. job \in [Chat!Conns -> Chat!Job] /\ handler \in [Chat!Conns -> Chat!States]
    BY <2>1 DEF Chat!Init
  <2>3. heard \in [Chat!Conns -> [Chat!Conns -> Seq(1 .. Chat!Left)]]
    BY DEF Chat!Init
  <2>4. fd \in [Chat!Conns -> 0 .. MaxFd] /\ texts \in [Chat!Conns -> 0 .. MaxTexts]
    BY DEF Chat!Init, Chat!ChatAssumption
  <2> QED
    BY <2>2, <2>3, <2>4 DEF Chat!Init, Chat!TypeOK
<1>2. /\ \A c \in Chat!Conns :
           handler[c] = "none" /\ client[c] = "away" /\ fd[c] = 0 /\ ~Chat!Ranked(c)
                          /\ Chat!After(c) = "none" /\ ~Chat!InRoom(c)
      /\ \A c, s \in Chat!Conns : heard[c][s] = <<>> /\ 1 .. Len(heard[c][s]) = {}
  BY DEF Chat!Init, Chat!Ranked, Chat!After, Chat!Moving, Chat!InRoom
<1>3. Chat!Connections /\ Chat!Jobs
  BY <1>2 DEF Chat!Connections, Chat!Jobs, Chat!Init, Chat!Moving, Chat!Fds
<1>4. Chat!Room
  BY <1>2 DEF Chat!Room, Chat!Init
<1>5. Chat!Ranks /\ Chat!Told
  BY <1>2 DEF Chat!Ranks, Chat!Told
<1>6. Chat!Streams /\ Chat!PerSenderOrder
  BY <1>2 DEF Chat!Init, Chat!Streams, Chat!PerSenderOrder
<1> QED
  BY <1>1, <1>3, <1>4, <1>5, <1>6 DEF Chat!IInv

(* The server's invariant is inductive.                                    *)
LEMMA ChatStep ==
  ASSUME Chat!ChatAssumption, Chat!IInv, [Chat!Next]_Chat!vars PROVE Chat!IInv'
<1>1. JobRanks /\ HeardRanks /\ InOrder /\ CutByOthers
  BY DEF Chat!IInv, Chat!Ranks, JobRanks, HeardRanks, Chat!PerSenderOrder, InOrder, CutByOthers
<1>2. Chat!TypeOK' /\ Chat!Connections' /\ Chat!Jobs' /\ Chat!Room'
  BY ChatTypeStep, ConnectionsStep, JobsStep, RoomStep DEF Chat!IInv
<1>3. JobRanks' /\ HeardRanks' /\ InOrder' /\ Chat!Told'
  BY <1>1, JobRanksStep, HeardStep, ToldStep DEF Chat!IInv
<1>4. Chat!Streams' /\ CutByOthers'
  BY <1>1, StreamsStep DEF Chat!IInv
<1>5. Chat!Ranks' /\ Chat!PerSenderOrder'
  BY <1>3, <1>4
     DEF Chat!Ranks, JobRanks, HeardRanks, Chat!PerSenderOrder, InOrder, CutByOthers
<1> QED
  BY <1>2, <1>3, <1>4, <1>5 DEF Chat!IInv

(* It gives what the runs check of the server.                             *)
LEMMA ChatImplies ==
  ASSUME /\ Chat!ChatAssumption, Chat!IInv PROVE Chat!RoomIsConnected /\ Chat!PerSenderOrder
         /\ Chat!LeaveIsTold
<1>1. Chat!RoomIsConnected
  <2>1. ASSUME NEW i \in 1 .. Len(chat_users)
        PROVE  chat_users[i] \in Chat!Conns /\ fd[chat_users[i]] # 0
    <3>1. chat_users[i] \in Chat!Conns
      BY DEF Chat!IInv, Chat!TypeOK
    <3>2. Chat!InRoom(chat_users[i])
      BY DEF Chat!InRoom
    <3> QED
      BY <3>1, <3>2 DEF Chat!IInv, Chat!Room, Chat!Connections, Chat!After, Chat!Moving
  <2>2. ASSUME NEW i \in 1 .. Len(chat_users), NEW j \in 1 .. Len(chat_users),
               fd[chat_users[i]] = fd[chat_users[j]]
        PROVE  i = j
    <3>1. chat_users[i] = chat_users[j]
      BY <2>1, <2>2 DEF Chat!IInv, Chat!Connections
    <3> QED
      BY <3>1 DEF Chat!IInv, Chat!Room
  <2> QED
    BY <2>1, <2>2 DEF Chat!RoomIsConnected
<1>2. Chat!LeaveIsTold
  <2>1. ASSUME NEW c \in Chat!Conns, NEW r \in Chat!Conns,
               handler[c] = "ended", Chat!InRoom(r), client[r] = "connected", torn[r] = {},
               heard[r][c] # <<>>
        PROVE  heard[r][c][Len(heard[r][c])] = Chat!Left
    <3>1. Chat!After(c) = "ended" /\ ~Chat!Ranked(c) /\ Chat!Hears(r)
      BY <2>1 DEF Chat!After, Chat!Ranked, Chat!Moving, Chat!Hears
    <3> QED
      BY <2>1, <3>1 DEF Chat!IInv, Chat!Told
  <2> QED
    BY <2>1 DEF Chat!LeaveIsTold
<1> QED
  BY <1>1, <1>2 DEF Chat!IInv

-----------------------------------------------------------------------------
(* A number is the sum of its bytes.                                       *)
LEMMA FourBytes ==
  ASSUME NEW n \in Nat, n <= 2147483647
  PROVE  /\ n \div 16777216 \in 0 .. 127
         /\ n = (((n \div 16777216) * 256 + ((n \div 65536) % 256)) * 256
                 + ((n \div 256) % 256)) * 256 + (n % 256)
BY SMT

LEMMA TwoBytes ==
  ASSUME NEW n \in Nat, n < 32768
  PROVE  n \div 256 \in 0 .. 127 /\ n % 256 \in 0 .. 255 /\ n = 256 * (n \div 256) + (n % 256)
BY SMT

LEMMA OneByte ==
  ASSUME NEW n \in Nat
  PROVE  n \div 1 = n /\ (n < 128 => n % 256 = n)
BY SMT

(* The length that is read, of one, two or eight bytes.                    *)
LEMMA LengthsAreRead ==
  ASSUME Frame!FrameAssumption, NEW len \in Lengths
  PROVE  /\ len \in Nat
         /\ Frame!ExtBytes(Frame!LengthBits(len)) \in {0, 2, 8}
         /\ Frame!ExtBytes(Frame!LengthBits(len)) > 0 => Frame!ExtLength(len) = len
<1>1. /\ len \in Nat /\ len <= 2147483647
      /\ len < 126 \/ (len < 32768 /\ len % 256 < 128) \/ len >= 65536
  BY SMT DEF Frame!FrameAssumption
<1>2. Frame!ExtBytes(Frame!LengthBits(len)) \in {0, 2, 8}
  BY SMT DEF Frame!ExtBytes, Frame!LengthBits
<1>3. CASE len < 126
  BY <1>1, <1>2, <1>3, SMT DEF Frame!ExtBytes, Frame!LengthBits
<1>4. CASE len \in 126 .. 32767 /\ len % 256 < 128
  <2> DEFINE high == len \div 256  low == len % 256
  <2>1. low \in 0 .. 127 /\ high \in 0 .. 127 /\ len = 256 * high + low
    BY <1>1, <1>4, TwoBytes, SMTT(60)
  <2>2. Frame!LengthBits(len) = 126
    BY <1>4, SMT DEF Frame!LengthBits
  <2>3. Frame!Digit(len, 256) = high /\ Frame!Digit(len, 1) = low
    <3>1. high % 256 = high /\ len \div 1 = len
      <4> HIDE DEF high
      <4> QED
        BY <2>1, <1>1, OneByte
    <3> QED
      BY <3>1 DEF Frame!Digit
  <2> HIDE DEF high, low
  <2>4. Frame!Widened(high) = high /\ Frame!Widened(low) = low
    BY <2>1, SMT DEF Frame!Widened
  <2>5. Frame!Length2(len) = high * 256 + low
    BY <2>1, <2>3, <2>4, SMT DEF Frame!Length2, Frame!Joined
  <2> QED
    BY <1>1, <1>2, <2>1, <2>2, <2>5, SMT DEF Frame!ExtLength
<1>5. CASE len >= 65536
  <2>1. Frame!LengthBits(len) = 127
    BY <1>1, <1>5, SMT DEF Frame!LengthBits
  <2> DEFINE a == len \div 16777216  b == (len \div 65536) % 256
             c == (len \div 256) % 256  d == len % 256
  <2>2. a \in 0 .. 127 /\ len = ((a * 256 + b) * 256 + c) * 256 + d
    BY ONLY <1>1, FourBytes, SMT
  <2>3. a % 256 = a /\ len \div 1 = len
    <3> HIDE DEF a, b, c, d
    <3> QED
      BY <2>2, <1>1, OneByte, SMT
  <2>4. /\ Frame!Digit(len, 16777216) = a /\ Frame!Digit(len, 65536) = b
        /\ Frame!Digit(len, 256) = c /\ Frame!Digit(len, 1) = d
    BY <2>3, SMT DEF Frame!Digit
  <2> HIDE DEF a, b, c, d
  <2>5. Frame!Length8(len) = len
    BY <2>2, <2>4, SMT DEF Frame!Length8
  <2> QED
    BY <1>1, <1>2, <2>1, <2>5, SMT DEF Frame!ExtLength
<1> QED
  BY <1>1, <1>3, <1>4, <1>5, SMT

(* The sums of the bytes of the frames before each one exist: a first      *)
(* number without them would have them from the one before.                *)
LEMMA StartsAreSums ==
  ASSUME Frame!FrameAssumption, Frame!TypeOK
  PROVE  /\ Frame!StartOf(1) = 0
         /\ \A k \in 1 .. Len(sent) :
              Frame!StartOf(k + 1) = Frame!StartOf(k) + Frame!FrameBytes(sent[k])
<1> DEFINE Sums(m, sum) ==
             sum = [i \in 0 .. m |-> IF i = 0 THEN 0 ELSE sum[i - 1] + Frame!FrameBytes(sent[i])]
           Bad == {m \in Nat : ~ \E sum : Sums(m, sum)}
<1>1. Bad = {}
  <2> SUFFICES ASSUME Bad # {} PROVE FALSE
    OBVIOUS
  <2>1. PICK m \in Bad : \A n \in Bad : m <= n
    <3>1. Bad \in SUBSET Nat
      OBVIOUS
    <3> HIDE DEF Bad
    <3> QED
      BY <3>1, Least
  <2>2. m # 0
    <3>1. Sums(0, [i \in 0 .. 0 |-> 0])
      OBVIOUS
    <3> QED
      BY <3>1
  <2>3. PICK sum : Sums(m - 1, sum)
    <3>1. m \in Nat
      BY <2>1
    <3>2. m - 1 \in Nat /\ ~ (m <= m - 1)
      BY <2>2, <3>1
    <3>3. m - 1 \notin Bad
      BY <2>1, <3>2
    <3> QED
      BY <3>2, <3>3
  <2> DEFINE more == [i \in 0 .. m |-> IF i = m THEN sum[m - 1] + Frame!FrameBytes(sent[m]) ELSE sum[i]]
  <2>4. Sums(m, more)
    <3>1. m \in Nat /\ m > 0
      BY <2>1, <2>2
    <3>2. more[m] = more[m - 1] + Frame!FrameBytes(sent[m])
      BY <3>1
    <3>3. more[0] = 0
      BY <2>3, <3>1
    <3>4. \A i \in 1 .. m - 1 : more[i] = more[i - 1] + Frame!FrameBytes(sent[i])
      BY <2>3, <3>1
    <3>5. more = [i \in 0 .. m |-> more[i]]
      OBVIOUS
    <3> HIDE DEF more
    <3>6. \A i \in 0 .. m : more[i] = IF i = 0 THEN 0 ELSE more[i - 1] + Frame!FrameBytes(sent[i])
      <4> TAKE i \in 0 .. m
      <4>1. i = 0 \/ i = m \/ i \in 1 .. m - 1
        BY <3>1
      <4> QED
        BY <3>2, <3>3, <3>4, <4>1, <3>1
    <3> QED
      BY <3>5, <3>6
  <2> QED
    BY <2>1, <2>4
<1>2. Len(sent) \in Nat
  BY DEF Frame!TypeOK
<1>3. PICK sum : Sums(Len(sent), sum) /\ \A k : Frame!StartOf(k) = sum[k - 1]
  <2>1. \E sum : Sums(Len(sent), sum)
    BY <1>1, <1>2
  <2> QED
    BY <2>1 DEF Frame!StartOf
<1>4. sum[0] = 0 /\ \A i \in 1 .. Len(sent) : sum[i] = sum[i - 1] + Frame!FrameBytes(sent[i])
  BY <1>2, <1>3
<1>5. Frame!StartOf(1) = 0
  <2>1. 1 - 1 = 0
    OBVIOUS
  <2>2. Frame!StartOf(1) = sum[1 - 1]
    BY <1>3, Zenon
  <2> QED
    BY <1>4, <2>1, <2>2
<1>6. ASSUME NEW k \in 1 .. Len(sent)
      PROVE  Frame!StartOf(k + 1) = Frame!StartOf(k) + Frame!FrameBytes(sent[k])
  <2>1. (k + 1) - 1 = k
    OBVIOUS
  <2>2. Frame!StartOf(k) = sum[k - 1]
    BY <1>3, Zenon
  <2>3. Frame!StartOf(k + 1) = sum[(k + 1) - 1]
    BY <1>3, Zenon
  <2> QED
    BY <1>4, <2>1, <2>2, <2>3
<1> QED
  BY <1>5, <1>6

(* A frame has a header at least.                                          *)
LEMMA FramesHaveBytes ==
  ASSUME Frame!FrameAssumption, NEW f \in Frame!FrameOf
  PROVE  /\ f.masked \in BOOLEAN /\ f.payload_length \in Lengths /\ f.payload_length \in Nat
         /\ Frame!MaskBytes(f.masked) = IF f.masked THEN 4 ELSE 0
         /\ Frame!FrameBytes(f) = 2 + Frame!ExtBytes(Frame!LengthBits(f.payload_length))
                                    + Frame!MaskBytes(f.masked) + f.payload_length
         /\ Frame!FrameBytes(f) \in Nat /\ Frame!FrameBytes(f) >= 2
<1>1. f.masked \in BOOLEAN /\ f.payload_length \in Lengths
  BY DEF Frame!FrameOf
<1>2. /\ f.payload_length \in Nat
      /\ Frame!ExtBytes(Frame!LengthBits(f.payload_length)) \in {0, 2, 8}
  BY <1>1, LengthsAreRead
<1> QED
  BY <1>1, <1>2 DEF Frame!FrameBytes, Frame!MaskBytes

(* So frames start one behind the other, and where one starts it is the    *)
(* one whose header is there.                                              *)
LEMMA StartsGrow ==
  ASSUME Frame!FrameAssumption, Frame!TypeOK
  PROVE  /\ \A k \in 1 .. Len(sent) + 1 :
              Frame!StartOf(k) \in Nat /\ \A j \in 1 .. k - 1 : Frame!StartOf(j) < Frame!StartOf(k)
         /\ \A k \in 1 .. Len(sent) : Frame!FramesAt(Frame!StartOf(k)) = {sent[k]}
<1> DEFINE L == Len(sent)
           Good(k) == /\ Frame!StartOf(k) \in Nat
                      /\ \A j \in 1 .. k - 1 : Frame!StartOf(j) < Frame!StartOf(k)
           Bad == {k \in 1 .. L + 1 : ~Good(k)}
<1>1. L \in Nat /\ \A k \in 1 .. L : sent[k] \in Frame!FrameOf
  BY DEF Frame!TypeOK
<1>2. /\ Frame!StartOf(1) = 0
      /\ \A k \in 1 .. L : Frame!StartOf(k + 1) = Frame!StartOf(k) + Frame!FrameBytes(sent[k])
  BY StartsAreSums
<1>3. \A k \in 1 .. L : Frame!FrameBytes(sent[k]) \in Nat /\ Frame!FrameBytes(sent[k]) >= 2
  BY <1>1, FramesHaveBytes
<1> HIDE DEF L
<1>4. Bad = {}
  <2> SUFFICES ASSUME Bad # {} PROVE FALSE
    OBVIOUS
  <2>1. PICK m \in Bad : \A k \in Bad : m <= k
    <3>1. Bad \in SUBSET Nat
      BY <1>1
    <3> HIDE DEF Bad
    <3> QED
      BY <3>1, Least
  <2>2. m # 1
    BY <1>2, <2>1
  <2>3. m - 1 \in 1 .. L /\ m \in Nat
    BY <1>1, <2>1, <2>2
  <2>4. Good(m - 1)
    <3>1. m - 1 \in 1 .. L + 1 /\ ~ (m <= m - 1)
      BY <1>1, <2>3
    <3> QED
      BY <3>1, <2>1
  <2> DEFINE p == m - 1  b == Frame!FrameBytes(sent[p])
  <2>5. p \in 1 .. L /\ m = p + 1 /\ b \in Nat /\ b >= 2
    BY <1>3, <2>3
  <2>6. Frame!StartOf(m) = Frame!StartOf(p) + b
    BY <1>2, <2>5
  <2>7. Frame!StartOf(p) \in Nat /\ \A j \in 1 .. p - 1 : Frame!StartOf(j) < Frame!StartOf(p)
    BY <2>4
  <2> HIDE DEF p, b
  <2>8. \A j \in 1 .. m - 1 : Frame!StartOf(j) < Frame!StartOf(m)
    <3> TAKE j \in 1 .. m - 1
    <3>1. j = p \/ j \in 1 .. p - 1
      BY <2>5, <1>1
    <3>2. CASE j = p
      BY <3>2, <2>5, <2>6, <2>7
    <3>3. CASE j \in 1 .. p - 1
      <4>1. Frame!StartOf(j) < Frame!StartOf(p)
        BY <3>3, <2>7
      <4>2. j \in 1 .. L + 1 /\ ~ (m <= j)
        BY <3>3, <2>5, <1>1
      <4>3. Frame!StartOf(j) \in Nat
        BY <4>2, <2>1
      <4> QED
        BY <4>1, <4>3, <2>5, <2>6, <2>7
    <3> QED
      BY <3>1, <3>2, <3>3
  <2>9. Frame!StartOf(m) \in Nat
    BY <2>5, <2>6, <2>7
  <2> QED
    BY <2>1, <2>8, <2>9
<1>5. \A k \in 1 .. L + 1 : Good(k)
  BY <1>4
<1>6. ASSUME NEW k \in 1 .. L
      PROVE  Frame!FramesAt(Frame!StartOf(k)) = {sent[k]}
  <2>1. ASSUME NEW j \in 1 .. L, Frame!StartOf(j) = Frame!StartOf(k)
        PROVE  j = k
    <3>1. j \in 1 .. L + 1 /\ k \in 1 .. L + 1 /\ (j < k => j \in 1 .. k - 1) /\ (k < j => k \in 1 .. j - 1)
      BY <1>1
    <3>2. Frame!StartOf(k) \in Nat /\ ~ (j < k) /\ ~ (k < j)
      BY <1>5, <2>1, <3>1
    <3> QED
      BY <3>2, <1>1
  <2>2. {j \in 1 .. L : Frame!StartOf(j) = Frame!StartOf(k)} = {k}
    BY <2>1
  <2> QED
    BY <2>2 DEF Frame!FramesAt, L
<1> QED
  BY <1>5, <1>6 DEF L

(* A read gets what it asks for, or it stops at the end of the stream, or  *)
(* it is counted as a cut.                                                 *)
LEMMA ReadsOrCuts ==
  ASSUME Frame!FrameAssumption, Frame!TypeOK, at <= Frame!End, Frame!End \in Nat,
         NEW size \in Nat \ {0}, NEW n \in Frame!AsyncRead(size), Frame!Take(n, size)
  PROVE  /\ n \in 0 .. size /\ at' = at + n /\ at' \in Nat /\ at + n <= Frame!End /\ cuts' \in Nat
         /\ n # size => at + n = Frame!End \/ cuts' > 0
<1> DEFINE e == Frame!End
<1>1. at \in Nat /\ cuts \in Nat /\ e \in Nat /\ at <= e
  BY DEF Frame!TypeOK
<1>2. n \in {IF size < e - at THEN size ELSE e - at}
        \cup IF cuts < MaxCuts /\ (IF size < e - at THEN size ELSE e - at) > 1
               THEN {0, 1, (IF size < e - at THEN size ELSE e - at) - 1} ELSE {}
  BY DEF Frame!AsyncRead
<1>3. at' = at + n /\ cuts' = IF n < size /\ at + n < e THEN cuts + 1 ELSE cuts
  BY DEF Frame!Take
<1> HIDE DEF e
<1>4. n \in 0 .. size /\ at + n <= e
  BY <1>1, <1>2
<1>5. n # size => at + n = e \/ (n < size /\ at + n < e)
  BY <1>1, <1>4
<1> QED
  BY <1>1, <1>3, <1>4, <1>5 DEF e

(* What the frame after those returned is, and where it starts and ends.   *)
LEMMA NextFrame ==
  ASSUME Frame!FrameAssumption, Frame!IInv
  PROVE  /\ Len(returned) \in Nat /\ Len(sent) \in Nat /\ Len(returned) <= Len(sent)
         /\ Frame!End \in Nat /\ at \in Nat /\ at <= Frame!End
         /\ Frame!StartOf(Len(returned) + 1) \in Nat
         /\ Len(returned) = Len(sent) => Frame!StartOf(Len(returned) + 1) = Frame!End
         /\ Len(returned) < Len(sent) =>
              /\ sent[Len(returned) + 1] \in Frame!FrameOf
              /\ Frame!FramesAt(Frame!StartOf(Len(returned) + 1)) = {sent[Len(returned) + 1]}
              /\ Frame!StartOf(Len(returned) + 1 + 1) =
                   Frame!StartOf(Len(returned) + 1) + Frame!FrameBytes(sent[Len(returned) + 1])
<1> DEFINE r == Len(returned)  L == Len(sent)
<1>1. r \in Nat /\ L \in Nat /\ r <= L /\ at \in Nat /\ at <= Frame!End
  BY DEF Frame!IInv, Frame!TypeOK, Frame!InHand
<1>2. Frame!TypeOK /\ sent \in Seq(Frame!FrameOf)
  BY DEF Frame!IInv, Frame!TypeOK
<1>3. \A k \in 1 .. L + 1 : Frame!StartOf(k) \in Nat
  BY <1>2, StartsGrow
<1>4. \A k \in 1 .. L :
        /\ Frame!FramesAt(Frame!StartOf(k)) = {sent[k]}
        /\ Frame!StartOf(k + 1) = Frame!StartOf(k) + Frame!FrameBytes(sent[k])
        /\ sent[k] \in Frame!FrameOf
  BY <1>2, StartsGrow, StartsAreSums
<1>5. Frame!End = Frame!StartOf(L + 1)
  BY DEF Frame!End
<1> HIDE DEF r, L
<1>6. r + 1 \in 1 .. L + 1 /\ L + 1 \in 1 .. L + 1 /\ (r < L => r + 1 \in 1 .. L)
  BY <1>1
<1>7. /\ Frame!End \in Nat /\ Frame!StartOf(r + 1) \in Nat
      /\ r = L => Frame!StartOf(r + 1) = Frame!End
      /\ r < L => /\ sent[r + 1] \in Frame!FrameOf
                  /\ Frame!FramesAt(Frame!StartOf(r + 1)) = {sent[r + 1]}
                  /\ Frame!StartOf(r + 1 + 1) = Frame!StartOf(r + 1) + Frame!FrameBytes(sent[r + 1])
  BY <1>3, <1>4, <1>5, <1>6
<1> QED
  BY <1>1, <1>7 DEF r, L

(* The sums depend on the stream only, which no step changes.              *)
LEMMA SameStarts ==
  ASSUME sent' = sent, NEW n, Len(returned') = n
  PROVE  Frame!End' = Frame!End /\ Frame!StartOf(Len(returned) + 1)' = Frame!StartOf(n + 1)
BY SMT DEF Frame!End, Frame!StartOf, Frame!FrameBytes, Frame!ExtBytes, Frame!LengthBits,
   Frame!MaskBytes

(* A read that does not get what it asks for gives the frame up.           *)
LEMMA GivesUp ==
  ASSUME Frame!FrameAssumption, Frame!IInv, sent' = sent, Frame!Nullopt,
         at' \in Nat, at' <= Frame!End, cuts' \in Nat, at' = Frame!End \/ cuts' > 0
  PROVE  Frame!IInv'
<1>1. stage' = "nullopt" /\ UNCHANGED <<frame, total_read, returned>>
  BY DEF Frame!Nullopt
<1>2. Frame!End' = Frame!End
  BY SameStarts
<1>3. Frame!TypeOK'
  BY <1>1 DEF Frame!IInv, Frame!TypeOK
<1>4. Frame!FramesAsSent'
  BY <1>1, <1>2 DEF Frame!IInv, Frame!FramesAsSent
<1>5. Frame!InHand'
  BY <1>1, <1>2 DEF Frame!IInv, Frame!InHand
<1> QED
  BY <1>3, <1>4, <1>5 DEF Frame!IInv

(* A frame of which all is read is returned, and the reader is at the next.*)
LEMMA Returns ==
  ASSUME Frame!FrameAssumption, Frame!IInv, sent' = sent, Len(returned) < Len(sent),
         Frame!Return(sent[Len(returned) + 1]), cuts' \in Nat, at' \in Nat, at' <= Frame!End,
         at' = Frame!StartOf(Len(returned) + 1 + 1)
  PROVE  Frame!IInv'
<1> DEFINE r == Len(returned)
<1>1. /\ returned' = Append(returned, sent[r + 1]) /\ stage' = "header"
      /\ frame' = Frame!NoFrame /\ total_read' = 0
  BY DEF Frame!Return
<1>2. /\ returned \in Seq(Frame!FrameOf) /\ sent \in Seq(Frame!FrameOf)
      /\ sent[r + 1] \in Frame!FrameOf /\ r \in Nat /\ Len(sent) \in Nat
      /\ returned = SubSeq(sent, 1, r)
  BY NextFrame DEF Frame!IInv, Frame!TypeOK, Frame!FramesAsSent
<1>3. Len(returned') = r + 1 /\ returned' \in Seq(Frame!FrameOf)
  BY <1>1, <1>2
<1>4. returned' = SubSeq(sent', 1, Len(returned'))
  <2>1. \A i \in 1 .. r : returned[i] = sent[i]
    BY <1>2
  <2>2. \A i \in 1 .. r + 1 : returned'[i] = sent[i]
    BY <1>1, <1>2, <2>1
  <2> QED
    BY <1>2, <1>3, <2>2
<1>5. Frame!NoFrame \in Frame!Payloads
  BY DEF Frame!NoFrame, Frame!Payloads
<1>6. Frame!TypeOK'
  BY <1>1, <1>2, <1>3, <1>5 DEF Frame!TypeOK
<1>7. Frame!End' = Frame!End
  BY SameStarts
<1> HIDE DEF r
<1>8. Frame!FramesAsSent'
  <2>1. at' = Frame!StartOf(Len(returned) + 1)'
    BY <1>3, SameStarts DEF r
  <2> QED
    BY <1>1, <1>4, <2>1 DEF Frame!FramesAsSent
<1>9. Frame!InHand'
  <2>1. Len(returned') <= Len(sent')
    BY <1>2, <1>3 DEF r
  <2> QED
    BY <1>1, <1>7, <2>1 DEF Frame!InHand
<1> QED
  BY <1>6, <1>8, <1>9 DEF Frame!IInv

(* In between, the reader has a frame of the stream in hand.               *)
LEMMA GoesOn ==
  ASSUME Frame!FrameAssumption, Frame!IInv, sent' = sent, returned' = returned,
         Len(returned) < Len(sent), frame' = sent[Len(returned) + 1],
         cuts' \in Nat, at' \in Nat, at' <= Frame!End, total_read' \in Nat,
         stage' \in {"length", "mask", "payload"}, Frame!Place(frame)'
  PROVE  Frame!IInv'
<1>1. sent[Len(returned) + 1] \in Frame!FrameOf
  BY NextFrame
<1>2. frame' \in Frame!Payloads
  BY <1>1, FramesHaveBytes DEF Frame!FrameOf, Frame!Payloads
<1>3. Frame!TypeOK'
  BY <1>2 DEF Frame!IInv, Frame!TypeOK
<1>4. Frame!FramesAsSent'
  BY DEF Frame!IInv, Frame!FramesAsSent
<1>5. Frame!End' = Frame!End
  BY SameStarts
<1>6. Frame!InHand'
  BY <1>5 DEF Frame!IInv, Frame!InHand
<1> QED
  BY <1>3, <1>4, <1>6 DEF Frame!IInv

(* Behind the length and the mask key: the payload, if there is one.       *)
LEMMA AfterMaskStep ==
  ASSUME Frame!FrameAssumption, Frame!IInv, sent' = sent, Len(returned) < Len(sent),
         Frame!AfterMask(sent[Len(returned) + 1]), total_read = 0,
         cuts' \in Nat, at' \in Nat, at' <= Frame!End,
         at' = Frame!StartOf(Len(returned) + 1) + 2
                 + Frame!ExtBytes(Frame!LengthBits(sent[Len(returned) + 1].payload_length))
                 + Frame!MaskBytes(sent[Len(returned) + 1].masked)
  PROVE  Frame!IInv'
<1> DEFINE r == Len(returned)  s == sent[r + 1]  start == Frame!StartOf(r + 1)
           ext == Frame!ExtBytes(Frame!LengthBits(s.payload_length))
           mask == Frame!MaskBytes(s.masked)
<1>1. /\ s \in Frame!FrameOf /\ start \in Nat
      /\ Frame!StartOf(r + 1 + 1) = start + Frame!FrameBytes(s)
  BY NextFrame
<1>2. /\ s.payload_length \in Nat /\ ext \in {0, 2, 8} /\ mask \in {0, 4}
      /\ Frame!FrameBytes(s) = 2 + ext + mask + s.payload_length
  BY <1>1, FramesHaveBytes, LengthsAreRead
<1> HIDE DEF s, ext, mask, start, r
<1>3. at' = start + 2 + ext + mask
  BY DEF s, ext, mask, start, r
<1>4. CASE s.payload_length > 0
  <2>1. stage' = "payload" /\ frame' = s /\ UNCHANGED <<total_read, returned>>
    BY <1>4 DEF Frame!AfterMask, s, r
  <2>2. Frame!Place(frame)'
    <3>1. /\ stage' = "payload" /\ total_read' = 0 /\ 0 < frame'.payload_length
          /\ at' = Frame!StartOf(Len(returned) + 1)'
                     + 2 + Frame!ExtBytes(Frame!LengthBits(frame'.payload_length))
                     + Frame!MaskBytes(frame'.masked) + total_read'
      BY <1>1, <1>2, <1>3, <1>4, <2>1, SameStarts, SMTT(30) DEF start, r, ext, mask
    <3> QED
      BY <3>1 DEF Frame!Place
  <2> QED
    BY <2>1, <2>2, GoesOn DEF s, r
<1>5. CASE s.payload_length = 0
  <2>1. Frame!Return(s)
    BY <1>5 DEF Frame!AfterMask, s, r
  <2>2. at' = Frame!StartOf(r + 1 + 1)
    BY <1>1, <1>2, <1>3, <1>5
  <2> QED
    BY <2>1, <2>2, Returns DEF s, r
<1> QED
  BY <1>2, <1>4, <1>5

(* Behind the length: the mask key, if there is one, or what follows it.   *)
LEMMA AfterLengthStep ==
  ASSUME Frame!FrameAssumption, Frame!IInv, sent' = sent, Len(returned) < Len(sent),
         Frame!AfterLength(sent[Len(returned) + 1]), total_read = 0,
         cuts' \in Nat, at' \in Nat, at' <= Frame!End,
         at' = Frame!StartOf(Len(returned) + 1) + 2
                 + Frame!ExtBytes(Frame!LengthBits(sent[Len(returned) + 1].payload_length))
  PROVE  Frame!IInv'
<1> DEFINE r == Len(returned)  s == sent[r + 1]  start == Frame!StartOf(r + 1)
           ext == Frame!ExtBytes(Frame!LengthBits(s.payload_length))
<1>1. s \in Frame!FrameOf /\ start \in Nat
  BY NextFrame
<1>2. /\ s.masked \in BOOLEAN /\ ext \in {0, 2, 8}
      /\ Frame!MaskBytes(s.masked) = IF s.masked THEN 4 ELSE 0
  BY <1>1, FramesHaveBytes, LengthsAreRead
<1> HIDE DEF s, ext, start, r
<1>3. at' = start + 2 + ext
  BY DEF s, ext, start, r
<1>4. CASE s.masked
  <2>1. stage' = "mask" /\ frame' = s /\ UNCHANGED <<total_read, returned>>
    BY <1>4 DEF Frame!AfterLength, s, r
  <2>2. Frame!Place(frame)'
    <3>1. /\ stage' = "mask" /\ total_read' = 0 /\ frame'.masked
          /\ at' = Frame!StartOf(Len(returned) + 1)'
                     + 2 + Frame!ExtBytes(Frame!LengthBits(frame'.payload_length))
      BY <1>3, <1>4, <2>1, SameStarts, SMTT(30) DEF start, r, ext
    <3> QED
      BY <3>1 DEF Frame!Place
  <2> QED
    BY <2>1, <2>2, GoesOn DEF s, r
<1>5. CASE ~s.masked
  <2>1. Frame!AfterMask(s)
    BY <1>5 DEF Frame!AfterLength, s, r
  <2>2. at' = start + 2 + ext + Frame!MaskBytes(s.masked)
    BY <1>1, <1>2, <1>3, <1>5
  <2> QED
    BY <2>1, <2>2, AfterMaskStep DEF s, r, ext, start
<1> QED
  BY <1>4, <1>5

(* The header: the frame whose header it is is the next one.               *)
LEMMA HeaderStep ==
  ASSUME Frame!FrameAssumption, Frame!IInv, Frame!ReadHeader
  PROVE  Frame!IInv'
<1> DEFINE r == Len(returned)  s == sent[r + 1]  start == Frame!StartOf(r + 1)
           ext == Frame!ExtBytes(Frame!LengthBits(s.payload_length))
<1>1. PICK n \in Frame!AsyncRead(2), f \in Frame!FramesAt(at) :
        /\ Frame!Take(n, 2)
        /\ IF n # 2
             THEN Frame!Nullopt
             ELSE IF Frame!ExtBytes(Frame!LengthBits(f.payload_length)) > 0
                    THEN stage' = "length" /\ frame' = f /\ UNCHANGED <<total_read, returned>>
                    ELSE Frame!AfterLength(f)
  BY DEF Frame!ReadHeader
<1>2. /\ sent' = sent /\ stage = "header" /\ total_read = 0 /\ at = start /\ Frame!TypeOK
  BY DEF Frame!ReadHeader, Frame!IInv, Frame!InHand, Frame!FramesAsSent
<1>3. /\ r \in Nat /\ Len(sent) \in Nat /\ r <= Len(sent) /\ Frame!End \in Nat /\ at \in Nat
      /\ at <= Frame!End /\ (r = Len(sent) => start = Frame!End)
      /\ r < Len(sent) => /\ s \in Frame!FrameOf /\ Frame!FramesAt(start) = {s}
                          /\ Frame!StartOf(r + 1 + 1) = start + Frame!FrameBytes(s)
  BY NextFrame
<1>4. /\ n \in 0 .. 2 /\ at' = at + n /\ at' \in Nat /\ at + n <= Frame!End /\ cuts' \in Nat
      /\ n # 2 => at + n = Frame!End \/ cuts' > 0
  BY <1>1, <1>2, <1>3, ReadsOrCuts
<1>5. CASE n # 2
  BY <1>1, <1>2, <1>4, <1>5, GivesUp
<1>6. CASE n = 2
  <2>1. r < Len(sent) /\ f = s
    <3>1. r # Len(sent)
      BY <1>2, <1>3, <1>4, <1>6
    <3>2. r < Len(sent)
      BY <1>3, <3>1
    <3> QED
      BY <3>2, <1>1, <1>2, <1>3
  <2>2. /\ s.masked \in BOOLEAN /\ s.payload_length \in Nat /\ ext \in {0, 2, 8}
        /\ Frame!MaskBytes(s.masked) = IF s.masked THEN 4 ELSE 0
        /\ Frame!FrameBytes(s) = 2 + ext + Frame!MaskBytes(s.masked) + s.payload_length
    BY <1>3, <2>1, FramesHaveBytes, LengthsAreRead
  <2>3. at' = start + 2 /\ at' <= Frame!End /\ at' \in Nat /\ total_read = 0
    BY <1>2, <1>4, <1>6
  <2> HIDE DEF s, ext, r, start
  <2>4. CASE ext > 0
    <3>1. stage' = "length" /\ frame' = s /\ UNCHANGED <<total_read, returned>>
      BY <1>1, <1>6, <2>1, <2>4 DEF ext
    <3>2. Frame!Place(frame)'
      <4>1. /\ stage' = "length" /\ total_read' = 0 /\ at' = Frame!StartOf(Len(returned) + 1)' + 2
            /\ Frame!ExtBytes(Frame!LengthBits(frame'.payload_length)) > 0
        BY <3>1, <1>2, <1>3, <2>3, <2>4, SameStarts, SMTT(30) DEF start, r, ext
      <4> QED
        BY <4>1 DEF Frame!Place
    <3> QED
      BY <3>1, <3>2, <1>2, <1>4, <2>1, <2>3, GoesOn DEF s, r
  <2>5. CASE ext = 0
    <3>1. Frame!AfterLength(s)
      BY <1>1, <1>6, <2>1, <2>5 DEF ext
    <3> QED
      BY <3>1, <2>1, <2>2, <2>3, <2>5, <1>2, <1>3, <1>4, AfterLengthStep DEF s, ext, r, start
  <2> QED
    BY <2>2, <2>4, <2>5
<1> QED
  BY <1>4, <1>5, <1>6

(* The length: what is read of it is the length that was sent.             *)
LEMMA LengthStep ==
  ASSUME Frame!FrameAssumption, Frame!IInv, Frame!ReadLength
  PROVE  Frame!IInv'
<1> DEFINE r == Len(returned)  s == sent[r + 1]  start == Frame!StartOf(r + 1)
           ext == Frame!ExtBytes(Frame!LengthBits(s.payload_length))
<1>1. /\ sent' = sent /\ stage = "length" /\ Frame!TypeOK
      /\ r < Len(sent) /\ frame = s /\ Frame!Place(frame)
  BY DEF Frame!ReadLength, Frame!IInv, Frame!InHand
<1>2. ext > 0 /\ total_read = 0 /\ at = start + 2
  BY <1>1 DEF Frame!Place
<1>3. PICK n \in Frame!AsyncRead(ext) :
        /\ Frame!Take(n, ext)
        /\ IF n # ext
             THEN Frame!Nullopt
             ELSE Frame!AfterLength([frame EXCEPT !.payload_length = Frame!ExtLength(@)])
  BY <1>1 DEF Frame!ReadLength
<1>4. s \in Frame!FrameOf /\ Frame!End \in Nat /\ at <= Frame!End /\ start \in Nat
  BY <1>1, NextFrame
<1>5. ext \in Nat \ {0} /\ Frame!ExtLength(s.payload_length) = s.payload_length
  <2>1. s.payload_length \in Lengths
    BY <1>4, FramesHaveBytes
  <2> QED
    BY <2>1, <1>2, LengthsAreRead
<1>6. /\ n \in 0 .. ext /\ at' = at + n /\ at' \in Nat /\ at + n <= Frame!End /\ cuts' \in Nat
      /\ n # ext => at + n = Frame!End \/ cuts' > 0
  <2> HIDE DEF ext
  <2> QED
    BY <1>1, <1>3, <1>4, <1>5, ReadsOrCuts
<1>7. CASE n # ext
  BY <1>1, <1>3, <1>6, <1>7, GivesUp
<1>8. CASE n = ext
  <2>1. [s EXCEPT !.payload_length = Frame!ExtLength(@)] = s
    BY <1>4, <1>5 DEF Frame!FrameOf
  <2>2. Frame!AfterLength(s)
    BY <1>1, <1>3, <1>8, <2>1
  <2>3. at' = start + 2 + ext /\ at' <= Frame!End
    BY <1>2, <1>4, <1>6, <1>8
  <2> QED
    BY <1>1, <1>2, <1>6, <2>2, <2>3, AfterLengthStep
<1> QED
  BY <1>7, <1>8

(* The mask key.                                                           *)
LEMMA MaskStep ==
  ASSUME Frame!FrameAssumption, Frame!IInv, Frame!ReadMask
  PROVE  Frame!IInv'
<1> DEFINE r == Len(returned)  s == sent[r + 1]  start == Frame!StartOf(r + 1)
           ext == Frame!ExtBytes(Frame!LengthBits(s.payload_length))
<1>1. /\ sent' = sent /\ stage = "mask" /\ Frame!TypeOK
      /\ r < Len(sent) /\ frame = s /\ Frame!Place(frame)
  BY DEF Frame!ReadMask, Frame!IInv, Frame!InHand
<1>2. s.masked /\ total_read = 0 /\ at = start + 2 + ext
  BY <1>1 DEF Frame!Place
<1>3. PICK n \in Frame!AsyncRead(4) :
        Frame!Take(n, 4) /\ IF n # 4 THEN Frame!Nullopt ELSE Frame!AfterMask(frame)
  BY DEF Frame!ReadMask
<1>4. Frame!End \in Nat /\ at \in Nat /\ at <= Frame!End
  BY NextFrame
<1>5. /\ n \in 0 .. 4 /\ at' = at + n /\ at' \in Nat /\ at + n <= Frame!End /\ cuts' \in Nat
      /\ n # 4 => at + n = Frame!End \/ cuts' > 0
  BY <1>1, <1>3, <1>4, ReadsOrCuts
<1>6. CASE n # 4
  BY <1>1, <1>3, <1>5, <1>6, GivesUp
<1>7. CASE n = 4
  <2>1. Frame!MaskBytes(s.masked) = 4
    BY <1>2 DEF Frame!MaskBytes
  <2>2. at' = start + 2 + ext + Frame!MaskBytes(s.masked) /\ at' <= Frame!End
    BY <1>2, <1>5, <1>7, <2>1
  <2>3. Frame!AfterMask(s)
    BY <1>1, <1>3, <1>7
  <2> QED
    BY <1>1, <1>2, <1>5, <2>2, <2>3, AfterMaskStep
<1> QED
  BY <1>6, <1>7

(* The payload, in as many reads as it takes.                              *)
LEMMA PayloadStep ==
  ASSUME Frame!FrameAssumption, Frame!IInv, Frame!ReadPayload
  PROVE  Frame!IInv'
<1> DEFINE r == Len(returned)  s == sent[r + 1]  start == Frame!StartOf(r + 1)
           ext == Frame!ExtBytes(Frame!LengthBits(s.payload_length))
           mask == Frame!MaskBytes(s.masked)  size == s.payload_length - total_read
<1>1. /\ sent' = sent /\ stage = "payload" /\ Frame!TypeOK /\ total_read \in Nat
      /\ r < Len(sent) /\ frame = s /\ Frame!Place(frame)
  BY DEF Frame!ReadPayload, Frame!IInv, Frame!InHand, Frame!TypeOK
<1>2. total_read < s.payload_length /\ at = start + 2 + ext + mask + total_read
  BY <1>1 DEF Frame!Place
<1>3. PICK n \in Frame!AsyncRead(size) :
        /\ Frame!Take(n, size)
        /\ IF n = 0 THEN Frame!Nullopt
           ELSE IF n = size THEN Frame!Return(frame)
           ELSE total_read' = total_read + n /\ UNCHANGED <<stage, frame, returned>>
  BY <1>1 DEF Frame!ReadPayload
<1>4. /\ Frame!End \in Nat /\ at \in Nat /\ at <= Frame!End /\ start \in Nat
      /\ s \in Frame!FrameOf /\ Frame!StartOf(r + 1 + 1) = start + Frame!FrameBytes(s)
  BY <1>1, NextFrame
<1>5. /\ s.payload_length \in Nat /\ ext \in {0, 2, 8} /\ mask \in {0, 4}
      /\ Frame!FrameBytes(s) = 2 + ext + mask + s.payload_length
  BY <1>4, FramesHaveBytes, LengthsAreRead
<1> HIDE DEF s, ext, mask, start, r
<1>6. size \in Nat \ {0}
  BY <1>1, <1>2, <1>5
<1>7. /\ n \in 0 .. size /\ at' = at + n /\ at' \in Nat /\ at + n <= Frame!End /\ cuts' \in Nat
      /\ n # size => at + n = Frame!End \/ cuts' > 0
  <2> HIDE DEF size
  <2> QED
    BY <1>1, <1>3, <1>4, <1>6, ReadsOrCuts
<1>8. CASE n = 0
  BY <1>1, <1>3, <1>6, <1>7, <1>8, GivesUp
<1>9. CASE n # 0 /\ n = size
  <2>1. Frame!Return(s)
    BY <1>1, <1>3, <1>9
  <2>2. at' = Frame!StartOf(r + 1 + 1)
    BY <1>1, <1>2, <1>4, <1>5, <1>7, <1>9
  <2> QED
    BY <1>1, <1>7, <2>1, <2>2, Returns DEF s, r
<1>10. CASE n # 0 /\ n # size
  <2>1. total_read' = total_read + n /\ UNCHANGED <<stage, frame, returned>>
    BY <1>3, <1>10
  <2>2. total_read' \in Nat /\ total_read' < s.payload_length
    BY <1>1, <1>2, <1>5, <1>6, <1>7, <1>10, <2>1
  <2>3. at' = start + 2 + ext + mask + total_read'
    BY <1>1, <1>2, <1>4, <1>5, <1>6, <1>7, <2>1
  <2>4. Frame!Place(frame)'
    <3>1. /\ stage' = "payload" /\ total_read' < frame'.payload_length
          /\ at' = Frame!StartOf(Len(returned) + 1)'
                     + 2 + Frame!ExtBytes(Frame!LengthBits(frame'.payload_length))
                     + Frame!MaskBytes(frame'.masked) + total_read'
      BY <1>1, <2>1, <2>2, <2>3, SameStarts, SMTT(30) DEF start, r, ext, mask
    <3> QED
      BY <3>1 DEF Frame!Place
  <2> QED
    BY <1>1, <1>7, <2>1, <2>2, <2>4, GoesOn DEF s, r
<1> QED
  BY <1>8, <1>9, <1>10

(* In the beginning the reader is at the start of the first frame.         *)
LEMMA FrameInit ==
  ASSUME Frame!FrameAssumption, Frame!Init
  PROVE  Frame!IInv
<1>1. PICK n \in 1 .. MaxFrames : sent \in [1 .. n -> Frame!FrameOf]
  BY DEF Frame!Init
<1>2. /\ at = 0 /\ stage = "header" /\ frame = Frame!NoFrame /\ total_read = 0
      /\ returned = <<>> /\ cuts = 0
  BY DEF Frame!Init
<1>3. sent \in Seq(Frame!FrameOf) /\ Len(sent) = n /\ n \in Nat
  BY <1>1 DEF Frame!FrameAssumption
<1>4. Frame!NoFrame \in Frame!Payloads
  BY DEF Frame!NoFrame, Frame!Payloads
<1>5. Frame!TypeOK
  BY <1>2, <1>3, <1>4 DEF Frame!TypeOK
<1>6. Len(returned) = 0 /\ returned = SubSeq(sent, 1, Len(returned))
  BY <1>2, <1>3
<1>7. Frame!StartOf(1) = 0 /\ Frame!End \in Nat
  <2>1. Frame!StartOf(n + 1) \in Nat
    BY <1>3, <1>5, StartsGrow
  <2> QED
    BY <1>3, <1>5, <2>1, StartsAreSums DEF Frame!End
<1>8. Frame!FramesAsSent
  BY <1>2, <1>6, <1>7 DEF Frame!FramesAsSent
<1>9. Frame!InHand
  BY <1>2, <1>3, <1>6, <1>7 DEF Frame!InHand
<1> QED
  BY <1>5, <1>8, <1>9 DEF Frame!IInv

(* Every read, whatever it gets.                                           *)
LEMMA FrameStep ==
  ASSUME Frame!FrameAssumption, Frame!IInv, [Frame!Next]_(Frame!vars)
  PROVE  Frame!IInv'
<1>1. CASE UNCHANGED Frame!vars
  <2>1. Frame!TypeOK'
    BY <1>1 DEF Frame!vars, Frame!IInv, Frame!TypeOK
  <2>2. Frame!End' = Frame!End /\ Frame!StartOf(Len(returned) + 1)' = Frame!StartOf(Len(returned) + 1)
    BY <1>1, SameStarts DEF Frame!vars
  <2>3. Frame!FramesAsSent'
    BY <1>1, <2>2 DEF Frame!vars, Frame!IInv, Frame!FramesAsSent
  <2>4. Frame!InHand'
    BY <1>1, <2>2 DEF Frame!vars, Frame!IInv, Frame!InHand, Frame!Place
  <2> QED
    BY <2>1, <2>3, <2>4 DEF Frame!IInv
<1> QED
  BY <1>1, HeaderStep, LengthStep, MaskStep, PayloadStep DEF Frame!Next

-----------------------------------------------------------------------------
(* Lines that are not parted by the n-th are parted by the next one only if*)
(* a group begins with it.                                                 *)
LEMMA PartedNext ==
  ASSUME NEW file, NEW n \in Nat, NEW i \in Nat, i <= n
  PROVE  /\ Robot!Parted(file, i, n + 1) <=> Robot!Parted(file, i, n) \/ Robot!Begins(file, n + 1)
         /\ ~Robot!Parted(file, n + 1, n + 1) /\ ~Robot!Parted(file, n + 1, i)
<1>1. i + 1 .. n + 1 = (i + 1 .. n) \cup {n + 1} /\ (n + 1) + 1 .. n + 1 = {} /\ (n + 1) + 1 .. i = {}
  OBVIOUS
<1> QED
  BY <1>1 DEF Robot!Parted

(* A line of the last group is in a group with those of the last group.    *)
LEMMA LastGroup ==
  ASSUME NEW file, NEW n \in Nat, NEW i \in 1 .. n, NEW j \in 1 .. n, ~Robot!Parted(file, i, n)
  PROVE  Robot!SameGroup(file, i, j) <=> ~Robot!Parted(file, j, n)
<1>1. ASSUME ~Robot!Parted(file, j, n)
      PROVE  Robot!SameGroup(file, i, j)
  <2>1. i + 1 .. j \subseteq i + 1 .. n /\ j + 1 .. i \subseteq j + 1 .. n
    OBVIOUS
  <2> QED
    BY <1>1, <2>1 DEF Robot!Parted, Robot!SameGroup
<1>2. ASSUME Robot!SameGroup(file, i, j)
      PROVE  ~Robot!Parted(file, j, n)
  <2>1. j + 1 .. n \subseteq (j + 1 .. i) \cup (i + 1 .. n)
    OBVIOUS
  <2> QED
    BY <1>2, <2>1 DEF Robot!Parted, Robot!SameGroup
<1> QED
  BY <1>1, <1>2

(* The lines of n lines that the parser has put aside, and those it has in *)
(* hand.                                                                   *)
Ours(file, n, i) ==
  \E j \in 1 .. n : /\ Robot!IsAgent(file[j]) /\ Robot!ForUs(file[j].value)
                    /\ Robot!SameGroup(file, i, j)
Agents(file, n) == {j \in 1 .. n : Robot!IsAgent(file[j]) /\ ~Robot!Parted(file, j, n)}
Collected(file, n) == {i \in 1 .. n : Robot!IsRule(file[i]) /\ ~Robot!Parted(file, i, n)}
PutAside(file, n) ==
  {i \in 1 .. n : Robot!IsRule(file[i]) /\ Robot!Parted(file, i, n) /\ Ours(file, n, i)}

ParsedTo(file, n, p) ==
  /\ p = [agents |-> {file[j].value : j \in Agents(file, n)},
          cur |-> {file[i] : i \in Collected(file, n)},
          effective |-> {file[i] : i \in PutAside(file, n)}]
  /\ p.agents # {} <=> \E j \in 1 .. n : Robot!IsAgent(file[j])
  /\ p.cur # {} =>
       \E r \in 1 .. n : Robot!IsRule(file[r]) /\ \A k \in r + 1 .. n : ~Robot!IsAgent(file[k])

(* So a flush adds the rules in hand if their group names us.              *)
LEMMA FlushedTo ==
  ASSUME NEW file, NEW n \in Nat, NEW p, ParsedTo(file, n, p)
  PROVE  Robot!FlushGroup(p) =
           [agents |-> {}, cur |-> {},
            effective |-> {file[i] : i \in {x \in 1 .. n : Robot!IsRule(file[x]) /\ Ours(file, n, x)}}]
<1>1. /\ p.agents = {file[j].value : j \in Agents(file, n)}
      /\ p.cur = {file[i] : i \in Collected(file, n)}
      /\ p.effective = {file[i] : i \in PutAside(file, n)}
  BY DEF ParsedTo
<1>2. ASSUME NEW i \in Collected(file, n)
      PROVE  Ours(file, n, i) <=> \E agent \in p.agents : Robot!ForUs(agent)
  <2>1. i \in 1 .. n /\ ~Robot!Parted(file, i, n)
    BY DEF Collected
  <2>2. \A j \in 1 .. n : Robot!SameGroup(file, i, j) <=> ~Robot!Parted(file, j, n)
    BY <2>1, LastGroup
  <2>3. Ours(file, n, i) <=> \E j \in Agents(file, n) : Robot!ForUs(file[j].value)
    BY <2>2 DEF Ours, Agents
  <2> QED
    BY <1>1, <2>3
<1> DEFINE all == {x \in 1 .. n : Robot!IsRule(file[x]) /\ Ours(file, n, x)}
           named == \E agent \in p.agents : Robot!ForUs(agent)
<1>3. all = PutAside(file, n) \cup (IF named THEN Collected(file, n) ELSE {})
  BY <1>2 DEF PutAside, Collected
<1>4. (IF named THEN p.effective \cup p.cur ELSE p.effective) = {file[i] : i \in all}
  <2> HIDE DEF all
  <2>1. CASE named
    BY <1>1, <1>3, <2>1
  <2>2. CASE ~named
    BY <1>1, <1>3, <2>2
  <2> QED
    BY <2>1, <2>2
<1>5. Robot!FlushGroup(p) =
        [agents |-> {}, cur |-> {}, effective |-> IF named THEN p.effective \cup p.cur ELSE p.effective]
  BY DEF Robot!FlushGroup, Robot!Fresh
<1> QED
  BY <1>4, <1>5

(* One more line.                                                          *)
LEMMA LineStep ==
  ASSUME Robot!RobotsAssumption, NEW file \in Files, NEW n \in Nat, n + 1 <= Len(file),
         NEW p, ParsedTo(file, n, p)
  PROVE  ParsedTo(file, n + 1, Robot!ParseLine(p, file[n + 1]))
<1> DEFINE line == file[n + 1]  m == n + 1  q == Robot!ParseLine(p, line)
<1>1. /\ p.agents = {file[j].value : j \in Agents(file, n)}
      /\ p.cur = {file[i] : i \in Collected(file, n)}
      /\ p.effective = {file[i] : i \in PutAside(file, n)}
      /\ p = [agents |-> p.agents, cur |-> p.cur, effective |-> p.effective]
      /\ p.agents # {} <=> \E j \in 1 .. n : Robot!IsAgent(file[j])
      /\ p.cur # {} =>
           \E r \in 1 .. n : Robot!IsRule(file[r]) /\ \A k \in r + 1 .. n : ~Robot!IsAgent(file[k])
  BY DEF ParsedTo
<1>2. 1 .. m = (1 .. n) \cup {m} /\ m \notin 1 .. n /\ m \in Nat /\ m + 1 .. m = {} /\ file[m] = line
  OBVIOUS
<1>3. \A i \in 1 .. n :
        /\ Robot!Parted(file, i, m) <=> Robot!Parted(file, i, n) \/ Robot!Begins(file, m)
        /\ ~Robot!Parted(file, m, m) /\ ~Robot!Parted(file, m, i)
  BY PartedNext
<1>4. ~Robot!Parted(file, m, m)
  BY PartedNext
<1>5. ~(Robot!IsRule(line) /\ Robot!IsAgent(line))
  BY DEF Robot!IsRule, Robot!IsAgent
<1>6. \A i \in 1 .. n : Robot!IsRule(file[i]) => \E j \in 1 .. i - 1 : Robot!IsAgent(file[j])
  <2>1. Len(file) \in Nat
    BY DEF Robot!RobotsAssumption
  <2>2. 1 .. n \subseteq 1 .. Len(file)
    BY <2>1
  <2> QED
    BY <2>2 DEF Robot!RobotsAssumption
<1>7. p.cur # {} => p.agents # {}
  <2>1. \A i \in 1 .. n : 1 .. i - 1 \subseteq 1 .. n
    OBVIOUS
  <2> QED
    BY <1>1, <1>6, <2>1 DEF Collected
<1>8. Robot!Begins(file, m) <=> Robot!IsAgent(line) /\ p.cur # {}
  <2>1. Robot!Begins(file, m) <=>
          /\ Robot!IsAgent(line)
          /\ \E r \in 1 .. n : Robot!IsRule(file[r]) /\ \A k \in r + 1 .. n : ~Robot!IsAgent(file[k])
    <3>1. m - 1 = n
      OBVIOUS
    <3> QED
      BY <3>1 DEF Robot!Begins
  <2>2. ASSUME NEW r \in 1 .. n, Robot!IsRule(file[r]), \A k \in r + 1 .. n : ~Robot!IsAgent(file[k])
        PROVE  p.cur # {}
    <3>1. ~Robot!Parted(file, r, n)
      BY <2>2 DEF Robot!Parted, Robot!Begins
    <3>2. r \in Collected(file, n)
      BY <2>2, <3>1 DEF Collected
    <3>3. file[r] \in {file[i] : i \in Collected(file, n)}
      BY <3>2
    <3> QED
      BY <1>1, <3>3
  <2> QED
    BY <1>1, <2>1, <2>2
<1>9. \A i \in 1 .. n : Robot!Parted(file, i, n) => (Ours(file, m, i) <=> Ours(file, n, i))
  BY <1>2, <1>3 DEF Ours, Robot!SameGroup
<1> HIDE DEF line, m, q
<1>10. CASE Robot!IsAgent(line) /\ p.cur # {}
  <2>1. q = [agents |-> {line.value}, cur |-> {},
             effective |-> {file[i] : i \in {x \in 1 .. n : Robot!IsRule(file[x]) /\ Ours(file, n, x)}}]
    <3> DEFINE flushed == {file[i] : i \in {x \in 1 .. n : Robot!IsRule(file[x]) /\ Ours(file, n, x)}}
    <3>1. Robot!FlushGroup(p) = [agents |-> {}, cur |-> {}, effective |-> flushed]
      BY FlushedTo
    <3>2. q = [Robot!FlushGroup(p) EXCEPT !.agents = @ \cup {line.value}]
      BY <1>7, <1>10 DEF q, Robot!ParseLine
    <3> HIDE DEF flushed
    <3> DEFINE f == Robot!FlushGroup(p)
    <3>3. f = [agents |-> f.agents, cur |-> f.cur, effective |-> f.effective]
      BY <3>1
    <3>4. f.agents = {} /\ f.cur = {} /\ f.effective = flushed
      BY <3>1
    <3> HIDE DEF f
    <3>5. q = [agents |-> f.agents \cup {line.value}, cur |-> f.cur, effective |-> f.effective]
      BY <3>2, <3>3 DEF f
    <3>6. f.agents \cup {line.value} = {line.value}
      BY <3>4
    <3> QED
      BY <3>4, <3>5, <3>6 DEF flushed
  <2>2. \A i \in 1 .. n : Robot!Parted(file, i, m)
    BY <1>3, <1>8, <1>10
  <2>3. Agents(file, m) = {m} /\ Collected(file, m) = {}
    BY <1>2, <1>4, <1>5, <1>10, <2>2 DEF Agents, Collected
  <2>4. \A i \in 1 .. n : Ours(file, m, i) <=> Ours(file, n, i)
    BY <1>2, <2>2 DEF Ours, Robot!SameGroup
  <2>5. PutAside(file, m) = {x \in 1 .. n : Robot!IsRule(file[x]) /\ Ours(file, n, x)}
    BY <1>2, <1>4, <2>2, <2>4 DEF PutAside
  <2>6. {file[j].value : j \in Agents(file, m)} = {line.value} /\ {file[i] : i \in Collected(file, m)} = {}
    BY <1>2, <2>3
  <2>7. q.agents # {} <=> \E j \in 1 .. m : Robot!IsAgent(file[j])
    BY <1>2, <1>10, <2>1
  <2>8. q = [agents |-> {file[j].value : j \in Agents(file, m)},
             cur |-> {file[i] : i \in Collected(file, m)},
             effective |-> {file[i] : i \in PutAside(file, m)}]
    BY <2>1, <2>5, <2>6
  <2>9. q.cur = {}
    BY <2>1
  <2> QED
    BY <2>7, <2>8, <2>9 DEF ParsedTo, q, m, line
<1>11. CASE Robot!IsAgent(line) /\ p.cur = {}
  <2>1. q = [agents |-> p.agents \cup {line.value}, cur |-> {}, effective |-> p.effective]
    BY <1>1, <1>11 DEF q, Robot!ParseLine
  <2>2. \A i \in 1 .. n : Robot!Parted(file, i, m) <=> Robot!Parted(file, i, n)
    BY <1>3, <1>8, <1>11
  <2>3. Agents(file, m) = Agents(file, n) \cup {m} /\ Collected(file, m) = Collected(file, n)
    BY <1>2, <1>4, <1>5, <1>11, <2>2 DEF Agents, Collected
  <2>4. PutAside(file, m) = PutAside(file, n)
    BY <1>2, <1>4, <1>9, <2>2 DEF PutAside
  <2>5. {file[j].value : j \in Agents(file, m)} = p.agents \cup {line.value}
    BY <1>2, <1>1, <2>3
  <2>6. {file[i] : i \in Collected(file, m)} = {}
    BY <1>1, <1>11, <2>3
  <2>7. q = [agents |-> {file[j].value : j \in Agents(file, m)},
             cur |-> {file[i] : i \in Collected(file, m)},
             effective |-> {file[i] : i \in PutAside(file, m)}]
    BY <1>1, <2>1, <2>4, <2>5, <2>6
  <2>8. q.agents # {} /\ \E j \in 1 .. m : Robot!IsAgent(file[j])
    BY <1>2, <1>11, <2>1
  <2>9. q.cur = {}
    BY <2>1
  <2> QED
    BY <2>7, <2>8, <2>9 DEF ParsedTo, q, m, line
<1>12. CASE Robot!IsRule(line)
  <2>1. q = [agents |-> p.agents, cur |-> p.cur \cup {line}, effective |-> p.effective]
    BY <1>1, <1>5, <1>12 DEF q, Robot!ParseLine
  <2>2. \A i \in 1 .. n : Robot!Parted(file, i, m) <=> Robot!Parted(file, i, n)
    BY <1>3, <1>5, <1>8, <1>12
  <2>3. Agents(file, m) = Agents(file, n) /\ Collected(file, m) = Collected(file, n) \cup {m}
    BY <1>2, <1>4, <1>5, <1>12, <2>2 DEF Agents, Collected
  <2>4. PutAside(file, m) = PutAside(file, n)
    BY <1>2, <1>4, <1>9, <2>2 DEF PutAside
  <2>5. {file[i] : i \in Collected(file, m)} = p.cur \cup {line}
    BY <1>2, <1>1, <2>3
  <2>6. q = [agents |-> {file[j].value : j \in Agents(file, m)},
             cur |-> {file[i] : i \in Collected(file, m)},
             effective |-> {file[i] : i \in PutAside(file, m)}]
    BY <1>1, <2>1, <2>3, <2>4, <2>5
  <2>7. q.agents # {} <=> \E j \in 1 .. m : Robot!IsAgent(file[j])
    BY <1>1, <1>2, <1>5, <1>12, <2>1
  <2>8. m \in 1 .. m /\ Robot!IsRule(file[m]) /\ \A k \in m + 1 .. m : ~Robot!IsAgent(file[k])
    BY <1>2, <1>12
  <2> QED
    BY <2>6, <2>7, <2>8 DEF ParsedTo, q, m, line
<1>13. CASE ~Robot!IsAgent(line) /\ ~Robot!IsRule(line)
  <2>1. q = p
    BY <1>13 DEF q, Robot!ParseLine
  <2>2. \A i \in 1 .. n : Robot!Parted(file, i, m) <=> Robot!Parted(file, i, n)
    BY <1>3, <1>8, <1>13
  <2>3. Agents(file, m) = Agents(file, n) /\ Collected(file, m) = Collected(file, n)
    BY <1>2, <1>13, <2>2 DEF Agents, Collected
  <2>4. PutAside(file, m) = PutAside(file, n)
    BY <1>2, <1>4, <1>9, <2>2 DEF PutAside
  <2>5. (\E j \in 1 .. n : Robot!IsAgent(file[j])) <=> \E j \in 1 .. m : Robot!IsAgent(file[j])
    BY <1>2, <1>13
  <2>6. ASSUME NEW r \in 1 .. n, Robot!IsRule(file[r]), \A k \in r + 1 .. n : ~Robot!IsAgent(file[k])
        PROVE  r \in 1 .. m /\ \A k \in r + 1 .. m : ~Robot!IsAgent(file[k])
    <3>1. r + 1 .. m \subseteq (r + 1 .. n) \cup {m}
      BY DEF m
    <3> QED
      BY <1>2, <1>13, <2>6, <3>1
  <2>7. p = [agents |-> {file[j].value : j \in Agents(file, m)},
             cur |-> {file[i] : i \in Collected(file, m)},
             effective |-> {file[i] : i \in PutAside(file, m)}]
    BY <1>1, <2>3, <2>4
  <2>8. p.cur # {} =>
          \E r \in 1 .. m : Robot!IsRule(file[r]) /\ \A k \in r + 1 .. m : ~Robot!IsAgent(file[k])
    BY <1>1, <2>6
  <2> QED
    BY <1>1, <2>1, <2>5, <2>7, <2>8 DEF ParsedTo, q, m, line
<1> QED
  BY <1>10, <1>11, <1>12, <1>13 DEF q, m, line

(* The parser's states exist, and each is as said of its line: a first one *)
(* that did not, or was not, would follow one that does, and is.           *)
LEMMA FilesAreParsed ==
  ASSUME Robot!RobotsAssumption, NEW file \in Files
  PROVE  Robot!Parse(file) = Robot!OurRules(file)
<1> DEFINE L == Len(file)
           Runs(m, f) == f = [n \in 0 .. m |-> IF n = 0 THEN Robot!Fresh
                                               ELSE Robot!ParseLine(f[n - 1], file[n])]
           Bad == {m \in Nat : ~ \E f : Runs(m, f)}
<1>1. L \in Nat
  BY DEF Robot!RobotsAssumption
<1>2. Bad = {}
  <2> SUFFICES ASSUME Bad # {} PROVE FALSE
    OBVIOUS
  <2>1. PICK m \in Bad : \A n \in Bad : m <= n
    <3>1. Bad \in SUBSET Nat
      OBVIOUS
    <3> HIDE DEF Bad
    <3> QED
      BY <3>1, Least
  <2>2. m # 0
    <3>1. Runs(0, [n \in 0 .. 0 |-> Robot!Fresh])
      OBVIOUS
    <3> QED
      BY <3>1
  <2>3. PICK f : Runs(m - 1, f)
    <3>1. m \in Nat
      BY <2>1
    <3>2. m - 1 \in Nat /\ ~ (m <= m - 1)
      BY <2>2, <3>1
    <3>3. m - 1 \notin Bad
      BY <2>1, <3>2
    <3> QED
      BY <3>2, <3>3
  <2> DEFINE more == [n \in 0 .. m |-> IF n = m THEN Robot!ParseLine(f[m - 1], file[m]) ELSE f[n]]
  <2>4. Runs(m, more)
    <3>1. m \in Nat /\ m > 0
      BY <2>1, <2>2
    <3>2. more[m] = Robot!ParseLine(more[m - 1], file[m])
      BY <3>1
    <3>3. more[0] = Robot!Fresh
      BY <2>3, <3>1
    <3>4. \A n \in 1 .. m - 1 : more[n] = Robot!ParseLine(more[n - 1], file[n])
      BY <2>3, <3>1
    <3>5. more = [n \in 0 .. m |-> more[n]]
      OBVIOUS
    <3> HIDE DEF more
    <3>6. \A n \in 0 .. m :
            more[n] = IF n = 0 THEN Robot!Fresh ELSE Robot!ParseLine(more[n - 1], file[n])
      <4> TAKE n \in 0 .. m
      <4>1. n = 0 \/ n = m \/ n \in 1 .. m - 1
        BY <3>1
      <4> QED
        BY <3>2, <3>3, <3>4, <4>1, <3>1
    <3> QED
      BY <3>5, <3>6
  <2> QED
    BY <2>1, <2>4
<1>3. PICK f : Runs(L, f) /\ Robot!Parse(file) = Robot!FlushGroup(f[L]).effective
  <2>1. \E f : Runs(L, f)
    BY <1>1, <1>2
  <2> QED
    BY <2>1 DEF Robot!Parse
<1>4. f[0] = Robot!Fresh /\ \A n \in 1 .. L : f[n] = Robot!ParseLine(f[n - 1], file[n])
  BY <1>1, <1>3
<1> HIDE DEF L
<1> DEFINE Wrong == {n \in 0 .. L : ~ParsedTo(file, n, f[n])}
<1>5. Wrong = {}
  <2> SUFFICES ASSUME Wrong # {} PROVE FALSE
    OBVIOUS
  <2>1. PICK m \in Wrong : \A n \in Wrong : m <= n
    <3>1. Wrong \in SUBSET Nat
      BY <1>1
    <3> HIDE DEF Wrong
    <3> QED
      BY <3>1, Least
  <2>2. m # 0
    <3>1. ParsedTo(file, 0, Robot!Fresh)
      <4>1. 1 .. 0 = {}
        OBVIOUS
      <4>2. Agents(file, 0) = {} /\ Collected(file, 0) = {} /\ PutAside(file, 0) = {}
        BY <4>1 DEF Agents, Collected, PutAside
      <4>3. /\ {file[j].value : j \in Agents(file, 0)} = {} /\ {file[i] : i \in Collected(file, 0)} = {}
            /\ {file[i] : i \in PutAside(file, 0)} = {}
        BY <4>2
      <4> QED
        BY <4>1, <4>3 DEF ParsedTo, Robot!Fresh, Robot!NoRules
    <3> QED
      BY <1>4, <2>1, <3>1
  <2>3. m \in 1 .. L
    BY <1>1, <2>1, <2>2
  <2> DEFINE k == m - 1
  <2>4. k \in Nat /\ k \in 0 .. L /\ k + 1 = m /\ ~ (m <= k) /\ k + 1 <= L
    BY <1>1, <2>3
  <2>5. f[m] = Robot!ParseLine(f[k], file[m])
    BY <1>4, <2>3
  <2> HIDE DEF k
  <2>6. ParsedTo(file, k, f[k])
    BY <2>1, <2>4
  <2>7. ParsedTo(file, k + 1, Robot!ParseLine(f[k], file[k + 1]))
    BY <2>4, <2>6, LineStep DEF L
  <2>8. ParsedTo(file, m, f[m])
    BY <2>4, <2>5, <2>7
  <2> QED
    BY <2>1, <2>8
<1>6. ParsedTo(file, L, f[L])
  BY <1>1, <1>5
<1>7. Robot!FlushGroup(f[L]).effective =
        {file[i] : i \in {x \in 1 .. L : Robot!IsRule(file[x]) /\ Ours(file, L, x)}}
  BY <1>1, <1>6, FlushedTo
<1> QED
  BY <1>3, <1>7 DEF Ours, Robot!OurRules, L

(* What is told of a path is what the file says of it.                     *)
LEMMA VerdictsFollowFiles ==
  ASSUME Robot!RobotsAssumption, NEW file \in Files, NEW path \in Paths
  PROVE  Robot!Verdict(Robot!Parse(file), path) = Robot!AllowedBy(file, path)
<1> DEFINE ours == Robot!OurRules(file)
           matching == {r \in ours : r.value # <<>> /\ Robot!IsPrefix(r.value, path)}
<1>1. path \in Seq(STRING) /\ path # <<>> /\ path[1] = "/" /\ file \in Seq(Robot!Line)
  BY DEF Robot!RobotsAssumption
<1>2. \A r \in ours : r.value \in Seq(STRING)
  <2>1. \A i \in 1 .. Len(file) : file[i] \in Robot!Line
    BY <1>1
  <2> QED
    BY <2>1 DEF Robot!OurRules, Robot!Line
<1>3. Robot!IsPrefix(<<"/">>, path)
  <2>1. Len(<<"/">>) = 1 /\ Len(path) \in Nat /\ Len(path) >= 1
    BY <1>1
  <2>2. SubSeq(path, 1, 1) = <<"/">>
    <3>1. SubSeq(path, 1, 1) = [i \in 1 .. 1 |-> "/"]
      BY <1>1, <2>1
    <3>2. <<"/">> = [i \in 1 .. 1 |-> "/"]
      OBVIOUS
    <3> QED
      BY <3>1, <3>2
  <2>3. SubSeq(<<"/">>, 1, 1) = <<"/">>
    <3>1. SubSeq(<<"/">>, 1, 1) = [i \in 1 .. 1 |-> "/"]
      OBVIOUS
    <3>2. <<"/">> = [i \in 1 .. 1 |-> "/"]
      OBVIOUS
    <3> QED
      BY <3>1, <3>2
  <2> QED
    BY <2>1, <2>2, <2>3 DEF Robot!IsPrefix
<1>4. \A r \in ours : Robot!PathMatches(r, path) <=> r \in matching
  BY <1>3 DEF Robot!PathMatches
<1> HIDE DEF ours
<1>5. \A key : Robot!Matching(ours, key, path) = {r \in matching : r.key = key}
  BY <1>4 DEF Robot!Matching
<1> HIDE DEF matching
<1>6. \A r \in matching : Len(r.value) \in Nat
  BY <1>2 DEF matching
<1>7. Robot!Verdict(ours, path) <=>
        \A d \in matching : d.key = "disallow" =>
          \E a \in matching : a.key = "allow" /\ Len(a.value) > Len(d.value)
  <2>1. \A d, a \in matching : Len(d.value) >= Len(a.value) <=> ~(Len(a.value) > Len(d.value))
    BY <1>6
  <2>2. Robot!Verdict(ours, path) <=>
          ~ \E d \in matching : d.key = "disallow" /\
              \A a \in matching : a.key = "allow" => Len(d.value) >= Len(a.value)
    BY <1>5 DEF Robot!Verdict
  <2> QED
    BY <2>1, <2>2
<1>8. Robot!AllowedBy(file, path) <=>
        \A d \in matching : d.key = "disallow" =>
          \E a \in matching : a.key = "allow" /\ Len(a.value) > Len(d.value)
  BY DEF Robot!AllowedBy, matching, ours
<1>9. Robot!Verdict(ours, path) \in BOOLEAN /\ Robot!AllowedBy(file, path) \in BOOLEAN
  BY DEF Robot!Verdict, Robot!AllowedBy
<1> QED
  BY <1>7, <1>8, <1>9, FilesAreParsed DEF ours

(* Nobody has entered anything, and everything is allowed.                 *)
LEMMA RobotInit ==
  ASSUME Robot!Init
  PROVE  Robot!IInv
<1>1. rules = <<>> /\ DOMAIN rules = {} /\ rules = [h \in DOMAIN rules |-> rules[h]]
  BY DEF Robot!Init
<1>2. /\ call \in [Callers -> [host : Hosts, path : Paths, pc : {"new"}, allowed : {TRUE}]]
      /\ served = [h \in Hosts |-> {}]
  BY DEF Robot!Init
<1>3. Robot!TypeOK
  BY <1>1, <1>2 DEF Robot!TypeOK
<1>4. Robot!EntriesAreFiles
  BY <1>1, <1>2 DEF Robot!EntriesAreFiles
<1>5. Robot!EntriesStay
  BY <1>2 DEF Robot!EntriesStay
<1> QED
  BY <1>3, <1>4, <1>5 DEF Robot!IInv

(* An entry is made, or made anew; nobody's is lost.                       *)
LEMMA Enters ==
  ASSUME Robot!TypeOK, NEW host \in Hosts, NEW r, Robot!Enter(host, r)
  PROVE  /\ DOMAIN rules' = DOMAIN rules \cup {host} /\ rules'[host] = r
         /\ rules' = [h \in DOMAIN rules' |-> rules'[h]] /\ DOMAIN rules' \subseteq Hosts
         /\ \A h \in DOMAIN rules : h # host => rules'[h] = rules[h]
BY DEF Robot!Enter, Robot!TypeOK

(* Every step of every caller keeps entries and files together, and who is *)
(* told something is told what its host's entry says.                      *)
LEMMA RobotStep ==
  ASSUME Robot!IInv, [Robot!Next]_(Robot!vars)
  PROVE  Robot!IInv'
<1>1. /\ rules = [h \in DOMAIN rules |-> rules[h]] /\ DOMAIN rules \subseteq Hosts
      /\ call \in [Callers -> [host : Hosts, path : Paths,
                               pc : {"new", "fetching", "stored", "answered"}, allowed : BOOLEAN]]
      /\ served \in [Hosts -> SUBSET Files]
      /\ Robot!TypeOK /\ Robot!EntriesAreFiles /\ Robot!EntriesStay
  BY DEF Robot!IInv, Robot!TypeOK
<1>2. CASE UNCHANGED Robot!vars
  BY <1>1, <1>2 DEF Robot!vars, Robot!IInv, Robot!TypeOK, Robot!EntriesAreFiles, Robot!EntriesStay
<1>3. ASSUME NEW c \in Callers, NEW r, Robot!Answer(c, Robot!Verdict(r, call[c].path)),
             UNCHANGED <<rules, served>>
      PROVE  Robot!IInv'
  <2>1. /\ call' = [call EXCEPT ![c].pc = "answered", ![c].allowed = Robot!Verdict(r, call[c].path)]
        /\ Robot!Verdict(r, call[c].path) \in BOOLEAN
    BY <1>3 DEF Robot!Answer, Robot!Verdict
  <2>2. call' \in [Callers -> [host : Hosts, path : Paths,
                               pc : {"new", "fetching", "stored", "answered"}, allowed : BOOLEAN]]
    BY <1>1, <2>1, ZenonT(60)
  <2>3. Robot!TypeOK' /\ Robot!EntriesAreFiles'
    BY <1>1, <1>3, <2>2 DEF Robot!TypeOK, Robot!EntriesAreFiles
  <2>4. Robot!EntriesStay'
    BY <1>1, <1>3, <2>1 DEF Robot!EntriesStay
  <2> QED
    BY <2>3, <2>4 DEF Robot!IInv
<1>4. ASSUME NEW c \in Callers, Robot!FetchFile(c)
      PROVE  Robot!IInv'
  <2>1. call' = [call EXCEPT ![c].pc = "fetching"] /\ UNCHANGED <<rules, served>>
    BY <1>4 DEF Robot!FetchFile
  <2>2. call' \in [Callers -> [host : Hosts, path : Paths,
                               pc : {"new", "fetching", "stored", "answered"}, allowed : BOOLEAN]]
    BY <1>1, <2>1, ZenonT(60)
  <2>3. Robot!TypeOK' /\ Robot!EntriesAreFiles'
    BY <1>1, <2>1, <2>2 DEF Robot!TypeOK, Robot!EntriesAreFiles
  <2>4. Robot!EntriesStay'
    BY <1>1, <2>1 DEF Robot!EntriesStay
  <2> QED
    BY <2>3, <2>4 DEF Robot!IInv
<1>5. ASSUME NEW c \in Callers, call' = [call EXCEPT ![c].pc = "stored"],
             rules' = [h \in DOMAIN rules' |-> rules'[h]], DOMAIN rules' \subseteq Hosts,
             call[c].host \in DOMAIN rules', DOMAIN rules \subseteq DOMAIN rules',
             served' \in [Hosts -> SUBSET Files], Robot!EntriesAreFiles'
      PROVE  Robot!IInv'
  <2>1. call' \in [Callers -> [host : Hosts, path : Paths,
                               pc : {"new", "fetching", "stored", "answered"}, allowed : BOOLEAN]]
    BY <1>1, <1>5, ZenonT(60)
  <2>2. Robot!TypeOK'
    BY <1>5, <2>1 DEF Robot!TypeOK
  <2>3. Robot!EntriesStay'
    BY <1>1, <1>5 DEF Robot!EntriesStay
  <2> QED
    BY <1>5, <2>2, <2>3 DEF Robot!IInv
<1>6. ASSUME NEW c \in Callers, NEW file \in Files, Robot!StoreFile(c, file)
      PROVE  Robot!IInv'
  <2> DEFINE host == call[c].host
  <2>1. /\ Robot!Enter(host, Robot!Parse(file)) /\ call' = [call EXCEPT ![c].pc = "stored"]
        /\ served' = [served EXCEPT ![host] = @ \cup {file}]
    BY <1>6 DEF Robot!StoreFile
  <2>2. host \in Hosts
    BY <1>1
  <2> HIDE DEF host
  <2>3. /\ DOMAIN rules' = DOMAIN rules \cup {host} /\ rules'[host] = Robot!Parse(file)
        /\ rules' = [h \in DOMAIN rules' |-> rules'[h]] /\ DOMAIN rules' \subseteq Hosts
        /\ \A h \in DOMAIN rules : h # host => rules'[h] = rules[h]
    BY <1>1, <2>1, <2>2, Enters
  <2>4. /\ served' \in [Hosts -> SUBSET Files] /\ served'[host] = served[host] \cup {file}
        /\ \A h \in Hosts : h # host => served'[h] = served[h]
    BY <1>1, <2>1, <2>2
  <2>5. Robot!EntriesAreFiles'
    <3>1. ASSUME NEW h \in Hosts
          PROVE  IF served'[h] = {}
                   THEN h \in DOMAIN rules' => rules'[h] = Robot!NoRules
                   ELSE h \in DOMAIN rules' /\ \E f \in served'[h] : rules'[h] = Robot!Parse(f)
      <4>1. CASE h = host
        BY <2>3, <2>4, <4>1
      <4>2. CASE h # host
        <5>1. /\ served'[h] = served[h] /\ (h \in DOMAIN rules' <=> h \in DOMAIN rules)
              /\ h \in DOMAIN rules => rules'[h] = rules[h]
          BY <2>3, <2>4, <4>2
        <5>2. IF served[h] = {}
                THEN h \in DOMAIN rules => rules[h] = Robot!NoRules
                ELSE h \in DOMAIN rules /\ \E f \in served[h] : rules[h] = Robot!Parse(f)
          BY <1>1 DEF Robot!EntriesAreFiles
        <5> QED
          BY <5>1, <5>2
      <4> QED
        BY <4>1, <4>2
    <3> QED
      BY <3>1, Zenon DEF Robot!EntriesAreFiles
  <2> QED
    BY <1>5, <2>1, <2>3, <2>4, <2>5 DEF host
<1>7. ASSUME NEW c \in Callers, Robot!EmplaceNone(c)
      PROVE  Robot!IInv'
  <2> DEFINE host == call[c].host
  <2>1. /\ IF host \in DOMAIN rules THEN UNCHANGED rules ELSE Robot!Enter(host, Robot!NoRules)
        /\ call' = [call EXCEPT ![c].pc = "stored"] /\ UNCHANGED served
    BY <1>7 DEF Robot!EmplaceNone
  <2>2. host \in Hosts
    BY <1>1
  <2>3. CASE host \in DOMAIN rules
    <3>1. UNCHANGED rules /\ Robot!EntriesAreFiles'
      BY <1>1, <2>1, <2>3 DEF Robot!EntriesAreFiles
    <3> QED
      BY <1>1, <1>5, <2>1, <2>3, <3>1
  <2>4. CASE host \notin DOMAIN rules
    <3> HIDE DEF host
    <3>1. /\ DOMAIN rules' = DOMAIN rules \cup {host} /\ rules'[host] = Robot!NoRules
          /\ rules' = [h \in DOMAIN rules' |-> rules'[h]] /\ DOMAIN rules' \subseteq Hosts
          /\ \A h \in DOMAIN rules : h # host => rules'[h] = rules[h]
      BY <1>1, <2>1, <2>2, <2>4, Enters
    <3>2. served[host] = {}
      BY <1>1, <2>2, <2>4 DEF Robot!EntriesAreFiles
    <3>3. Robot!EntriesAreFiles'
      BY <1>1, <2>1, <3>1, <3>2 DEF Robot!EntriesAreFiles
    <3> QED
      BY <1>1, <1>5, <2>1, <3>1, <3>3 DEF host
  <2> QED
    BY <2>3, <2>4
<1>8. ASSUME NEW c \in Callers, Robot!AnswerCached(c) \/ Robot!AnswerFetched(c)
      PROVE  Robot!IInv'
  BY <1>3, <1>8 DEF Robot!AnswerCached, Robot!AnswerFetched
<1> QED
  BY <1>2, <1>4, <1>6, <1>7, <1>8 DEF Robot!Next

(* And who is told something is told what a file of the host says.         *)
LEMMA RobotAnswers ==
  ASSUME Robot!RobotsAssumption, Robot!IInv, [Robot!Next]_(Robot!vars)
  PROVE  Robot!AnswerFollowsFile
<1> SUFFICES ASSUME NEW c \in Callers, call[c].pc # "answered", call'[c].pc = "answered"
             PROVE  IF served[call[c].host] = {}
                      THEN call'[c].allowed
                      ELSE \E file \in served[call[c].host] :
                             call'[c].allowed = Robot!AllowedBy(file, call[c].path)
  BY DEF Robot!AnswerFollowsFile
<1> DEFINE host == call[c].host  path == call[c].path
<1>1. /\ call \in [Callers -> [host : Hosts, path : Paths,
                               pc : {"new", "fetching", "stored", "answered"}, allowed : BOOLEAN]]
      /\ served \in [Hosts -> SUBSET Files]
      /\ Robot!EntriesAreFiles /\ Robot!EntriesStay /\ host \in Hosts /\ path \in Paths
  BY DEF Robot!IInv, Robot!TypeOK
<1>2. host \in DOMAIN rules /\ Robot!Answer(c, Robot!Verdict(rules[host], path))
  <2>1. call' # call
    OBVIOUS
  <2>2. PICK d \in Callers :
          \/ Robot!AnswerCached(d) \/ Robot!FetchFile(d)
          \/ \E file \in Files : Robot!StoreFile(d, file)
          \/ Robot!EmplaceNone(d) \/ Robot!AnswerFetched(d)
    BY <2>1 DEF Robot!Next, Robot!vars
  <2>3. ASSUME NEW next, next # "answered", call' = [call EXCEPT ![d].pc = next]
        PROVE  FALSE
    <3>1. call'[c].pc \in {next, call[c].pc}
      BY <1>1, <2>3
    <3> QED
      BY <2>3, <3>1
  <2>4. Robot!AnswerCached(d) \/ Robot!AnswerFetched(d)
    BY <2>2, <2>3 DEF Robot!FetchFile, Robot!StoreFile, Robot!EmplaceNone
  <2>5. /\ call[d].host \in DOMAIN rules
        /\ Robot!Answer(d, Robot!Verdict(rules[call[d].host], call[d].path))
    BY <1>1, <2>4 DEF Robot!AnswerCached, Robot!AnswerFetched, Robot!EntriesStay
  <2>6. d = c
    BY <1>1, <2>5 DEF Robot!Answer
  <2> QED
    BY <2>5, <2>6
<1>3. call'[c].allowed = Robot!Verdict(rules[host], path)
  BY <1>1, <1>2 DEF Robot!Answer
<1> HIDE DEF host, path
<1>4. CASE served[host] = {}
  <2>1. rules[host] = Robot!NoRules
    BY <1>1, <1>2, <1>4 DEF Robot!EntriesAreFiles
  <2>2. Robot!Verdict(Robot!NoRules, path)
    BY DEF Robot!Verdict, Robot!Matching, Robot!NoRules
  <2> QED
    BY <1>3, <1>4, <2>1, <2>2 DEF host, path
<1>5. CASE served[host] # {}
  <2>1. PICK file \in served[host] : rules[host] = Robot!Parse(file)
    BY <1>1, <1>5 DEF Robot!EntriesAreFiles
  <2>2. file \in Files
    BY <1>1, <2>1
  <2>3. call'[c].allowed = Robot!AllowedBy(file, path)
    BY <1>1, <1>3, <2>1, <2>2, VerdictsFollowFiles
  <2> QED
    BY <1>5, <2>1, <2>3 DEF host, path
<1> QED
  BY <1>4, <1>5

-----------------------------------------------------------------------------
(* The invariant of the composition: that of the program that runs.        *)
IInv ==
  \/ kind = "chat" /\ Chat!IInv
  \/ kind = "crawler" /\ Crawl!IInv
  \/ kind = "ring" /\ Ring!IInv
  \/ kind = "frames" /\ Frame!IInv
  \/ kind = "robots" /\ Robot!IInv

(* It holds at the start of each program and every step keeps it.          *)
LEMMA Invariance == Spec => []IInv
<1> USE ProgramsAssumption DEF ProgramsAssumption
<1>1. Init => IInv
  BY ChatInit, CrawlInit, RingInit, FrameInit, RobotInit DEF Init, IInv
<1>2. IInv /\ [Next]_vars => IInv'
  <2> SUFFICES ASSUME IInv, [Next]_vars
               PROVE  IInv'
    OBVIOUS
  <2>1. /\ UNCHANGED chat => UNCHANGED Chat!vars
        /\ UNCHANGED crawl => UNCHANGED Crawl!vars
        /\ UNCHANGED ring => UNCHANGED Ring!vars
        /\ UNCHANGED frames => UNCHANGED Frame!vars
        /\ UNCHANGED robots => UNCHANGED Robot!vars
    BY DEF chat, crawl, ring, frames, robots, Chat!vars, Chat!room, Chat!reactor, Chat!network, Chat!stream,
           Crawl!vars, Ring!vars, Ring!ring, Ring!stats, Frame!vars, Robot!vars
  <2>2. /\ kind' = kind
        /\ kind = "chat" => [Chat!Next]_Chat!vars
        /\ kind = "crawler" => [Crawl!Next]_Crawl!vars
        /\ kind = "ring" => [Ring!Next]_Ring!vars
        /\ kind = "frames" => [Frame!Next]_Frame!vars
        /\ kind = "robots" => [Robot!Next]_Robot!vars
    BY <2>1 DEF Next, vars
  <2>3. CASE kind = "chat" /\ Chat!IInv
    BY <2>2, <2>3, ChatStep DEF IInv
  <2>4. CASE kind = "crawler" /\ Crawl!IInv
    BY <2>2, <2>4, CrawlStep DEF IInv
  <2>5. CASE kind = "ring" /\ Ring!IInv
    BY <2>2, <2>5, RingStep DEF IInv
  <2>6. CASE kind = "frames" /\ Frame!IInv
    BY <2>2, <2>6, FrameStep DEF IInv
  <2>7. CASE kind = "robots" /\ Robot!IInv
    BY <2>2, <2>7, RobotStep DEF IInv
  <2> QED
    BY <2>3, <2>4, <2>5, <2>6, <2>7 DEF IInv
<1> QED
  BY <1>1, <1>2, PTL DEF Spec

(* The variables of the program that runs keep their types.                *)
THEOREM TypeCorrect ==
  Spec => []( /\ kind = "chat" => Chat!TypeOK
              /\ kind = "crawler" => Crawl!TypeOK
              /\ kind = "ring" => Ring!TypeOK
              /\ kind = "frames" => Frame!TypeOK
              /\ kind = "robots" => Robot!TypeOK )
<1>1. IInv => /\ kind = "chat" => Chat!TypeOK
              /\ kind = "crawler" => Crawl!TypeOK
              /\ kind = "ring" => Ring!TypeOK
              /\ kind = "frames" => Frame!TypeOK
              /\ kind = "robots" => Robot!TypeOK
  BY DEF IInv, Chat!IInv, Crawl!IInv, Ring!IInv, Frame!IInv, Robot!IInv
<1> QED
  BY <1>1, Invariance, PTL

(* Every client the chat room holds has an open descriptor of its own: a   *)
(* connection leaves the list before its descriptor is closed and reused   *)
(* (websocket_server.cpp: the end of handle_websocket_client).             *)
THEOREM RoomStaysConnected == Spec => []RoomIsConnected
<1>1. IInv => RoomIsConnected
  BY ProgramsAssumption, ChatImplies DEF ProgramsAssumption, IInv, RoomIsConnected
<1> QED
  BY <1>1, Invariance, PTL

(* A member hears, in whole frames, what another one says in the order it  *)
(* was said and once, until a frame of one handler gets into the middle of *)
(* one of another; no handler cuts its own.  That is so for any sends that *)
(* take a part of a frame, any interleaving of what is sent between its    *)
(* parts, and any reuse of numbers (websocket_server.cpp: the loop of      *)
(* async_write over `total`, broadcast_message).                           *)
THEOREM OrderPerSender == Spec => []PerSenderOrder
<1>1. IInv => PerSenderOrder
  BY ProgramsAssumption, ChatImplies DEF ProgramsAssumption, IInv, PerSenderOrder
<1> QED
  BY <1>1, Invariance, PTL

(* When a connection is over, every member that had heard of it, and whose *)
(* stream no frame has been cut in, has heard, last of all, that it left   *)
(* (websocket_server.cpp: the end of handle_websocket_client).  A frame    *)
(* that is cut may well be this one: what follows is then not heard.       *)
THEOREM LeaveReachesAll == Spec => []LeaveIsTold
<1>1. IInv => LeaveIsTold
  BY ProgramsAssumption, ChatImplies DEF ProgramsAssumption, IInv, LeaveIsTold
<1> QED
  BY <1>1, Invariance, PTL

(* No page is fetched twice and no session calls its callback twice, in    *)
(* whatever order the fetches end (Scheduler.cpp: add_url, seen;           *)
(* Fetcher.cpp: async_fetch, cb).                                          *)
THEOREM FetchesOnce == Spec => []FetchedOnce
<1>1. IInv => FetchedOnce
  BY ProgramsAssumption, CrawlImplies DEF ProgramsAssumption, IInv, FetchedOnce
<1> QED
  BY <1>1, Invariance, PTL

(* When the crawl is over, every link that the pages stored were allowed   *)
(* to follow has been seen (Scheduler.cpp: the loop over the links, with   *)
(* max_per_page and its filters).                                          *)
THEOREM CrawlCompletes == Spec => []CrawlIsComplete
<1>1. IInv => CrawlIsComplete
  BY ProgramsAssumption, CrawlImplies DEF ProgramsAssumption, IInv, CrawlIsComplete
<1> QED
  BY <1>1, Invariance, PTL

(* The ring never hands out an item twice, out of order or before it was   *)
(* put in, for any number of producers, consumers and slots                *)
(* (producer_consumer.c: the two semaphores, the mutex, in and out).       *)
THEOREM RingIsFifo == Spec => []BufferIsFifo
<1>1. IInv => BufferIsFifo
  BY DEF IInv, Ring!IInv, BufferIsFifo
<1> QED
  BY <1>1, Invariance, PTL

(* As long as a thread has not ended, some thread need not wait, and when  *)
(* all have ended every item has been produced, consumed and counted: the  *)
(* shares of both roles add up to the same number, and no wake-up is missed*)
(* (producer_consumer.c: the shares in main, the semaphores, the totals).  *)
THEOREM NoThreadIsLeft == Spec => []JoinsReturn
<1>1. IInv => JoinsReturn
  BY ProgramsAssumption, JoinsDoReturn DEF ProgramsAssumption, IInv, JoinsReturn
<1> QED
  BY <1>1, Invariance, PTL

(* Frames are returned as sent, each once and in order, and the reader     *)
(* stays at their boundaries, whatever part of what it asks for each read  *)
(* gets, for every stream of lengths that are read as they are written     *)
(* (websocket_server.cpp: ws_read_frame, the loop over the payload).       *)
THEOREM FramesArriveAsSent == Spec => []FramesAsSent
<1>1. IInv => FramesAsSent
  BY DEF IInv, Frame!IInv, FramesAsSent
<1> QED
  BY <1>1, Invariance, PTL

(* Whoever asks about a path is told what some file that the host has      *)
(* answered with says of it, or that it is allowed if the host has not,    *)
(* in whatever order fetches of several callers succeed and fail, for      *)
(* every file (Robots.cpp: parse_and_store, ensure_rules_for).             *)
THEOREM CallersAreToldTheFile == Spec => AnswersFollowFiles
<1>1. IInv /\ [Next]_vars => [kind = "robots" => Robot!AnswerFollowsFile]_robots
  <2> SUFFICES ASSUME IInv, [Next]_vars, kind = "robots"
               PROVE  Robot!AnswerFollowsFile
    OBVIOUS
  <2>1. Robot!IInv
    BY DEF IInv
  <2>2. [Robot!Next]_(Robot!vars)
    <3>1. UNCHANGED robots => UNCHANGED Robot!vars
      BY DEF robots, Robot!vars
    <3> QED
      BY <3>1 DEF Next, vars
  <2> QED
    BY <2>1, <2>2, RobotAnswers, ProgramsAssumption DEF ProgramsAssumption
<1> QED
  BY <1>1, Invariance, PTL DEF Spec, AnswersFollowFiles
=============================================================================
