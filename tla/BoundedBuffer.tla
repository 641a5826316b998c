--------------------------- MODULE BoundedBuffer ----------------------------
(***************************************************************************)
(* cur/producer_consumer.c: threads that put items into a ring buffer and  *)
(* threads that take them out, with two semaphores, a mutex, and a second  *)
(* mutex for the statistics, taken inside the first.                       *)
(*                                                                         *)
(* A thread is a role and a number; an item is who produced it, and which  *)
(* of that thread's items it is.                                           *)
(***************************************************************************)
EXTENDS Integers, Sequences, FiniteSets

CONSTANTS
  NumProducers, NumConsumers,
  TotalItems,
  Size            (* BUFFER_SIZE                                           *)

BufferAssumption ==
  NumProducers \in Nat \ {0} /\ NumConsumers \in Nat \ {0} /\ TotalItems \in Nat /\ Size \in Nat \ {0}

VARIABLES
  pc,             (* where each thread is                                  *)
  todo,           (* iterations of its loop that a thread has left         *)
  buffer, in, out, count,             (* shared_buffer_t                   *)
  mutex, empty, full,                 (* its mutex and semaphores          *)
  total_produced, total_consumed,     (* under stats_mutex                 *)
  put, taken                          (* items in the order of the slots   *)

ring == <<buffer, in, out, count>>
stats == <<total_produced, total_consumed>>
vars == <<pc, todo, ring, mutex, empty, full, stats, put, taken>>

Producers == {"producer"} \X (0 .. NumProducers - 1)
Consumers == {"consumer"} \X (0 .. NumConsumers - 1)
Threads == Producers \cup Consumers
Nobody == <<"none", 0>>

(* main() shares the items out, one more for the first threads.            *)
Share(i, n) == TotalItems \div n + (IF i < TotalItems % n THEN 1 ELSE 0)
Items(t) == Share(t[2], IF t \in Producers THEN NumProducers ELSE NumConsumers)

Init ==
  /\ pc = [t \in Threads |-> "loop"]
  /\ todo = [t \in Threads |-> Items(t)]
  /\ buffer = [i \in 0 .. Size - 1 |-> <<Nobody, 0>>]
  /\ in = 0 /\ out = 0 /\ count = 0
  /\ mutex = Nobody /\ empty = Size /\ full = 0
  /\ total_produced = 0 /\ total_consumed = 0
  /\ put = <<>> /\ taken = <<>>

-----------------------------------------------------------------------------
Step(t, from, to) == pc[t] = from /\ pc' = [pc EXCEPT ![t] = to]

Ends(t) ==
  /\ Step(t, "loop", "ended") /\ todo[t] = 0
  /\ UNCHANGED <<todo, ring, mutex, empty, full, stats, put, taken>>

(* Mutant: the producer looks at count instead of waiting for a slot.      *)
LookForSlot(t) ==
  /\ t \in Producers /\ Step(t, "loop", "waited") /\ todo[t] > 0
  /\ count < Size
  /\ UNCHANGED <<todo, ring, mutex, empty, full, stats, put, taken>>

(* sem_wait(&buf->empty) and sem_wait(&buf->full).                         *)
WaitForSlot(t) ==
  /\ t \in Producers /\ Step(t, "loop", "waited") /\ todo[t] > 0
  /\ empty > 0 /\ empty' = empty - 1
  /\ UNCHANGED <<todo, ring, mutex, full, stats, put, taken>>

WaitForItem(t) ==
  /\ t \in Consumers /\ Step(t, "loop", "waited") /\ todo[t] > 0
  /\ full > 0 /\ full' = full - 1
  /\ UNCHANGED <<todo, ring, mutex, empty, stats, put, taken>>

Lock(t) ==
  /\ Step(t, "waited", "locked")
  /\ mutex = Nobody /\ mutex' = t
  /\ UNCHANGED <<todo, ring, empty, full, stats, put, taken>>

Put(t) ==
  LET item == <<t, Items(t) - todo[t]>>
  IN  /\ t \in Producers /\ Step(t, "locked", "counting")
      /\ buffer' = [buffer EXCEPT ![in] = item]
      /\ in' = (in + 1) % Size
      /\ count' = count + 1
      /\ put' = Append(put, item)
      /\ UNCHANGED <<todo, out, mutex, empty, full, stats, taken>>

TakeOut(t) ==
  /\ t \in Consumers /\ Step(t, "locked", "counting")
  /\ taken' = Append(taken, buffer[out])
  /\ out' = (out + 1) % Size
  /\ count' = count - 1
  /\ UNCHANGED <<todo, buffer, in, mutex, empty, full, stats, put>>

(* The totals, under stats_mutex, which nobody holds without the mutex.    *)
Count(t) ==
  /\ Step(t, "counting", "counted")
  /\ IF t \in Producers
       THEN total_produced' = total_produced + 1 /\ UNCHANGED total_consumed
       ELSE total_consumed' = total_consumed + 1 /\ UNCHANGED total_produced
  /\ UNCHANGED <<todo, ring, mutex, empty, full, put, taken>>

(* Mutant: a thread goes on without giving the mutex back.                 *)
KeepMutex(t) ==
  Step(t, "counted", "unlocked") /\ UNCHANGED <<todo, ring, mutex, empty, full, stats, put, taken>>

Unlock(t) ==
  /\ Step(t, "counted", "unlocked")
  /\ mutex' = Nobody
  /\ UNCHANGED <<todo, ring, empty, full, stats, put, taken>>

(* sem_post(&buf->full) and sem_post(&buf->empty), and the next iteration. *)
Post(t) ==
  /\ Step(t, "unlocked", "loop")
  /\ todo' = [todo EXCEPT ![t] = @ - 1]
  /\ IF t \in Producers
       THEN full' = full + 1 /\ UNCHANGED empty
       ELSE empty' = empty + 1 /\ UNCHANGED full
  /\ UNCHANGED <<ring, mutex, stats, put, taken>>

Next ==
  \E t \in Threads :
    \/ Ends(t) \/ WaitForSlot(t) \/ WaitForItem(t) \/ Lock(t)
    \/ Put(t) \/ TakeOut(t) \/ Count(t) \/ Unlock(t) \/ Post(t)

Spec == Init /\ [][Next]_vars

-----------------------------------------------------------------------------
(* Items leave in the order they came, none is lost in a slot that is      *)
(* written again, none is taken twice, and the ring is the items between.  *)
BufferIsFifo ==
  /\ Len(taken) <= Len(put) /\ taken = SubSeq(put, 1, Len(taken))
  /\ count = Len(put) - Len(taken)
  /\ \A i \in Len(taken) + 1 .. Len(put) : buffer[(i - 1) % Size] = put[i]

(* In sem_wait for a slot or an item, or in the lock of the mutex: nothing *)
(* else can hold a thread up that has not ended.                           *)
Waits(t) ==
  \/ pc[t] = "loop" /\ todo[t] > 0 /\ (IF t \in Producers THEN empty ELSE full) = 0
  \/ pc[t] = "waited" /\ mutex # Nobody
AllEnded == \A t \in Threads : pc[t] = "ended"

(* Both joins of main() return, with everything produced and consumed: no  *)
(* thread waits for a slot or an item that nobody is left to give.         *)
JoinsReturn ==
  \/ \E t \in Threads : pc[t] # "ended" /\ ~Waits(t)
  \/ AllEnded /\ count = 0 /\ total_produced = TotalItems /\ total_consumed = TotalItems
-----------------------------------------------------------------------------
(* What the ring's theorems rest on.  A slot is free, or filled, or kept   *)
(* by a thread between its wait and its post; an item likewise.            *)
Item == (Threads \cup {Nobody}) \X Int

TypeOK ==
  /\ pc \in [Threads -> {"loop", "waited", "locked", "counting", "counted", "unlocked", "ended"}]
  /\ todo \in [Threads -> Int]
  /\ buffer \in [0 .. Size - 1 -> Item]
  /\ in \in Int /\ out \in Int /\ count \in Int
  /\ mutex \in Threads \cup {Nobody} /\ empty \in Nat /\ full \in Nat
  /\ total_produced \in Nat /\ total_consumed \in Nat
  /\ put \in Seq(Item) /\ taken \in Seq(Item)

Before(threads) == {t \in threads : pc[t] \in {"waited", "locked"}}
Behind(threads) == {t \in threads : pc[t] \in {"counting", "counted", "unlocked"}}

SlotsKept ==
  Size = empty + Cardinality(Before(Producers)) + (Len(put) - Len(taken))
               + Cardinality(Behind(Consumers))
ItemsKept ==
  Len(put) - Len(taken) = full + Cardinality(Behind(Producers)) + Cardinality(Before(Consumers))

Indices == in = Len(put) % Size /\ out = Len(taken) % Size

(* The turns a thread still has to put or take something; what the totals  *)
(* have yet to count; and who holds the mutex is where it will give it up. *)
Remaining(t) ==
  todo[t] - (IF pc[t] \in {"counting", "counted", "unlocked"} THEN 1 ELSE 0)
Left(threads) == {e \in threads \X (1 .. TotalItems) : e[2] <= Remaining(e[1])}
Uncounted(threads) == {t \in threads : pc[t] = "counting"}

Turns ==
  \A t \in Threads :
    /\ todo[t] \in 0 .. TotalItems
    /\ IF pc[t] = "ended" THEN todo[t] = 0 ELSE pc[t] = "loop" \/ todo[t] > 0

AllShared ==
  /\ Len(put) + Cardinality(Left(Producers)) = TotalItems
  /\ Len(taken) + Cardinality(Left(Consumers)) = TotalItems

Totals ==
  /\ total_produced + Cardinality(Uncounted(Producers)) = Len(put)
  /\ total_consumed + Cardinality(Uncounted(Consumers)) = Len(taken)

Holder == mutex # Nobody => pc[mutex] \in {"locked", "counting", "counted"}

IInv ==
  /\ TypeOK /\ SlotsKept /\ ItemsKept /\ Indices /\ BufferIsFifo
  /\ Turns /\ AllShared /\ Totals /\ Holder
=============================================================================
