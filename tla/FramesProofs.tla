---------------------------- MODULE FramesProofs ----------------------------
(***************************************************************************)
(* No coroutine frame is used after its destruction and none is left over, *)
(* for any number of tasks, workers and suspensions, but for what UsedAlive*)
(* excepts.                                                                *)
(*                                                                         *)
(* The invariant says where every frame is (in one stack, armed, queued,   *)
(* taken by a worker, or lost, and in one of these places only), what its  *)
(* state has to do with that place, who owns it, and what its promise says.*)
(* A frame that somebody may still resume is owned by one that awaits it,  *)
(* by a helper that waits for it, or by itself, and these do not destroy   *)
(* it before its end; an ended one is in no place from which it could be   *)
(* resumed.                                                                *)
(***************************************************************************)
EXTENDS Frames, SequenceTheorems, WellFoundedInduction, TLAPS

(* Where the coroutine of a frame may be, as task.h and its promise know.  *)
FrameStates ==
  {"unborn", "fresh", "running", "awaiting", "suspended", "final", "done", "dead"}

(* The values of the variables.                                            *)
TypeOK ==
  /\ void \in BOOLEAN
  /\ state \in [Frames -> FrameStates]
  /\ owner \in [Frames -> Frames \cup {Main, Helper, None}]
  /\ continuation \in [Frames -> Frames \cup {None}]
  /\ detached \in [Frames -> BOOLEAN]
  /\ result \in [Frames -> {"none", "value", "error"}]
  /\ ending \in [Frames -> {"none", "value", "error"}]
  /\ stack \in [Threads -> Seq(Frames)]
  /\ armed \in SUBSET Frames /\ lost \in SUBSET Frames
  /\ call \in {"none", "sync_wait", "sync_waited", "async_run", "async_spawn", "got",
               "detach", "drop"}
  /\ helper \in {"idle", "launching", "polling", "leaving", "ended"}
  /\ answer \in {"none", "value", "error"}
  /\ misuse \in SUBSET {"destroy", "resume", "final awaiter"}
  /\ pending \in Seq(Frames)
  /\ on \in [Workers -> Frames \cup {None}]

(* Where a frame can be: in the stack of a thread, armed, in the queue of  *)
(* the executor, taken from it by a worker, or lost.                       *)
Content(s) == {s[i] : i \in 1 .. Len(s)}
Entered == UNION {Content(stack[t]) : t \in Threads}
Queued == Content(pending)
Taken(w) == on[w] # None /\ stack[w] = <<>>
Held == {on[w] : w \in {v \in Workers : Taken(v)}}
Waiting == armed \cup Queued \cup Held \cup lost

(* No frame is twice in the same kind of place.                            *)
Once(s) == \A i, j \in 1 .. Len(s) : s[i] = s[j] => i = j
Unique ==
  /\ \A t \in Threads : Once(stack[t])
  /\ \A t, u \in Threads : t # u => Content(stack[t]) \cap Content(stack[u]) = {}
  /\ Once(pending)
  /\ \A v, w \in Workers : Taken(v) /\ Taken(w) /\ on[v] = on[w] => v = w
  /\ \A w \in Workers : on[w] = None => stack[w] = <<>>

(* Nor in places of two kinds.                                             *)
Apart ==
  /\ Entered \cap (armed \cup Queued \cup Held \cup lost) = {}
  /\ armed \cap (Queued \cup Held \cup lost) = {}
  /\ Queued \cap (Held \cup lost) = {}
  /\ Held \cap lost = {}

(* Frames that run are entered, suspended ones wait to be resumed.         *)
InPlace ==
  /\ \A f \in Entered : state[f] \in {"running", "final", "dead"}
  /\ \A f \in Waiting :
       \/ state[f] \in {"suspended", "dead"}
       \/ f = Root /\ state[f] = "fresh" /\ helper \in {"polling", "leaving"}
  /\ \A f \in Frames : state[f] \in {"running", "final"} => f \in Entered
  /\ \A f \in Frames : state[f] = "suspended" => f \in Waiting

(* No destroyed frame is entered or waits to be, but for async_run's tasks *)
(* and for a worker that is late to leave the root's final awaiter.        *)
NoneDead ==
  call # "async_run" =>
    \A f \in Entered \cup Waiting : state[f] = "dead" =>
      f \in Entered /\ f = Root /\ helper = "ended" /\ ending[f] # "none"

(* Who owns a frame: an older frame that has not ended, a thread that has  *)
(* the root, or nobody.                                                    *)
Owners ==
  \A c \in Frames :
    /\ owner[c] \in Frames =>
         /\ owner[c] < c
         /\ state[owner[c]] \in {"running", "awaiting", "suspended"}
         /\ state[c] = "fresh" \/ continuation[c] = owner[c]
    /\ owner[c] = None <=> state[c] \in {"unborn", "dead"} \/ detached[c]
    /\ owner[c] \in {Main, Helper} => c = Root
    /\ state[c] = "unborn" => \A d \in Frames : c < d => state[d] = "unborn"

(* What the promise of a frame says in each state.                         *)
Promises ==
  \A c \in Frames :
    /\ detached[c] => continuation[c] = None /\ state[c] \notin {"unborn", "fresh", "done"}
    /\ state[c] \in {"unborn", "fresh"} => continuation[c] = None
    /\ continuation[c] = None /\ ~detached[c] /\ c # Root
         => state[c] \in {"unborn", "fresh", "dead"}
    /\ state[c] \in {"final", "done"} => ending[c] # "none" /\ Outcome(c) = ending[c]
    /\ state[c] \notin {"final", "done", "dead"} => result[c] = "none"

(* A frame that awaits another owns it, and is alone to await it.          *)
Awaiters ==
  /\ \A c \in Frames : continuation[c] # None /\ state[c] # "dead" =>
       /\ owner[c] = continuation[c]
       /\ state[continuation[c]] = IF state[c] = "done" THEN "running" ELSE "awaiting"
  /\ \A c, d \in Frames :
       /\ continuation[c] # None /\ continuation[c] = continuation[d]
       /\ state[c] # "dead" /\ state[d] # "dead"
       => c = d
  /\ \A p \in Frames : state[p] = "awaiting" =>
       \E c \in Frames : continuation[c] = p /\ state[c] # "dead"

(* The root and the two threads outside of the executor.                   *)
RootTask ==
  /\ owner[Root] = IF call = "none" THEN Main
                   ELSE IF helper \in {"launching", "polling", "leaving"} THEN Helper ELSE None
  /\ continuation[Root] = None /\ state[Root] # "unborn"
  /\ call = "none" \/ helper = "launching" => state[Root] = "fresh"
  /\ helper = "polling" => call # "async_run"
  /\ call \in {"none", "detach", "drop"} <=> helper = "idle"
  /\ detached[Root] => helper = "idle"
  /\ call = "sync_waited" => helper = "ended"
  /\ call # "async_run" =>
       /\ helper = "leaving" => state[Root] \in {"final", "done"}
       /\ helper \in {"leaving", "ended"} => answer # "none" /\ answer = ending[Root]

(* The inductive invariant.                                                *)
IInv ==
  /\ TypeOK /\ Unique /\ Apart /\ InPlace /\ NoneDead
  /\ Owners /\ Promises /\ Awaiters /\ RootTask /\ UsedAlive

-----------------------------------------------------------------------------
(* Ownership: OwnedBy(f) is the least set with f and what its frames own.  *)

(* Every set of naturals that is not empty has a least element.            *)
LEMMA Least ==
  ASSUME NEW S \in SUBSET Nat, S # {}
  PROVE  \E m \in S : \A n \in S : m <= n
<1>1. PICK m \in S : \A n \in S : ~ (<<n, m>> \in OpToRel(<, Nat))
  BY WFMin, NatLessThanWellFounded
<1>2. \A n \in S : ~ (n < m)
  BY <1>1 DEF OpToRel
<1>3. m \in Nat /\ \A n \in S : n \in Nat
  OBVIOUS
<1>4. \A n \in S : m <= n
  BY <1>2, <1>3
<1> QED
  BY <1>4

(* The recursive function in OwnedBy exists.                               *)
LEMMA OwnedByGrows ==
  ASSUME N \in Nat, NEW f \in Frames
  PROVE  \E grow :
           /\ \A n \in 0 .. N : grow[n] = IF n = 0 THEN {f}
                ELSE grow[n - 1] \cup {g \in Frames : owner[g] \in grow[n - 1]}
           /\ OwnedBy(f) = grow[N]
<1> DEFINE More(S) == S \cup {g \in Frames : owner[g] \in S}
           Grows(m, grow) ==
             grow = [n \in 0 .. m |-> IF n = 0 THEN {f} ELSE More(grow[n - 1])]
           Bad == {m \in Nat : ~ \E grow : Grows(m, grow)}
<1>1. Bad = {}
  <2> SUFFICES ASSUME Bad # {} PROVE FALSE
    OBVIOUS
  <2>1. PICK m \in Bad : \A n \in Bad : m <= n
    BY Least
  <2>2. m # 0
    <3>1. Grows(0, [n \in 0 .. 0 |-> {f}])
      OBVIOUS
    <3> QED BY <3>1
  <2>3. PICK grow : Grows(m - 1, grow)
    <3>1. m \in Nat
      BY <2>1
    <3>2. m - 1 \in Nat /\ ~ (m <= m - 1)
      BY <2>2, <3>1
    <3>3. m - 1 \notin Bad
      BY <2>1, <3>2
    <3> QED
      BY <3>2, <3>3
  <2> DEFINE more == [n \in 0 .. m |-> IF n = m THEN More(grow[m - 1]) ELSE grow[n]]
  <2>4. Grows(m, more)
    <3>1. m \in Nat /\ m > 0
      BY <2>1, <2>2
    <3>2. more[m] = More(more[m - 1])
      BY <3>1
    <3>3. more[0] = {f}
      BY <2>3, <3>1
    <3>4. \A n \in 1 .. m - 1 : more[n] = More(more[n - 1])
      BY <2>3, <3>1
    <3>5. more = [n \in 0 .. m |-> more[n]]
      OBVIOUS
    <3> HIDE DEF more, More
    <3>6. \A n \in 0 .. m : more[n] = IF n = 0 THEN {f} ELSE More(more[n - 1])
      <4> TAKE n \in 0 .. m
      <4>1. n = 0 \/ n = m \/ n \in 1 .. m - 1
        BY <3>1
      <4> QED
        BY <3>2, <3>3, <3>4, <4>1, <3>1
    <3> QED
      BY <3>5, <3>6
  <2> QED
    BY <2>1, <2>4
<1>2. \E grow : Grows(N, grow)
  BY <1>1
<1> QED
  BY <1>2 DEF OwnedBy

(* Owners are older than what they own, in every state that is reached.    *)
Older == \A g \in Frames : owner[g] \in Frames => owner[g] < g

(* Given that, OwnedBy(f) is the least set with f that is closed.          *)
LEMMA OwnedByLeast ==
  ASSUME N \in Nat, Older, NEW f \in Frames
  PROVE  /\ f \in OwnedBy(f) /\ OwnedBy(f) \subseteq Frames
         /\ \A g \in Frames : owner[g] \in OwnedBy(f) => g \in OwnedBy(f)
         /\ \A S \in SUBSET Frames :
              f \in S /\ (\A g \in Frames : owner[g] \in S => g \in S) => OwnedBy(f) \subseteq S
<1>1. PICK grow :
        /\ \A n \in 0 .. N : grow[n] = IF n = 0 THEN {f}
             ELSE grow[n - 1] \cup {g \in Frames : owner[g] \in grow[n - 1]}
        /\ OwnedBy(f) = grow[N]
  BY OwnedByGrows
<1> USE DEF Frames
<1>2. grow[0] = {f}
  <2>1. 0 \in 0 .. N
    OBVIOUS
  <2> QED
    BY <1>1, <2>1
<1>3. \A n \in 1 .. N : grow[n] = grow[n - 1] \cup {g \in Frames : owner[g] \in grow[n - 1]}
  <2> TAKE n \in 1 .. N
  <2>1. n \in 0 .. N /\ n # 0
    OBVIOUS
  <2> QED
    BY <1>1, <2>1
(* What the steps of the induction keep holds of every step.               *)
<1>4. ASSUME NEW P \in SUBSET (0 .. N), 0 \in P, \A n \in 1 .. N : n - 1 \in P => n \in P
      PROVE  0 .. N \subseteq P
  <2> DEFINE Bad == {n \in 0 .. N : n \notin P}
  <2> SUFFICES ASSUME Bad # {} PROVE FALSE
    OBVIOUS
  <2>1. PICK m \in Bad : \A n \in Bad : m <= n
    <3>1. Bad \in SUBSET Nat
      OBVIOUS
    <3> HIDE DEF Bad
    <3> QED BY Least, <3>1
  <2>2. m \in 1 .. N /\ m - 1 \in 0 .. N /\ ~ (m <= m - 1)
    BY <2>1, <1>4
  <2>3. m - 1 \in P
    BY <2>1, <2>2
  <2> QED
    BY <2>1, <2>2, <2>3, <1>4
<1>5. \A n \in 0 .. N : f \in grow[n] /\ grow[n] \subseteq Frames
  <2> DEFINE P == {n \in 0 .. N : f \in grow[n] /\ grow[n] \subseteq Frames}
  <2>1. 0 \in P /\ \A n \in 1 .. N : n - 1 \in P => n \in P
    BY <1>2, <1>3
  <2> QED
    BY <2>1, <1>4
<1>6. \A n \in 0 .. N : \A m \in 0 .. n : grow[m] \subseteq grow[n]
  <2> DEFINE P == {n \in 0 .. N : \A m \in 0 .. n : grow[m] \subseteq grow[n]}
  <2>1. 0 \in P
    OBVIOUS
  <2>2. ASSUME NEW n \in 1 .. N, n - 1 \in P PROVE n \in P
    <3>1. \A m \in 0 .. n : m = n \/ m \in 0 .. n - 1
      OBVIOUS
    <3>2. \A m \in 0 .. n - 1 : grow[m] \subseteq grow[n - 1]
      BY <2>2
    <3> QED
      BY <3>1, <3>2, <1>3
  <2>3. P \in SUBSET (0 .. N)
    OBVIOUS
  <2> HIDE DEF P
  <2>4. 0 .. N \subseteq P
    BY <2>1, <2>2, <2>3, <1>4
  <2> QED
    BY <2>4 DEF P
(* A frame is found after as many steps as its number, at the latest.      *)
<1>7. \A n \in 0 .. N : \A g \in grow[n] : g \in grow[g]
  <2> DEFINE P == {n \in 0 .. N : \A g \in grow[n] : g \in grow[g]}
  <2>1. 0 \in P
    BY <1>2, <1>5
  <2>2. ASSUME NEW n \in 1 .. N, n - 1 \in P PROVE n \in P
    <3> SUFFICES ASSUME NEW g \in grow[n] PROVE g \in grow[g]
      OBVIOUS
    <3>1. g \in Frames
      BY <1>5
    <3>2. CASE g \in grow[n - 1]
      BY <3>2, <2>2
    <3>3. CASE owner[g] \in grow[n - 1]
      <4>1. owner[g] \in Frames /\ owner[g] \in grow[owner[g]]
        BY <3>3, <2>2, <1>5
      <4>2. owner[g] < g /\ owner[g] + 1 \in 1 .. N /\ owner[g] + 1 \in 0 .. g
        BY <4>1, <3>1 DEF Older
      <4>3. g \in grow[owner[g] + 1]
        BY <4>1, <4>2, <3>1, <1>3
      <4> QED
        BY <4>2, <4>3, <3>1, <1>6
    <3> QED
      BY <3>2, <3>3, <1>3
  <2>3. P \in SUBSET (0 .. N)
    OBVIOUS
  <2> HIDE DEF P
  <2>4. 0 .. N \subseteq P
    BY <2>1, <2>2, <2>3, <1>4
  <2> QED
    BY <2>4 DEF P
<1>8. ASSUME NEW g \in Frames, owner[g] \in grow[N] PROVE g \in grow[N]
  <2>1. owner[g] \in Frames /\ owner[g] \in grow[owner[g]]
    BY <1>5, <1>7, <1>8
  <2>2. owner[g] < g /\ owner[g] + 1 \in 1 .. N
    BY <2>1 DEF Older
  <2>3. g \in grow[owner[g] + 1]
    BY <2>1, <2>2, <1>3
  <2> QED
    BY <2>2, <2>3, <1>6
<1>9. ASSUME NEW S \in SUBSET Frames, f \in S, \A g \in Frames : owner[g] \in S => g \in S
      PROVE  grow[N] \subseteq S
  <2> DEFINE P == {n \in 0 .. N : grow[n] \subseteq S}
  <2>1. 0 \in P /\ \A n \in 1 .. N : n - 1 \in P => n \in P
    BY <1>2, <1>3, <1>9
  <2>2. P \in SUBSET (0 .. N)
    OBVIOUS
  <2> HIDE DEF P
  <2>3. 0 .. N \subseteq P
    BY <2>1, <2>2, <1>4
  <2> QED
    BY <2>3 DEF P
<1> QED
  BY <1>1, <1>5, <1>8, <1>9

(* What is destroyed with the frames S: what they own, what that owns.     *)
LEMMA DestroyedIs ==
  ASSUME N \in Nat, Older, NEW S \in SUBSET Frames
  PROVE  /\ S \subseteq Destroyed(S) /\ Destroyed(S) \subseteq Frames
         /\ \A g \in Frames : owner[g] \in Destroyed(S) => g \in Destroyed(S)
         /\ \A g \in Destroyed(S) : g \in S \/ owner[g] \in Destroyed(S)
<1>1. ASSUME NEW f \in S, NEW g \in OwnedBy(f) PROVE g = f \/ owner[g] \in OwnedBy(f)
  <2> DEFINE T == {h \in OwnedBy(f) : h = f \/ owner[h] \in OwnedBy(f)}
  <2>1. T \in SUBSET Frames /\ f \in T
    BY OwnedByLeast
  <2>2. \A h \in Frames : owner[h] \in T => h \in T
    BY OwnedByLeast
  <2>3. OwnedBy(f) \subseteq T
    <3> HIDE DEF T
    <3> QED BY <2>1, <2>2, OwnedByLeast
  <2> QED
    BY <2>3
<1> QED
  BY <1>1, OwnedByLeast DEF Destroyed

(* Frames that own nothing are destroyed alone.                            *)
LEMMA DestroyedAlone ==
  ASSUME N \in Nat, Older, NEW S \in SUBSET Frames, \A g \in Frames : owner[g] \notin S
  PROVE  Destroyed(S) = S
<1>1. ASSUME NEW f \in S PROVE OwnedBy(f) = {f}
  <2>1. {f} \in SUBSET Frames /\ f \in {f} /\ \A g \in Frames : owner[g] \notin {f}
    OBVIOUS
  <2>2. OwnedBy(f) \subseteq {f}
    BY <2>1, OwnedByLeast
  <2> QED
    BY <2>2, OwnedByLeast
<1> QED
  BY <1>1 DEF Destroyed

-----------------------------------------------------------------------------
(* Places: what the operations on stacks and on the queue do to them.      *)

(* The last element of a sequence is taken off.                            *)
LEMMA PopSeq ==
  ASSUME NEW s \in Seq(Frames), s # <<>>, Once(s)
  PROVE  LET last == s[Len(s)]
             rest == SubSeq(s, 1, Len(s) - 1)
         IN  /\ last \in Content(s) /\ last \in Frames
             /\ rest \in Seq(Frames) /\ Once(rest) /\ Content(rest) = Content(s) \ {last}
             /\ rest = <<>> <=> Len(s) = 1
<1>1. Len(s) \in Nat \ {0} /\ \A i \in 1 .. Len(s) : s[i] \in Frames
  OBVIOUS
<1> DEFINE rest == SubSeq(s, 1, Len(s) - 1)
<1>2. rest \in Seq(Frames) /\ Len(rest) = Len(s) - 1
      /\ \A i \in 1 .. Len(s) - 1 : rest[i] = s[i]
  <2>1. Len(s) - 1 \in Nat /\ \A i \in 1 .. Len(s) - 1 : s[i] \in Frames
    BY <1>1
  <2>2. /\ SubSeq(s, 1, Len(s) - 1) \in Seq(Frames)
        /\ Len(SubSeq(s, 1, Len(s) - 1)) = IF 1 <= Len(s) - 1 THEN Len(s) - 1 - 1 + 1 ELSE 0
        /\ \A i \in 1 .. Len(s) - 1 - 1 + 1 : SubSeq(s, 1, Len(s) - 1)[i] = s[1 + i - 1]
    BY <2>1, SubSeqProperties
  <2>3. Len(s) - 1 - 1 + 1 = Len(s) - 1 /\ \A i \in 1 .. Len(s) - 1 : 1 + i - 1 = i
    BY <2>1
  <2>4. Len(SubSeq(s, 1, Len(s) - 1)) = Len(s) - 1
    <3> DEFINE n == Len(s)
    <3>1. n \in Nat \ {0}
      BY <1>1
    <3>2. Len(SubSeq(s, 1, n - 1)) = IF 1 <= n - 1 THEN n - 1 - 1 + 1 ELSE 0
      BY <2>2
    <3> HIDE DEF n
    <3>3. Len(SubSeq(s, 1, n - 1)) = n - 1
      BY <3>1, <3>2
    <3> QED
      BY <3>3 DEF n
  <2> HIDE DEF rest
  <2>5. /\ rest \in Seq(Frames) /\ Len(rest) = Len(s) - 1
        /\ \A i \in 1 .. Len(s) - 1 : rest[i] = s[1 + i - 1]
    BY <2>2, <2>3, <2>4 DEF rest
  <2> QED
    BY <2>3, <2>5
<1> HIDE DEF rest
<1>3. Once(rest)
  BY <1>1, <1>2 DEF Once
<1>4. Content(rest) = Content(s) \ {s[Len(s)]}
  BY <1>1, <1>2 DEF Once, Content
<1>5. s[Len(s)] \in Content(s)
  BY <1>1 DEF Content
<1>6. rest = <<>> <=> Len(s) = 1
  BY <1>1, <1>2
<1> QED
  BY <1>1, <1>2, <1>3, <1>4, <1>5, <1>6 DEF rest

(* A new element is put at the end of a sequence.                          *)
LEMMA PushSeq ==
  ASSUME NEW s \in Seq(Frames), Once(s), NEW c \in Frames, c \notin Content(s)
  PROVE  /\ Append(s, c) \in Seq(Frames) /\ Append(s, c) # <<>>
         /\ Once(Append(s, c)) /\ Content(Append(s, c)) = Content(s) \cup {c}
<1>1. Len(s) \in Nat
  OBVIOUS
<1> DEFINE more == Append(s, c)
<1>2. more \in Seq(Frames) /\ Len(more) = Len(s) + 1 /\ more[Len(s) + 1] = c
      /\ \A i \in 1 .. Len(s) : more[i] = s[i]
  BY AppendProperties
<1> HIDE DEF more
<1>3. Once(more) /\ Content(more) = Content(s) \cup {c} /\ more # <<>>
  BY <1>1, <1>2 DEF Once, Content
<1> QED
  BY <1>2, <1>3 DEF more

(* The first element of a sequence is taken off.                           *)
LEMMA TailSeq ==
  ASSUME NEW s \in Seq(Frames), s # <<>>, Once(s)
  PROVE  /\ Head(s) \in Content(s) /\ Head(s) \in Frames
         /\ Tail(s) \in Seq(Frames) /\ Once(Tail(s))
         /\ Content(Tail(s)) = Content(s) \ {Head(s)}
<1>1. Len(s) \in Nat \ {0} /\ Head(s) = s[1] /\ \A i \in 1 .. Len(s) : s[i] \in Frames
  OBVIOUS
<1> DEFINE rest == Tail(s)
<1>2. rest \in Seq(Frames) /\ Len(rest) = Len(s) - 1
      /\ \A i \in 1 .. Len(s) - 1 : rest[i] = s[i + 1]
  BY HeadTailProperties
<1> HIDE DEF rest
<1>3. Once(rest)
  BY <1>1, <1>2 DEF Once
<1>4. Content(rest) = Content(s) \ {s[1]}
  <2>1. \A i \in 2 .. Len(s) : i - 1 \in 1 .. Len(rest) /\ rest[i - 1] = s[i] /\ s[i] # s[1]
    BY <1>1, <1>2 DEF Once
  <2>2. \A i \in 1 .. Len(rest) : i + 1 \in 2 .. Len(s) /\ rest[i] = s[i + 1]
    BY <1>1, <1>2
  <2>3. \A i \in 1 .. Len(s) : i = 1 \/ i \in 2 .. Len(s)
    BY <1>1
  <2>4. \A i \in 1 .. Len(rest) : rest[i] \in Content(s) /\ rest[i] # s[1]
    BY <2>1, <2>2, <1>1 DEF Content
  <2>5. \A x \in Content(s) : x # s[1] => x \in Content(rest)
    <3> TAKE x \in Content(s)
    <3>1. PICK i \in 1 .. Len(s) : x = s[i]
      BY DEF Content
    <3> QED
      BY <3>1, <2>1, <2>3 DEF Content
  <2> QED
    BY <2>4, <2>5 DEF Content
<1>5. s[1] \in Content(s)
  BY <1>1 DEF Content
<1> QED
  BY <1>1, <1>2, <1>3, <1>4, <1>5 DEF rest

(* The frame a thread executes is entered.                                 *)
LEMMA TopEntered ==
  ASSUME TypeOK, Unique, NEW t \in Threads, stack[t] # <<>>
  PROVE  Top(t) \in Entered /\ Top(t) \in Frames
<1>1. stack[t] \in Seq(Frames) /\ Once(stack[t])
  BY DEF TypeOK, Unique
<1>2. Top(t) \in Content(stack[t]) /\ Top(t) \in Frames
  BY <1>1, PopSeq DEF Top
<1> QED
  BY <1>2 DEF Entered

(* resume() returns: the thread leaves the innermost frame, and a worker   *)
(* that was in no other takes nothing until it is given the next handle.   *)
LEMMA Left ==
  ASSUME TypeOK, Unique, NEW t \in Threads, stack[t] # <<>>, Leave(t)
  PROVE  /\ Unique' /\ Entered' = Entered \ {Top(t)} /\ Queued' = Queued /\ Held' = Held
         /\ stack' \in [Threads -> Seq(Frames)] /\ on' \in [Workers -> Frames \cup {None}]
         /\ pending' = pending
<1> DEFINE rest == SubSeq(stack[t], 1, Len(stack[t]) - 1)
<1>1. stack \in [Threads -> Seq(Frames)] /\ on \in [Workers -> Frames \cup {None}]
  BY DEF TypeOK
<1>2. /\ Top(t) \in Content(stack[t])
      /\ rest \in Seq(Frames) /\ Once(rest) /\ Content(rest) = Content(stack[t]) \ {Top(t)}
      /\ rest = <<>> <=> Len(stack[t]) = 1
  BY <1>1, PopSeq DEF Unique, Top
<1>3. stack' = [stack EXCEPT ![t] = rest]
  BY DEF Leave
<1> HIDE DEF rest
<1>4. stack' \in [Threads -> Seq(Frames)]
  BY <1>1, <1>2, <1>3
<1>5. /\ stack'[t] = rest
      /\ \A u \in Threads : u # t => stack'[u] = stack[u]
  BY <1>1, <1>3
<1>6. /\ pending' = pending
      /\ on' = IF t \in Workers /\ Len(stack[t]) = 1 THEN [on EXCEPT ![t] = None] ELSE on
  BY DEF Leave, Q!LetGo, queue
<1>7. on' \in [Workers -> Frames \cup {None}]
  BY <1>1, <1>6
<1>8. Entered' = Entered \ {Top(t)}
  <2>1. Entered' = UNION {Content(stack'[u]) : u \in Threads}
    BY DEF Entered, Content
  <2>2. \A u \in Threads : u # t => Top(t) \notin Content(stack[u])
    BY <1>2 DEF Unique
  <2> QED
    BY <1>2, <1>5, <2>1, <2>2 DEF Entered
<1>9. \A w \in Workers : /\ Taken(w)' <=> Taken(w)
                         /\ w # t => on'[w] = on[w]
  BY <1>1, <1>2, <1>5, <1>6 DEF Taken, Threads
<1>10. t \in Workers => ~Taken(t)
  BY DEF Taken
<1>11. Held' = Held
  BY <1>9, <1>10 DEF Held
<1>12. \A u \in Threads : Once(stack'[u])
  BY <1>2, <1>5 DEF Unique
<1>13. \A u, v \in Threads : u # v => Content(stack'[u]) \cap Content(stack'[v]) = {}
  BY <1>2, <1>5 DEF Unique
<1>14. \A w \in Workers : on'[w] = None => stack'[w] = <<>>
  BY <1>1, <1>2, <1>5, <1>6 DEF Unique, Threads
<1>15. \A v, w \in Workers : Taken(v)' /\ Taken(w)' /\ on'[v] = on'[w] => v = w
  BY <1>9, <1>10 DEF Unique
<1>16. Once(pending') /\ Queued' = Queued
  BY <1>6 DEF Unique, Queued
<1> QED
  BY <1>4, <1>6, <1>7, <1>8, <1>11, <1>12, <1>13, <1>14, <1>15, <1>16 DEF Unique

(* A coroutine is resumed inside of another, or in an idle main thread.    *)
LEMMA Pushed ==
  ASSUME TypeOK, Unique, NEW t \in Threads, t = Main \/ stack[t] # <<>>,
         NEW c \in Frames, c \notin Entered, Main \notin Workers,
         stack' = [stack EXCEPT ![t] = Append(@, c)], UNCHANGED queue
  PROVE  /\ Unique' /\ Entered' = Entered \cup {c} /\ Queued' = Queued /\ Held' = Held
         /\ stack' \in [Threads -> Seq(Frames)]
<1> DEFINE more == Append(stack[t], c)
<1>1. stack \in [Threads -> Seq(Frames)]
  BY DEF TypeOK
<1>2. more \in Seq(Frames) /\ more # <<>> /\ Once(more) /\ Content(more) = Content(stack[t]) \cup {c}
  BY <1>1, PushSeq DEF Unique, Entered
<1>3. stack' = [stack EXCEPT ![t] = more]
  BY <1>1
<1> HIDE DEF more
<1>4. stack' \in [Threads -> Seq(Frames)]
  BY <1>1, <1>2, <1>3
<1>5. /\ stack'[t] = more
      /\ \A u \in Threads : u # t => stack'[u] = stack[u]
  BY <1>1, <1>3
<1>6. pending' = pending /\ on' = on
  BY DEF queue
<1>7. Entered' = Entered \cup {c}
  BY <1>2, <1>5 DEF Entered
<1>8. \A w \in Workers : Taken(w)' <=> Taken(w)
  BY <1>2, <1>5, <1>6 DEF Taken, Threads
<1>9. Held' = Held /\ Queued' = Queued
  BY <1>6, <1>8 DEF Held, Queued
<1>10. \A u \in Threads : Once(stack'[u])
  BY <1>2, <1>5 DEF Unique
<1>11. \A u, v \in Threads : u # v => Content(stack'[u]) \cap Content(stack'[v]) = {}
  <2> TAKE u, v \in Threads
  <2> HAVE u # v
  <2>1. /\ Content(stack[u]) \cap Content(stack[v]) = {}
        /\ c \notin Content(stack[u]) /\ c \notin Content(stack[v])
    BY DEF Unique, Entered
  <2>2. CASE u = t
    BY <1>2, <1>5, <2>1, <2>2
  <2>3. CASE v = t
    BY <1>2, <1>5, <2>1, <2>3
  <2>4. CASE u # t /\ v # t
    BY <1>5, <2>1, <2>4
  <2> QED
    BY <2>2, <2>3, <2>4
<1>12. \A w \in Workers : on'[w] = None => stack'[w] = <<>>
  BY <1>2, <1>5, <1>6 DEF Unique, Threads
<1> QED
  BY <1>4, <1>6, <1>7, <1>8, <1>9, <1>10, <1>11, <1>12 DEF Unique

(* Control is transferred from the innermost frame to another.             *)
LEMMA Transferred ==
  ASSUME TypeOK, Unique, NEW t \in Threads, stack[t] # <<>>,
         NEW c \in Frames, c \notin Entered, TransferTo(t, c)
  PROVE  /\ Unique' /\ Entered' = (Entered \ {Top(t)}) \cup {c}
         /\ Queued' = Queued /\ Held' = Held
         /\ stack' \in [Threads -> Seq(Frames)]
<1> DEFINE rest == SubSeq(stack[t], 1, Len(stack[t]) - 1)
           more == Append(rest, c)
<1>1. stack \in [Threads -> Seq(Frames)]
  BY DEF TypeOK
<1>2. /\ Top(t) \in Content(stack[t])
      /\ rest \in Seq(Frames) /\ Once(rest) /\ Content(rest) = Content(stack[t]) \ {Top(t)}
  BY <1>1, PopSeq DEF Unique, Top
<1>3. stack' = [stack EXCEPT ![t] = more]
  BY <1>1 DEF TransferTo
<1> HIDE DEF rest
<1>4. more \in Seq(Frames) /\ more # <<>> /\ Once(more)
      /\ Content(more) = (Content(stack[t]) \ {Top(t)}) \cup {c}
  BY <1>2, PushSeq DEF Entered
<1> HIDE DEF more
<1>5. stack' \in [Threads -> Seq(Frames)]
  BY <1>1, <1>3, <1>4
<1>6. /\ stack'[t] = more
      /\ \A u \in Threads : u # t => stack'[u] = stack[u]
  BY <1>1, <1>3
<1>7. pending' = pending /\ on' = on
  BY DEF TransferTo, queue
<1>8. Entered' = (Entered \ {Top(t)}) \cup {c}
  BY <1>2, <1>4, <1>6 DEF Entered, Unique
<1>9. \A w \in Workers : Taken(w)' <=> Taken(w)
  BY <1>4, <1>6, <1>7 DEF Taken, Threads
<1>10. Held' = Held /\ Queued' = Queued
  BY <1>7, <1>9 DEF Held, Queued
<1>11. \A u \in Threads : Once(stack'[u])
  BY <1>4, <1>6 DEF Unique
<1>12. \A u, v \in Threads : u # v => Content(stack'[u]) \cap Content(stack'[v]) = {}
  BY <1>4, <1>6 DEF Unique, Entered
<1>13. \A w \in Workers : on'[w] = None => stack'[w] = <<>>
  BY <1>4, <1>6, <1>7 DEF Unique, Threads
<1> QED
  BY <1>5, <1>7, <1>8, <1>9, <1>10, <1>11, <1>12, <1>13 DEF Unique

(* A handle is scheduled: it is queued, or lost.                           *)
LEMMA Scheduled ==
  ASSUME TypeOK, Unique, NEW f \in Frames, f \notin Queued, ScheduleHandle(f), UNCHANGED stack
  PROVE  /\ Unique' /\ Entered' = Entered /\ Held' = Held
         /\ \/ Queued' = Queued \cup {f} /\ lost' = lost
            \/ Queued' = Queued /\ lost' = lost \cup {f}
         /\ pending' \in Seq(Frames) /\ on' = on
<1>1. /\ on' = on
      /\ \/ pending' = Append(pending, f) /\ lost' = lost
         \/ pending' = pending /\ lost' = lost \cup {f}
  <2>1. CASE open
    <3>1. Q!Accept(f) /\ UNCHANGED lost
      BY <2>1 DEF ScheduleHandle
    <3>2. pending' = Append(pending, f) /\ UNCHANGED <<on, open, down>>
      BY <3>1, Zenon DEF Q!Accept
    <3>3. on' = on /\ lost' = lost
      BY <3>1, <3>2
    <3> QED
      BY <3>2, <3>3
  <2>2. CASE ~open
    <3>1. lost' = lost \cup {f} /\ UNCHANGED queue
      BY <2>2 DEF ScheduleHandle
    <3> QED
      BY <3>1 DEF queue
  <2> QED
    BY <2>1, <2>2
<1>2. /\ Append(pending, f) \in Seq(Frames) /\ Once(Append(pending, f))
      /\ Content(Append(pending, f)) = Content(pending) \cup {f}
  BY PushSeq DEF TypeOK, Unique, Queued
<1>3. pending' \in Seq(Frames) /\ Once(pending')
  BY <1>1, <1>2 DEF TypeOK, Unique
<1>4. Entered' = Entered /\ Held' = Held /\ \A w \in Workers : Taken(w)' <=> Taken(w)
  BY <1>1 DEF Entered, Held, Taken
<1>5. Unique'
  BY <1>1, <1>3, <1>4 DEF Unique
<1> QED
  BY <1>1, <1>2, <1>3, <1>4, <1>5 DEF Queued

(* A worker takes the oldest handle from the queue.                        *)
LEMMA Delivered ==
  ASSUME TypeOK, Unique, Apart, NEW w \in Workers, Q!Deliver(w), UNCHANGED stack,
         None \notin Frames
  PROVE  \E f \in Queued :
         /\ Unique' /\ Entered' = Entered /\ Queued' = Queued \ {f} /\ Held' = Held \cup {f}
         /\ pending' \in Seq(Frames) /\ on' \in [Workers -> Frames \cup {None}]
<1> DEFINE f == Head(pending)
<1>1. pending \in Seq(Frames) /\ pending # <<>> /\ on \in [Workers -> Frames \cup {None}]
  BY DEF TypeOK, Q!Deliver
<1>2. /\ f \in Content(pending) /\ f \in Frames
      /\ Tail(pending) \in Seq(Frames) /\ Once(Tail(pending))
      /\ Content(Tail(pending)) = Content(pending) \ {f}
  BY <1>1, TailSeq DEF Unique
<1>3. pending' = Tail(pending) /\ on' = [on EXCEPT ![w] = f] /\ on[w] = None
  BY DEF Q!Deliver
<1> HIDE DEF f
<1>4. on' \in [Workers -> Frames \cup {None}] /\ on'[w] = f
      /\ \A v \in Workers : v # w => on'[v] = on[v]
  BY <1>1, <1>2, <1>3
<1>5. stack[w] = <<>> /\ stack' = stack
  BY <1>3 DEF Unique
<1>6. Taken(w)' /\ ~Taken(w) /\ \A v \in Workers : v # w => (Taken(v)' <=> Taken(v))
  BY <1>2, <1>3, <1>4, <1>5 DEF Taken
<1>7. Held' = Held \cup {f}
  BY <1>4, <1>6 DEF Held
<1>8. Entered' = Entered /\ Queued' = Queued \ {f} /\ f \in Queued
  BY <1>2, <1>3 DEF Entered, Queued
<1>9. f \notin Held
  BY <1>8 DEF Apart
<1>10. \A u, v \in Workers : Taken(u)' /\ Taken(v)' /\ on'[u] = on'[v] => u = v
  BY <1>4, <1>6, <1>9 DEF Unique, Held
<1>11. \A v \in Workers : on'[v] = None => stack'[v] = <<>>
  BY <1>4, <1>5 DEF Unique
<1>12. Unique'
  BY <1>2, <1>3, <1>5, <1>10, <1>11 DEF Unique
<1> QED
  BY <1>2, <1>3, <1>4, <1>7, <1>8, <1>12

(* A worker resumes the handle it has taken.                               *)
LEMMA Entering ==
  ASSUME TypeOK, Unique, Apart, NEW w \in Workers, on[w] # None, stack[w] = <<>>,
         stack' = [stack EXCEPT ![w] = <<on[w]>>], UNCHANGED queue
  PROVE  /\ Unique' /\ Entered' = Entered \cup {on[w]} /\ Queued' = Queued
         /\ Held' = Held \ {on[w]} /\ on[w] \in Held /\ on[w] \in Frames
         /\ stack' \in [Threads -> Seq(Frames)]
<1> DEFINE f == on[w]
<1>1. stack \in [Threads -> Seq(Frames)] /\ on \in [Workers -> Frames \cup {None}]
      /\ on' = on /\ pending' = pending
  BY DEF TypeOK, queue
<1>2. f \in Frames /\ Taken(w) /\ f \in Held
  BY <1>1 DEF Taken, Held
<1>3. <<f>> \in Seq(Frames) /\ Once(<<f>>) /\ Content(<<f>>) = {f} /\ <<f>> # <<>>
  BY <1>2 DEF Once, Content
<1>4. w \in Threads /\ f \notin Entered
  BY <1>2 DEF Threads, Apart
<1>5. stack'[w] = <<f>> /\ \A u \in Threads : u # w => stack'[u] = stack[u]
  BY <1>1, <1>4
<1>6. stack' \in [Threads -> Seq(Frames)]
  BY <1>1, <1>3
<1> HIDE DEF f
<1>7. Content(stack[w]) = {}
  BY DEF Content
<1>8. Entered' = Entered \cup {f}
  BY <1>3, <1>4, <1>5, <1>7 DEF Entered
<1>9. ~Taken(w)' /\ \A v \in Workers : v # w => (Taken(v)' <=> Taken(v))
  BY <1>1, <1>3, <1>5 DEF Taken, Threads
<1>10. Held' = Held \ {f}
  BY <1>1, <1>2, <1>9 DEF Held, Unique, f
<1>11. \A u \in Threads : Once(stack'[u])
  BY <1>3, <1>5 DEF Unique
<1>12. \A u, v \in Threads : u # v => Content(stack'[u]) \cap Content(stack'[v]) = {}
  BY <1>3, <1>4, <1>5 DEF Unique, Entered
<1>13. \A v \in Workers : on'[v] = None => stack'[v] = <<>>
  BY <1>1, <1>2, <1>5 DEF Unique, Threads, f, Taken
<1>14. \A u, v \in Workers : Taken(u)' /\ Taken(v)' /\ on'[u] = on'[v] => u = v
  BY <1>1, <1>9 DEF Unique
<1>15. Unique' /\ Queued' = Queued
  BY <1>1, <1>11, <1>12, <1>13, <1>14 DEF Unique, Queued
<1> QED
  BY <1>2, <1>6, <1>8, <1>10, <1>15 DEF f

(* A worker gives up the handle it has taken.                              *)
LEMMA GivenUp ==
  ASSUME TypeOK, Unique, NEW w \in Workers, on[w] # None, stack[w] = <<>>,
         Q!LetGo(w), UNCHANGED stack
  PROVE  /\ Unique' /\ Entered' = Entered /\ Queued' = Queued /\ Held' = Held \ {on[w]}
         /\ on' \in [Workers -> Frames \cup {None}] /\ pending' = pending
<1>1. on \in [Workers -> Frames \cup {None}] /\ on' = [on EXCEPT ![w] = None]
      /\ pending' = pending /\ stack' = stack
  BY DEF TypeOK, Q!LetGo
<1>2. on' \in [Workers -> Frames \cup {None}] /\ on'[w] = None
      /\ \A v \in Workers : v # w => on'[v] = on[v]
  BY <1>1
<1>3. Taken(w) /\ ~Taken(w)' /\ \A v \in Workers : v # w => (Taken(v)' <=> Taken(v))
  BY <1>1, <1>2 DEF Taken
<1>4. Held' = Held \ {on[w]}
  BY <1>2, <1>3 DEF Held, Unique
<1>5. Entered' = Entered /\ Queued' = Queued
  BY <1>1 DEF Entered, Queued
<1>6. Unique'
  BY <1>1, <1>2, <1>3 DEF Unique
<1> QED
  BY <1>1, <1>2, <1>4, <1>5, <1>6

-----------------------------------------------------------------------------
(* What every step starts from.                                            *)
LEMMA Basics ==
  IInv => /\ N \in Nat /\ Root \in Frames /\ Older
          /\ Main \notin Frames /\ Helper \notin Frames /\ None \notin Frames
          /\ Main # Helper /\ Main # None /\ Helper # None
          /\ Main \in Threads /\ Main \notin Workers
          /\ Frames \subseteq Nat
          /\ Entered \subseteq Frames /\ Waiting \subseteq Frames
          /\ \A f \in Frames : continuation[f] \in Frames \cup {None}
<1> SUFFICES ASSUME IInv PROVE Basics!2
  OBVIOUS
<1>1. TypeOK /\ Owners
  BY DEF IInv
<1>2. \A s \in Seq(Frames) : Content(s) \subseteq Frames
  BY DEF Content
<1>3. Entered \subseteq Frames /\ Queued \subseteq Frames /\ Held \subseteq Frames
  <2>1. Entered \subseteq Frames
    <3>1. \A t \in Threads : Content(stack[t]) \subseteq Frames
      <4> TAKE t \in Threads
      <4>1. stack[t] \in Seq(Frames)
        BY <1>1 DEF TypeOK
      <4> QED
        BY <4>1, <1>2
    <3> QED
      BY <3>1 DEF Entered
  <2>2. Queued \subseteq Frames
    BY <1>1, <1>2 DEF TypeOK, Queued
  <2>3. Held \subseteq Frames
    <3>1. \A w \in Workers : Taken(w) => on[w] \in Frames
      BY <1>1 DEF TypeOK, Taken
    <3> QED
      BY <3>1 DEF Held
  <2> QED
    BY <2>1, <2>2, <2>3
<1>4. Waiting \subseteq Frames
  BY <1>1, <1>3 DEF TypeOK, Waiting
<1>5. \A f \in Frames : continuation[f] \in Frames \cup {None}
  BY <1>1 DEF TypeOK
<1> QED
  BY <1>1, <1>3, <1>4, <1>5, FramesAssumption DEF Owners, Older, Frames, Root, Threads

(* A step that touches no stack and no queue.                              *)
LEMMA SamePlaces ==
  ASSUME Unique, UNCHANGED <<stack, pending, on>>
  PROVE  Unique' /\ Entered' = Entered /\ Queued' = Queued /\ Held' = Held
<1>1. stack' = stack /\ pending' = pending /\ on' = on
  OBVIOUS
<1> QED
  BY <1>1 DEF Unique, Entered, Queued, Held, Taken

(* The first step.                                                         *)
LEMMA InitIInv == Init => IInv
<1> SUFFICES ASSUME Init PROVE IInv
  OBVIOUS
<1>0. /\ N \in Nat /\ Root \in Frames /\ None \notin Frames
      /\ Main \notin Frames /\ Helper \notin Frames
      /\ Main # Helper /\ Main # None /\ Helper # None
  BY FramesAssumption DEF Frames, Root
<1>1. TypeOK
  BY <1>0 DEF Init, TypeOK, FrameStates, Q!Init
<1>2. Entered = {} /\ Queued = {} /\ Held = {} /\ armed = {} /\ lost = {}
  BY DEF Init, Entered, Queued, Content, Held, Taken, Q!Init
<1>3. Unique
  <2>1. pending = <<>> /\ on = [w \in Workers |-> None] /\ stack = [t \in Threads |-> <<>>]
    BY DEF Init, Q!Init
  <2>2. Once(<<>>) /\ Content(<<>>) = {}
    BY DEF Once, Content
  <2> QED
    BY <2>1, <2>2 DEF Unique, Taken, Threads
<1>4. Apart /\ InPlace /\ NoneDead
  BY <1>0, <1>2 DEF Init, Apart, InPlace, NoneDead, Waiting
<1>5. Owners /\ Promises /\ Awaiters
  BY <1>0 DEF Init, Owners, Promises, Awaiters, Frames, Root
<1>6. RootTask /\ UsedAlive
  BY <1>0 DEF Init, RootTask, UsedAlive
<1> QED
  BY <1>1, <1>3, <1>4, <1>5, <1>6 DEF IInv

-----------------------------------------------------------------------------
(* Every action keeps the invariant.                                       *)

(* A new frame is in no place and is owned by its caller.                  *)
LEMMA CreateStep ==
  ASSUME IInv, NEW t \in Threads, NEW f \in Frames, NEW c \in Frames, Create(t, f, c)
  PROVE  IInv'
<1>0. /\ TypeOK /\ Unique /\ Apart /\ InPlace /\ NoneDead
      /\ Owners /\ Promises /\ Awaiters /\ RootTask /\ UsedAlive
  BY DEF IInv
<1> HIDE DEF IInv
<1> USE Basics
<1>1. /\ state[f] = "running" /\ state[c] = "unborn"
      /\ state' = [state EXCEPT ![c] = "fresh"] /\ owner' = [owner EXCEPT ![c] = f]
      /\ UNCHANGED <<continuation, detached, result, ending, stack, armed, suspends, outside,
                     lost, misuse, queue>>
      /\ \A g \in 1 .. c - 1 : state[g] # "unborn"
  BY DEF Create, Executes
<1>2. TypeOK'
  BY <1>0, <1>1 DEF TypeOK, FrameStates, outside, queue
<1>3. /\ state'[c] = "fresh" /\ \A g \in Frames : g # c => state'[g] = state[g]
      /\ owner'[c] = f /\ \A g \in Frames : g # c => owner'[g] = owner[g]
      /\ continuation' = continuation /\ detached' = detached /\ result' = result
      /\ ending' = ending /\ void' = void /\ call' = call /\ helper' = helper
      /\ answer' = answer /\ misuse' = misuse /\ armed' = armed /\ lost' = lost
  BY <1>0, <1>1 DEF TypeOK, outside
<1>4. f < c
  BY <1>0, <1>1 DEF Owners
<1>5. Unique' /\ Entered' = Entered /\ Queued' = Queued /\ Held' = Held
  BY <1>0, <1>1, SamePlaces DEF queue
<1>6. Waiting' = Waiting /\ c \notin Entered /\ c \notin Waiting
  BY <1>0, <1>1, <1>3, <1>5 DEF Waiting, InPlace
<1>7. Apart'
  BY <1>0, <1>3, <1>5 DEF Apart
<1>8. InPlace' /\ NoneDead'
  BY <1>0, <1>1, <1>3, <1>5, <1>6 DEF InPlace, NoneDead
<1>9. Owners'
  BY <1>0, <1>1, <1>3, <1>4 DEF Owners, Promises
<1>10. Promises'
  BY <1>0, <1>1, <1>3 DEF Promises, Outcome, ReadVoid, ReadResult
<1>11. Awaiters'
  BY <1>0, <1>1, <1>3 DEF Awaiters, Promises
<1>12. RootTask' /\ UsedAlive'
  BY <1>0, <1>1, <1>3 DEF RootTask, UsedAlive
<1> QED
  BY <1>2, <1>5, <1>7, <1>8, <1>9, <1>10, <1>11, <1>12 DEF IInv

(* The caller leaves the stack for the task it awaits.                     *)
LEMMA AwaitStep ==
  ASSUME IInv, NEW t \in Threads, NEW f \in Frames, NEW c \in Frames, Await(t, f, c)
  PROVE  IInv'
<1>0. /\ TypeOK /\ Unique /\ Apart /\ InPlace /\ NoneDead
      /\ Owners /\ Promises /\ Awaiters /\ RootTask /\ UsedAlive
  BY DEF IInv
<1> USE Basics
<1>1. /\ stack[t] # <<>> /\ Top(t) = f /\ state[f] = "running" /\ Awaited(f) = {}
      /\ owner[c] = f /\ state[c] = "fresh" /\ c # f
      /\ continuation' = [continuation EXCEPT ![c] = f]
      /\ state' = [state EXCEPT ![f] = "awaiting", ![c] = "running"]
      /\ TransferTo(t, c)
      /\ UNCHANGED <<owner, detached, result, ending, armed, suspends, outside, lost, misuse>>
  BY DEF Await, Executes, Inside
<1>2. /\ state[f] = "running" /\ owner[c] = f /\ state[c] = "fresh" /\ c # f
      /\ state'[f] = "awaiting" /\ state'[c] = "running"
      /\ \A g \in Frames : g # c /\ g # f => state'[g] = state[g]
      /\ continuation'[c] = f
      /\ \A g \in Frames : g # c => continuation'[g] = continuation[g]
      /\ owner' = owner /\ detached' = detached /\ result' = result
      /\ ending' = ending /\ void' = void /\ call' = call /\ helper' = helper
      /\ answer' = answer /\ misuse' = misuse /\ armed' = armed /\ lost' = lost
  BY <1>0, <1>1 DEF TypeOK, outside
<1>3. c # Root /\ f \in Entered /\ c \notin Entered /\ c \notin Waiting
  BY <1>0, <1>1, TopEntered DEF RootTask, InPlace
<1>4. /\ Unique' /\ Entered' = (Entered \ {f}) \cup {c} /\ Queued' = Queued /\ Held' = Held
      /\ stack' \in [Threads -> Seq(Frames)]
  BY <1>0, <1>1, <1>3, Transferred
<1>5. pending' = pending /\ on' = on
  BY <1>1 DEF TransferTo, queue
<1>6. TypeOK'
  BY <1>0, <1>1, <1>4, <1>5 DEF TypeOK, FrameStates, outside
<1>7. Waiting' = Waiting
  BY <1>2, <1>4 DEF Waiting
<1>8. Apart'
  BY <1>0, <1>2, <1>3, <1>4 DEF Apart, Waiting
<1>9. InPlace'
  <2>1. f \notin Waiting
    BY <1>0, <1>3 DEF Apart, Waiting
  <2> QED
    BY <1>0, <1>2, <1>3, <1>4, <1>7, <2>1 DEF InPlace
<1>10. NoneDead'
  BY <1>0, <1>2, <1>4, <1>7 DEF NoneDead
<1>11. Owners'
  BY <1>0, <1>2 DEF Owners, Promises
<1>12. Promises'
  <2>1. \A g \in Frames : Outcome(g)' = Outcome(g)
    BY <1>2 DEF Outcome, ReadVoid, ReadResult
  <2> QED
    BY <1>0, <1>2, <1>3, <2>1 DEF Promises
<1>13. Awaiters'
  <2>1. \A g \in Frames : continuation[g] = f => state[g] = "dead"
    BY <1>0, <1>1 DEF Awaited, Awaiters
  <2>2. \A g \in Frames : continuation[g] = c => state[g] = "dead"
    BY <1>0, <1>2 DEF Awaiters
  <2>3. continuation[c] = None
    BY <1>0, <1>2 DEF Promises
  <2> QED
    BY <1>0, <1>2, <2>1, <2>2, <2>3 DEF Awaiters
<1>14. RootTask' /\ UsedAlive'
  BY <1>0, <1>2, <1>3 DEF RootTask, UsedAlive
<1> QED
  BY <1>4, <1>6, <1>8, <1>9, <1>10, <1>11, <1>12, <1>13, <1>14 DEF IInv

(* A detached frame is owned by nobody and runs in its caller.             *)
LEMMA DetachStep ==
  ASSUME IInv, NEW t \in Threads, NEW f \in Frames, NEW c \in Frames,
         \/ DetachChild(t, f, c)
         \/ DetachRoot /\ t = Main /\ c = Root
  PROVE  IInv'
<1>0. /\ TypeOK /\ Unique /\ Apart /\ InPlace /\ NoneDead
      /\ Owners /\ Promises /\ Awaiters /\ RootTask /\ UsedAlive
  BY DEF IInv
<1> USE Basics
<1>1. /\ Detach(t, c)
      /\ t = Main \/ stack[t] # <<>>
      /\ \/ owner[c] \in Frames /\ call' = call
         \/ c = Root /\ call = "none" /\ call' = "detach"
  BY DEF DetachChild, DetachRoot, Executes, Inside
<1>2. /\ state[c] = "fresh" /\ detached' = [detached EXCEPT ![c] = TRUE]
      /\ stack' = [stack EXCEPT ![t] = Append(@, c)]
      /\ state' = [state EXCEPT ![c] = "running"]
      /\ owner' = [owner EXCEPT ![c] = None]
      /\ UNCHANGED <<continuation, result, ending, armed, suspends, void, helper, answer,
                     lost, misuse, queue>>
  BY <1>1 DEF Detach
<1>3. /\ state'[c] = "running" /\ \A g \in Frames : g # c => state'[g] = state[g]
      /\ owner'[c] = None /\ \A g \in Frames : g # c => owner'[g] = owner[g]
      /\ detached'[c] = TRUE /\ \A g \in Frames : g # c => detached'[g] = detached[g]
      /\ continuation' = continuation /\ result' = result
      /\ ending' = ending /\ void' = void /\ helper' = helper
      /\ answer' = answer /\ misuse' = misuse /\ armed' = armed /\ lost' = lost
  BY <1>0, <1>2 DEF TypeOK
<1>4. c \notin Entered /\ c \notin Waiting
  BY <1>0, <1>1, <1>2 DEF RootTask, InPlace
<1>5. /\ Unique' /\ Entered' = Entered \cup {c} /\ Queued' = Queued /\ Held' = Held
      /\ stack' \in [Threads -> Seq(Frames)]
  BY <1>0, <1>1, <1>2, <1>4, Pushed
<1>6. TypeOK'
  BY <1>0, <1>1, <1>2, <1>5 DEF TypeOK, FrameStates, queue
<1>7. Waiting' = Waiting
  BY <1>3, <1>5 DEF Waiting
<1>8. Apart'
  BY <1>0, <1>3, <1>4, <1>5 DEF Apart, Waiting
<1>9. call' # "async_run" => call # "async_run"
  BY <1>1
<1>10. InPlace' /\ NoneDead'
  BY <1>0, <1>1, <1>2, <1>3, <1>4, <1>5, <1>7, <1>9 DEF InPlace, NoneDead
<1>11. Owners'
  BY <1>0, <1>1, <1>2, <1>3 DEF Owners
<1>12. Promises'
  BY <1>0, <1>1, <1>2, <1>3 DEF Promises, Outcome, ReadVoid, ReadResult
<1>13. Awaiters'
  BY <1>0, <1>1, <1>2, <1>3 DEF Awaiters, Promises
<1>14. RootTask'
  <2>1. CASE c = Root
    <3>1. call = "none" /\ call' = "detach" /\ helper = "idle"
      BY <1>0, <1>1, <2>1 DEF Owners, RootTask
    <3> QED
      BY <1>0, <1>3, <2>1, <3>1 DEF RootTask
  <2>2. CASE c # Root
    <3>1. call' = call
      BY <1>1, <2>2
    <3> QED
      BY <1>0, <1>3, <2>2, <3>1 DEF RootTask
  <2> QED
    BY <2>1, <2>2
<1>15. UsedAlive'
  BY <1>0, <1>1, <1>3 DEF RootTask, UsedAlive
<1> QED
  BY <1>5, <1>6, <1>8, <1>10, <1>11, <1>12, <1>13, <1>14, <1>15 DEF IInv

(* Frames that own nothing are destroyed, and were not before.              *)
LEMMA DestroyAlone ==
  ASSUME IInv, NEW S \in SUBSET Frames, NEW before, DestroyAll(S, before),
         \A g \in Frames : owner[g] \notin S, \A g \in S : state[g] # "dead"
  PROVE  /\ state' = [g \in Frames |-> IF g \in S THEN "dead" ELSE before[g]]
         /\ owner' = [g \in Frames |-> IF g \in S THEN None ELSE owner[g]]
         /\ misuse' = misuse
<1>1. Destroyed(S) = S
  BY Basics, DestroyedAlone
<1> QED
  BY <1>1 DEF DestroyAll

(* A temporary task object destroys a child that is done.                  *)
LEMMA TakeResultStep ==
  ASSUME IInv, NEW t \in Threads, NEW f \in Frames, NEW c \in Frames, TakeResult(t, f, c)
  PROVE  IInv'
<1>0. /\ TypeOK /\ Unique /\ Apart /\ InPlace /\ NoneDead
      /\ Owners /\ Promises /\ Awaiters /\ RootTask /\ UsedAlive
  BY DEF IInv
<1> USE Basics
<1>1. /\ owner[c] = f /\ continuation[c] = f /\ state[c] = "done"
      /\ DestroyAll({c}, state)
      /\ UNCHANGED <<continuation, detached, result, ending, stack, armed, suspends, outside,
                     lost, queue>>
  BY DEF TakeResult, Awaited
<1>2. /\ state' = [g \in Frames |-> IF g \in {c} THEN "dead" ELSE state[g]]
      /\ owner' = [g \in Frames |-> IF g \in {c} THEN None ELSE owner[g]]
      /\ misuse' = misuse
  <2>1. {c} \in SUBSET Frames /\ \A g \in {c} : state[g] # "dead"
    BY <1>1
  <2>2. \A g \in Frames : owner[g] \notin {c}
    BY <1>0, <1>1 DEF Owners
  <2> QED
    BY <1>1, <2>1, <2>2, DestroyAlone
<1>3. /\ owner[c] = f /\ continuation[c] = f /\ state[c] = "done"
      /\ state'[c] = "dead" /\ \A g \in Frames : g # c => state'[g] = state[g]
      /\ owner'[c] = None /\ \A g \in Frames : g # c => owner'[g] = owner[g]
      /\ continuation' = continuation /\ detached' = detached /\ result' = result
      /\ ending' = ending /\ void' = void /\ call' = call /\ helper' = helper
      /\ answer' = answer /\ armed' = armed /\ lost' = lost
  BY <1>0, <1>1, <1>2 DEF outside
<1>4. TypeOK'
  BY <1>0, <1>1, <1>2 DEF TypeOK, FrameStates, outside, queue
<1>5. Unique' /\ Entered' = Entered /\ Queued' = Queued /\ Held' = Held
  BY <1>0, <1>1, SamePlaces DEF queue
<1>6. Waiting' = Waiting /\ c \notin Entered /\ c \notin Waiting
  BY <1>0, <1>1, <1>3, <1>5 DEF Waiting, InPlace
<1>7. Apart'
  BY <1>0, <1>3, <1>5 DEF Apart
<1>8. InPlace' /\ NoneDead'
  <2>1. InPlace'
    BY <1>0, <1>3, <1>5, <1>6 DEF InPlace
  <2>2. NoneDead'
    BY <1>0, <1>3, <1>5, <1>6 DEF NoneDead
  <2> QED
    BY <2>1, <2>2
<1>9. Owners'
  BY <1>0, <1>1, <1>3 DEF Owners
<1>10. Promises'
  BY <1>0, <1>1, <1>3 DEF Promises, Outcome, ReadVoid, ReadResult
<1>11. Awaiters'
  <2>1. \A g \in Frames : continuation[g] = c => state[g] = "dead"
    BY <1>0, <1>3 DEF Awaiters
  <2>2. \A p \in Frames : state[p] = "awaiting" => continuation[c] # p
    BY <1>0, <1>3 DEF Awaiters
  <2> QED
    BY <1>0, <1>3, <2>1, <2>2 DEF Awaiters
<1>12. RootTask' /\ UsedAlive'
  BY <1>0, <1>1, <1>2, <1>3 DEF RootTask, UsedAlive
<1> QED
  BY <1>4, <1>5, <1>7, <1>8, <1>9, <1>10, <1>11, <1>12 DEF IInv

(* A suspended frame leaves the stack and is armed.                        *)
LEMMA SuspendStep ==
  ASSUME IInv, NEW t \in Threads, NEW f \in Frames, Suspend(t, f)
  PROVE  IInv'
<1>0. /\ TypeOK /\ Unique /\ Apart /\ InPlace /\ NoneDead
      /\ Owners /\ Promises /\ Awaiters /\ RootTask /\ UsedAlive
  BY DEF IInv
<1> USE Basics
<1>1. /\ stack[t] # <<>> /\ Top(t) = f /\ state[f] = "running"
      /\ state' = [state EXCEPT ![f] = "suspended"] /\ armed' = armed \cup {f}
      /\ Leave(t) /\ UNCHANGED <<promise, outside, lost, misuse>>
  BY DEF Suspend, Executes, Inside
<1>2. /\ state'[f] = "suspended" /\ \A g \in Frames : g # f => state'[g] = state[g]
      /\ owner' = owner /\ continuation' = continuation /\ detached' = detached
      /\ result' = result /\ ending' = ending /\ void' = void /\ call' = call
      /\ helper' = helper /\ answer' = answer /\ misuse' = misuse /\ lost' = lost
  BY <1>0, <1>1 DEF TypeOK, outside, promise
<1>3. f \in Entered
  BY <1>0, <1>1, TopEntered
<1>4. /\ Unique' /\ Entered' = Entered \ {f} /\ Queued' = Queued /\ Held' = Held
      /\ stack' \in [Threads -> Seq(Frames)] /\ on' \in [Workers -> Frames \cup {None}]
      /\ pending' = pending
  BY <1>0, <1>1, Left
<1>5. TypeOK'
  <2>1. state' \in [Frames -> FrameStates] /\ armed' \in SUBSET Frames
    BY <1>0, <1>1 DEF TypeOK, FrameStates
  <2> QED
    BY <1>0, <1>2, <1>4, <2>1 DEF TypeOK
<1>6. Waiting' = Waiting \cup {f}
  BY <1>1, <1>2, <1>4 DEF Waiting
<1>7. Apart'
  BY <1>0, <1>1, <1>2, <1>3, <1>4 DEF Apart
<1>8. InPlace' /\ NoneDead'
  BY <1>0, <1>1, <1>2, <1>3, <1>4, <1>6 DEF InPlace, NoneDead
<1>9. Owners'
  BY <1>0, <1>1, <1>2 DEF Owners
<1>10. Promises'
  BY <1>0, <1>1, <1>2 DEF Promises, Outcome, ReadVoid, ReadResult
<1>11. Awaiters'
  <2>1. \A c \in Frames : continuation[c] = f => state[c] = "dead"
    BY <1>0, <1>1 DEF Suspend, Executes, Awaited, Awaiters
  <2> QED
    BY <1>0, <1>1, <1>2, <2>1 DEF Awaiters
<1>12. RootTask' /\ UsedAlive'
  BY <1>0, <1>1, <1>2 DEF RootTask, UsedAlive
<1> QED
  BY <1>4, <1>5, <1>7, <1>8, <1>9, <1>10, <1>11, <1>12 DEF IInv

(* An armed handle is queued, or lost.                                     *)
LEMMA WakeStep ==
  ASSUME IInv, NEW f \in Frames, Wake(f)
  PROVE  IInv'
<1>0. /\ TypeOK /\ Unique /\ Apart /\ InPlace /\ NoneDead
      /\ Owners /\ Promises /\ Awaiters /\ RootTask /\ UsedAlive
  BY DEF IInv
<1> USE Basics
<1>1. /\ f \in armed /\ armed' = armed \ {f} /\ ScheduleHandle(f)
      /\ UNCHANGED <<state, promise, stack, suspends, outside, misuse>>
  BY DEF Wake
<1>2. /\ state' = state /\ owner' = owner /\ continuation' = continuation
      /\ detached' = detached /\ result' = result /\ ending' = ending /\ void' = void
      /\ call' = call /\ helper' = helper /\ answer' = answer /\ misuse' = misuse
  BY <1>1 DEF outside, promise
<1>3. f \notin Queued
  BY <1>0, <1>1 DEF Apart
<1>4. /\ Unique' /\ Entered' = Entered /\ Held' = Held
      /\ \/ Queued' = Queued \cup {f} /\ lost' = lost
         \/ Queued' = Queued /\ lost' = lost \cup {f}
      /\ pending' \in Seq(Frames) /\ on' = on
  BY <1>0, <1>1, <1>3, Scheduled
<1>5. TypeOK'
  <2>1. armed' \in SUBSET Frames /\ lost' \in SUBSET Frames
    BY <1>0, <1>1, <1>4 DEF TypeOK
  <2> QED
    BY <1>0, <1>1, <1>2, <1>4, <2>1 DEF TypeOK
<1>6. Waiting' = Waiting
  BY <1>1, <1>4 DEF Waiting
<1>7. Apart'
  BY <1>0, <1>1, <1>4 DEF Apart
<1>8. InPlace' /\ NoneDead'
  BY <1>0, <1>2, <1>4, <1>6 DEF InPlace, NoneDead
<1>9. Owners' /\ Promises' /\ Awaiters'
  BY <1>0, <1>2 DEF Owners, Promises, Awaiters, Outcome, ReadVoid, ReadResult
<1>10. RootTask' /\ UsedAlive'
  BY <1>0, <1>2 DEF RootTask, UsedAlive
<1> QED
  BY <1>4, <1>5, <1>7, <1>8, <1>9, <1>10 DEF IInv

(* The end of a body destroys the tasks that it never started.             *)
LEMMA BodyEndsStep ==
  ASSUME IInv, NEW t \in Threads, NEW f \in Frames, NEW r \in {"value", "error"},
         BodyEnds(t, f, r)
  PROVE  IInv'
<1>0. /\ TypeOK /\ Unique /\ Apart /\ InPlace /\ NoneDead
      /\ Owners /\ Promises /\ Awaiters /\ RootTask /\ UsedAlive
  BY DEF IInv
<1> USE Basics
<1> DEFINE S == {c \in Frames : owner[c] = f}
<1>1. /\ stack[t] # <<>> /\ Top(t) = f /\ state[f] = "running" /\ Awaited(f) = {}
      /\ result' = IF void THEN StoreVoid(f, r) ELSE StoreValue(f, r)
      /\ ending' = [ending EXCEPT ![f] = r]
      /\ DestroyAll(S, [state EXCEPT ![f] = "final"])
      /\ UNCHANGED <<continuation, detached, stack, armed, suspends, outside, lost, queue>>
  BY DEF BodyEnds, Executes, Inside
(* What the body has left is tasks that it never started.                  *)
<1>2. \A c \in S : state[c] = "fresh" /\ c # Root /\ c # f
  <2>1. \A c \in S : owner[c] \in Frames /\ c # f /\ c # Root
    BY <1>0 DEF Owners, RootTask
  <2>2. \A c \in S : state[c] = "fresh" \/ continuation[c] = f
    BY <1>0 DEF Owners
  <2>3. \A c \in S : state[c] # "dead" /\ state[c] # "done"
    BY <1>0, <1>1, <2>1, <2>2 DEF Owners, Awaited
  <2> QED
    BY <1>0, <1>1, <2>1, <2>2, <2>3 DEF Awaiters
<1>3. /\ state' = [g \in Frames |-> IF g \in S THEN "dead"
                                    ELSE [state EXCEPT ![f] = "final"][g]]
      /\ owner' = [g \in Frames |-> IF g \in S THEN None ELSE owner[g]]
      /\ misuse' = misuse
  <2>1. S \in SUBSET Frames /\ \A g \in S : state[g] # "dead"
    BY <1>2
  <2>2. \A g \in Frames : owner[g] \notin S
    BY <1>0, <1>2 DEF Owners
  <2> QED
    BY <1>1, <2>1, <2>2, DestroyAlone
<1>4. \A g \in Frames : g \in S <=> owner[g] = f
  OBVIOUS
<1> HIDE DEF S
<1>5. /\ state[f] = "running"
      /\ state'[f] = "final" /\ \A g \in S : state'[g] = "dead"
      /\ \A g \in Frames : g # f /\ g \notin S => state'[g] = state[g]
      /\ \A g \in S : owner'[g] = None
      /\ \A g \in Frames : g \notin S => owner'[g] = owner[g]
      /\ ending'[f] = r /\ \A g \in Frames : g # f => ending'[g] = ending[g]
      /\ continuation' = continuation /\ detached' = detached
      /\ void' = void /\ call' = call /\ helper' = helper
      /\ answer' = answer /\ armed' = armed /\ lost' = lost
  <2>1. f \notin S
    BY <1>2
  <2>2. \A g \in Frames : [state EXCEPT ![f] = "final"][g] = IF g = f THEN "final" ELSE state[g]
    BY <1>0 DEF TypeOK
  <2>3. S \subseteq Frames
    BY DEF S
  <2>4. ending'[f] = r /\ \A g \in Frames : g # f => ending'[g] = ending[g]
    BY <1>0, <1>1 DEF TypeOK
  <2> QED
    BY <1>1, <1>3, <2>1, <2>2, <2>3, <2>4 DEF outside
<1>6. /\ result' \in [Frames -> {"none", "value", "error"}]
      /\ \A g \in Frames : g # f => result'[g] = result[g]
      /\ Outcome(f)' = r
  <2>1. result \in [Frames -> {"none", "value", "error"}] /\ result[f] = "none"
    BY <1>0, <1>5 DEF TypeOK, Promises
  <2>2. CASE void
    <3>1. result' = IF r = "error" THEN [result EXCEPT ![f] = r] ELSE result
      BY <1>1, <2>2 DEF StoreVoid
    <3>2. void'
      BY <1>5, <2>2
    <3> QED
      BY <2>1, <3>1, <3>2 DEF Outcome, ReadVoid
  <2>3. CASE ~void
    <3>1. result' = [result EXCEPT ![f] = r]
      BY <1>1, <2>3 DEF StoreValue
    <3>2. ~void'
      BY <1>5, <2>3
    <3> QED
      BY <2>1, <3>1, <3>2 DEF Outcome, ReadResult
  <2> QED
    BY <2>2, <2>3
<1>7. TypeOK'
  <2>1. state' \in [Frames -> FrameStates]
    BY <1>0, <1>3 DEF TypeOK, FrameStates
  <2>2. owner' \in [Frames -> Frames \cup {Main, Helper, None}]
    BY <1>0, <1>3 DEF TypeOK
  <2>3. ending' \in [Frames -> {"none", "value", "error"}]
    BY <1>0, <1>1 DEF TypeOK
  <2>4. /\ stack' = stack /\ pending' = pending /\ on' = on
        /\ armed' = armed /\ lost' = lost /\ misuse' = misuse
    BY <1>1, <1>3 DEF queue
  <2> QED
    BY <1>0, <1>5, <1>6, <2>1, <2>2, <2>3, <2>4 DEF TypeOK
<1>8. Unique' /\ Entered' = Entered /\ Queued' = Queued /\ Held' = Held
  BY <1>0, <1>1, SamePlaces DEF queue
<1>9. f \in Entered /\ \A g \in S : g \notin Entered /\ g \notin Waiting
  BY <1>0, <1>1, <1>2, <1>4, TopEntered DEF InPlace
<1>10. Waiting' = Waiting /\ f \notin Waiting
  BY <1>0, <1>5, <1>8, <1>9 DEF Waiting, Apart
<1>11. Apart'
  BY <1>0, <1>5, <1>8 DEF Apart
<1>12. InPlace' /\ NoneDead'
  <2>1. \A g \in S : state[g] = "fresh"
    BY <1>2
  <2>2. InPlace'
    BY <1>0, <1>5, <1>8, <1>9, <1>10, <2>1 DEF InPlace
  <2>3. \A g \in Entered \cup Waiting : state'[g] = "dead" => state[g] = "dead" /\ g # f
    BY <1>0, <1>5, <1>9, <1>10
  <2>4. NoneDead'
    BY <1>0, <1>5, <1>8, <1>9, <1>10, <2>1, <2>3 DEF NoneDead
  <2> QED
    BY <2>2, <2>4
<1>13. Owners'
  BY <1>0, <1>1, <1>2, <1>4, <1>5 DEF Owners, Promises
<1>14. Promises'
  <2>1. \A g \in Frames : g # f => Outcome(g)' = Outcome(g)
    BY <1>5, <1>6 DEF Outcome, ReadVoid, ReadResult
  <2> QED
    BY <1>0, <1>1, <1>2, <1>4, <1>5, <1>6, <2>1 DEF Promises
<1>15. Awaiters'
  <2>1. \A c \in Frames : continuation[c] = f => state[c] = "dead"
    BY <1>0, <1>1 DEF Awaited, Awaiters
  <2>2. S \subseteq Frames
    BY DEF S
  <2>3. \A c \in S : continuation[c] = None /\ \A g \in Frames : continuation[g] = c => state[g] = "dead"
    BY <1>0, <1>2, <2>2 DEF Promises, Awaiters
  <2> QED
    BY <1>0, <1>5, <2>1, <2>2, <2>3 DEF Awaiters
<1>16. RootTask' /\ UsedAlive'
  <2>1. f = Root /\ call # "async_run" => helper \notin {"leaving", "ended"}
    BY <1>0, <1>1 DEF RootTask, Owners
  <2> QED
    BY <1>0, <1>1, <1>2, <1>3, <1>4, <1>5, <2>1 DEF RootTask, UsedAlive
<1> QED
  BY <1>7, <1>8, <1>11, <1>12, <1>13, <1>14, <1>15, <1>16 DEF IInv

(* A detached frame destroys itself when it leaves the stack.              *)
LEMMA DestroyItselfStep ==
  ASSUME IInv, NEW t \in Threads, NEW f \in Frames, Inside(t, f), state[f] = "final",
         DestroyItself(t, f),
         UNCHANGED <<continuation, detached, result, ending, armed, suspends, outside, lost>>
  PROVE  IInv'
<1>0. /\ TypeOK /\ Unique /\ Apart /\ InPlace /\ NoneDead
      /\ Owners /\ Promises /\ Awaiters /\ RootTask /\ UsedAlive
  BY DEF IInv
<1> USE Basics
<1>1. /\ stack[t] # <<>> /\ Top(t) = f /\ detached[f] /\ DestroyAll({f}, state) /\ Leave(t)
  BY DEF Inside, DestroyItself
<1>2. /\ state' = [g \in Frames |-> IF g \in {f} THEN "dead" ELSE state[g]]
      /\ owner' = [g \in Frames |-> IF g \in {f} THEN None ELSE owner[g]]
      /\ misuse' = misuse
  <2>1. {f} \in SUBSET Frames /\ \A g \in {f} : state[g] # "dead"
    OBVIOUS
  <2>2. \A g \in Frames : owner[g] \notin {f}
    BY <1>0 DEF Owners
  <2> QED
    BY <1>1, <2>1, <2>2, DestroyAlone
<1>3. /\ state[f] = "final" /\ detached[f]
      /\ state'[f] = "dead" /\ \A g \in Frames : g # f => state'[g] = state[g]
      /\ owner'[f] = None /\ \A g \in Frames : g # f => owner'[g] = owner[g]
      /\ continuation' = continuation /\ detached' = detached /\ result' = result
      /\ ending' = ending /\ void' = void /\ call' = call /\ helper' = helper
      /\ answer' = answer /\ misuse' = misuse /\ armed' = armed /\ lost' = lost
  BY <1>1, <1>2 DEF outside
<1>4. f \in Entered
  BY <1>0, <1>1, TopEntered
<1>5. /\ Unique' /\ Entered' = Entered \ {f} /\ Queued' = Queued /\ Held' = Held
      /\ stack' \in [Threads -> Seq(Frames)] /\ on' \in [Workers -> Frames \cup {None}]
      /\ pending' = pending
  BY <1>0, <1>1, Left
<1>6. TypeOK'
  <2>1. state' \in [Frames -> FrameStates]
    BY <1>0, <1>2 DEF TypeOK, FrameStates
  <2>2. owner' \in [Frames -> Frames \cup {Main, Helper, None}]
    BY <1>0, <1>2 DEF TypeOK
  <2> QED
    BY <1>0, <1>3, <1>5, <2>1, <2>2 DEF TypeOK
<1>7. Waiting' = Waiting /\ f \notin Waiting
  BY <1>0, <1>3, <1>4, <1>5 DEF Waiting, Apart
<1>8. Apart'
  BY <1>0, <1>3, <1>5 DEF Apart
<1>9. InPlace'
  BY <1>0, <1>3, <1>5, <1>7 DEF InPlace
<1>10. NoneDead'
  <2>1. \A g \in Entered' \cup Waiting' : g \in Entered \cup Waiting /\ g # f /\ state'[g] = state[g]
    BY <1>3, <1>5, <1>7
  <2>2. \A g \in Entered : g # f => g \in Entered'
    BY <1>5
  <2> QED
    BY <1>0, <1>3, <2>1, <2>2 DEF NoneDead
<1>11. Owners'
  BY <1>0, <1>3 DEF Owners
<1>12. Promises'
  <2>1. \A g \in Frames : Outcome(g)' = Outcome(g)
    BY <1>3 DEF Outcome, ReadVoid, ReadResult
  <2> QED
    BY <1>0, <1>3, <2>1 DEF Promises
<1>13. Awaiters'
  <2>1. \A g \in Frames : continuation[g] = f => state[g] = "dead"
    BY <1>0, <1>3 DEF Awaiters
  <2>2. continuation[f] = None
    BY <1>0, <1>3 DEF Promises
  <2> QED
    BY <1>0, <1>3, <2>1, <2>2 DEF Awaiters
<1>14. RootTask' /\ UsedAlive'
  BY <1>0, <1>3 DEF RootTask, UsedAlive
<1> QED
  BY <1>5, <1>6, <1>8, <1>9, <1>10, <1>11, <1>12, <1>13, <1>14 DEF IInv

(* The final awaiter resumes the frame that awaits this one.               *)
LEMMA ResumeContinuationStep ==
  ASSUME IInv, NEW t \in Threads, NEW f \in Frames, Inside(t, f), state[f] = "final",
         ResumeContinuation(t, f),
         UNCHANGED <<continuation, detached, result, ending, armed, suspends, outside, lost>>
  PROVE  IInv'
<1>0. /\ TypeOK /\ Unique /\ Apart /\ InPlace /\ NoneDead
      /\ Owners /\ Promises /\ Awaiters /\ RootTask /\ UsedAlive
  BY DEF IInv
<1> USE Basics
<1> DEFINE p == continuation[f]
<1>1. /\ stack[t] # <<>> /\ Top(t) = f /\ ~detached[f] /\ p # None
      /\ state' = [state EXCEPT ![f] = "done", ![p] = "running"]
      /\ TransferTo(t, p) /\ UNCHANGED <<owner, misuse>>
  BY DEF Inside, ResumeContinuation
<1>2. p \in Frames /\ state[p] = "awaiting" /\ owner[f] = p /\ p # f
  BY <1>0, <1>1 DEF Awaiters
<1>3. /\ state[f] = "final" /\ ~detached[f] /\ continuation[f] = p
      /\ state'[f] = "done" /\ state'[p] = "running"
      /\ \A g \in Frames : g # f /\ g # p => state'[g] = state[g]
      /\ owner' = owner
      /\ continuation' = continuation /\ detached' = detached /\ result' = result
      /\ ending' = ending /\ void' = void /\ call' = call /\ helper' = helper
      /\ answer' = answer /\ misuse' = misuse /\ armed' = armed /\ lost' = lost
  BY <1>0, <1>1, <1>2 DEF outside, TypeOK
<1> HIDE DEF p
<1>4. f \in Entered /\ p \notin Entered /\ p \notin Waiting
  <2>1. f \in Entered
    BY <1>0, <1>1, TopEntered
  <2>2. p \notin Entered /\ p \notin Waiting
    BY <1>0, <1>2 DEF InPlace
  <2> QED
    BY <2>1, <2>2
<1>5. /\ Unique' /\ Entered' = (Entered \ {f}) \cup {p} /\ Queued' = Queued /\ Held' = Held
      /\ stack' \in [Threads -> Seq(Frames)]
  BY <1>0, <1>1, <1>2, <1>4, Transferred
<1>6. TypeOK'
  <2>1. state' \in [Frames -> FrameStates]
    BY <1>0, <1>1, <1>2 DEF TypeOK, FrameStates
  <2>2. pending' = pending /\ on' = on
    BY <1>1 DEF TransferTo, queue
  <2> QED
    BY <1>0, <1>3, <1>5, <2>1, <2>2 DEF TypeOK
<1>7. Waiting' = Waiting /\ f \notin Waiting
  BY <1>0, <1>3, <1>4, <1>5 DEF Waiting, Apart
<1>8. Apart'
  BY <1>0, <1>3, <1>4, <1>5 DEF Apart, Waiting
<1>9. InPlace'
  BY <1>0, <1>2, <1>3, <1>4, <1>5, <1>7 DEF InPlace
<1>10. NoneDead'
  BY <1>0, <1>2, <1>3, <1>5, <1>7 DEF NoneDead
<1>11. Owners'
  BY <1>0, <1>2, <1>3 DEF Owners
<1>12. Promises'
  <2>1. \A g \in Frames : Outcome(g)' = Outcome(g)
    BY <1>3 DEF Outcome, ReadVoid, ReadResult
  <2> QED
    BY <1>0, <1>2, <1>3, <2>1 DEF Promises
<1>13. Awaiters'
  <2>1. \A g \in Frames : continuation[g] = f => state[g] = "dead"
    BY <1>0, <1>3 DEF Awaiters
  <2>2. \A g \in Frames : continuation[g] = p => g = f \/ state[g] = "dead"
    BY <1>0, <1>1, <1>3 DEF Awaiters, p
  <2> QED
    BY <1>0, <1>2, <1>3, <2>1, <2>2 DEF Awaiters
<1>14. RootTask' /\ UsedAlive'
  <2>1. f # Root
    BY <1>0, <1>1, <1>3 DEF RootTask
  <2>2. p = Root => call # "none" /\ helper # "launching" /\ (helper = "leaving" => call = "async_run")
    BY <1>0, <1>2 DEF RootTask
  <2> QED
    BY <1>0, <1>2, <1>3, <2>1, <2>2 DEF RootTask, UsedAlive
<1> QED
  BY <1>5, <1>6, <1>8, <1>9, <1>10, <1>11, <1>12, <1>13, <1>14 DEF IInv

(* The root is done and stays until its task object dies.                  *)
LEMMA StayDoneStep ==
  ASSUME IInv, NEW t \in Threads, NEW f \in Frames, Inside(t, f), state[f] = "final",
         StayDone(t, f),
         UNCHANGED <<continuation, detached, result, ending, armed, suspends, outside, lost>>
  PROVE  IInv'
<1>0. /\ TypeOK /\ Unique /\ Apart /\ InPlace /\ NoneDead
      /\ Owners /\ Promises /\ Awaiters /\ RootTask /\ UsedAlive
  BY DEF IInv
<1> USE Basics
<1>1. /\ stack[t] # <<>> /\ Top(t) = f /\ ~detached[f] /\ continuation[f] = None
      /\ state' = [state EXCEPT ![f] = "done"]
      /\ Leave(t) /\ UNCHANGED <<owner, misuse>>
  BY DEF Inside, StayDone
<1>2. /\ state[f] = "final" /\ ~detached[f] /\ continuation[f] = None
      /\ state'[f] = "done" /\ \A g \in Frames : g # f => state'[g] = state[g]
      /\ owner' = owner
      /\ continuation' = continuation /\ detached' = detached /\ result' = result
      /\ ending' = ending /\ void' = void /\ call' = call /\ helper' = helper
      /\ answer' = answer /\ misuse' = misuse /\ armed' = armed /\ lost' = lost
  BY <1>0, <1>1 DEF outside, TypeOK
<1>3. f \in Entered
  BY <1>0, <1>1, TopEntered
<1>4. /\ Unique' /\ Entered' = Entered \ {f} /\ Queued' = Queued /\ Held' = Held
      /\ stack' \in [Threads -> Seq(Frames)] /\ on' \in [Workers -> Frames \cup {None}]
      /\ pending' = pending
  BY <1>0, <1>1, Left
<1>5. TypeOK'
  <2>1. state' \in [Frames -> FrameStates]
    BY <1>0, <1>1 DEF TypeOK, FrameStates
  <2> QED
    BY <1>0, <1>2, <1>4, <2>1 DEF TypeOK
<1>6. Waiting' = Waiting /\ f \notin Waiting
  BY <1>0, <1>2, <1>3, <1>4 DEF Waiting, Apart
<1>7. Apart'
  BY <1>0, <1>2, <1>4 DEF Apart
<1>8. InPlace'
  BY <1>0, <1>2, <1>4, <1>6 DEF InPlace
<1>9. NoneDead'
  BY <1>0, <1>2, <1>4, <1>6 DEF NoneDead
<1>10. Owners'
  BY <1>0, <1>2 DEF Owners
<1>11. Promises'
  <2>1. \A g \in Frames : Outcome(g)' = Outcome(g)
    BY <1>2 DEF Outcome, ReadVoid, ReadResult
  <2> QED
    BY <1>0, <1>2, <2>1 DEF Promises
<1>12. Awaiters'
  <2>1. \A g \in Frames : continuation[g] = f => state[g] = "dead"
    BY <1>0, <1>2 DEF Awaiters
  <2> QED
    BY <1>0, <1>2, <2>1 DEF Awaiters
<1>13. RootTask' /\ UsedAlive'
  BY <1>0, <1>2 DEF RootTask, UsedAlive
<1> QED
  BY <1>4, <1>5, <1>7, <1>8, <1>9, <1>10, <1>11, <1>12, <1>13 DEF IInv

(* Only a worker in the root's final awaiter finds its frame destroyed.    *)
LEMMA UseDestroyedStep ==
  ASSUME IInv, NEW t \in Threads, NEW f \in Frames, UseDestroyed(t, f)
  PROVE  IInv'
<1>0. /\ TypeOK /\ Unique /\ Apart /\ InPlace /\ NoneDead
      /\ Owners /\ Promises /\ Awaiters /\ RootTask /\ UsedAlive
  BY DEF IInv
<1> USE Basics
<1>1. /\ stack[t] # <<>> /\ Top(t) = f /\ state[f] = "dead"
      /\ misuse' = misuse \cup {IF ending[f] # "none" THEN "final awaiter" ELSE "resume"}
      /\ Leave(t) /\ UNCHANGED <<state, promise, armed, suspends, outside, lost>>
  BY DEF Inside, UseDestroyed
<1>2. /\ state' = state /\ owner' = owner
      /\ continuation' = continuation /\ detached' = detached /\ result' = result
      /\ ending' = ending /\ void' = void /\ call' = call /\ helper' = helper
      /\ answer' = answer /\ armed' = armed /\ lost' = lost
  BY <1>1 DEF outside, promise
<1>3. f \in Entered
  BY <1>0, <1>1, TopEntered
<1>4. /\ Unique' /\ Entered' = Entered \ {f} /\ Queued' = Queued /\ Held' = Held
      /\ stack' \in [Threads -> Seq(Frames)] /\ on' \in [Workers -> Frames \cup {None}]
      /\ pending' = pending
  BY <1>0, <1>1, Left
<1>5. TypeOK'
  BY <1>0, <1>1, <1>2, <1>4 DEF TypeOK
<1>6. Waiting' = Waiting
  BY <1>2, <1>4 DEF Waiting
<1>7. Apart'
  BY <1>0, <1>2, <1>4 DEF Apart
<1>8. InPlace' /\ NoneDead'
  <2>1. InPlace'
    BY <1>0, <1>1, <1>2, <1>4, <1>6 DEF InPlace
  <2>2. NoneDead'
    <3>1. Entered \cap Waiting = {}
      BY <1>0 DEF Apart, Waiting
    <3> QED
      BY <1>0, <1>1, <1>2, <1>3, <1>4, <1>6, <3>1 DEF NoneDead
  <2> QED
    BY <2>1, <2>2
<1>9. Owners' /\ Promises' /\ Awaiters' /\ RootTask'
  BY <1>0, <1>2 DEF Owners, Promises, Awaiters, RootTask, Outcome, ReadVoid, ReadResult
<1>10. UsedAlive'
  BY <1>0, <1>1, <1>2, <1>3 DEF UsedAlive, NoneDead
<1> QED
  BY <1>4, <1>5, <1>7, <1>8, <1>9, <1>10 DEF IInv

(* A worker takes a handle from the queue.                                 *)
LEMMA DeliverStep ==
  ASSUME IInv, NEW w \in Workers, Deliver(w)
  PROVE  IInv'
<1>0. /\ TypeOK /\ Unique /\ Apart /\ InPlace /\ NoneDead
      /\ Owners /\ Promises /\ Awaiters /\ RootTask /\ UsedAlive
  BY DEF IInv
<1> USE Basics
<1>1. Q!Deliver(w) /\ UNCHANGED <<state, promise, stack, armed, suspends, outside, lost, misuse>>
  BY DEF Deliver
<1>2. /\ state' = state /\ owner' = owner /\ continuation' = continuation
      /\ detached' = detached /\ result' = result /\ ending' = ending /\ void' = void
      /\ call' = call /\ helper' = helper /\ answer' = answer /\ misuse' = misuse
      /\ armed' = armed /\ lost' = lost /\ stack' = stack
  BY <1>1 DEF outside, promise
<1>3. PICK f \in Queued :
        /\ Unique' /\ Entered' = Entered /\ Queued' = Queued \ {f} /\ Held' = Held \cup {f}
        /\ pending' \in Seq(Frames) /\ on' \in [Workers -> Frames \cup {None}]
  BY <1>0, <1>1, Delivered
<1>4. TypeOK'
  BY <1>0, <1>2, <1>3 DEF TypeOK
<1>5. Waiting' = Waiting
  BY <1>2, <1>3 DEF Waiting
<1>6. Apart'
  BY <1>0, <1>2, <1>3 DEF Apart
<1>7. InPlace' /\ NoneDead'
  BY <1>0, <1>2, <1>3, <1>5 DEF InPlace, NoneDead
<1>8. Owners' /\ Promises' /\ Awaiters'
  BY <1>0, <1>2 DEF Owners, Promises, Awaiters, Outcome, ReadVoid, ReadResult
<1>9. RootTask' /\ UsedAlive'
  BY <1>0, <1>2 DEF RootTask, UsedAlive
<1> QED
  BY <1>3, <1>4, <1>6, <1>7, <1>8, <1>9 DEF IInv

(* A worker resumes the handle that it has taken.                          *)
LEMMA ResumeStep ==
  ASSUME IInv, NEW w \in Workers, Resume(w)
  PROVE  IInv'
<1>0. /\ TypeOK /\ Unique /\ Apart /\ InPlace /\ NoneDead
      /\ Owners /\ Promises /\ Awaiters /\ RootTask /\ UsedAlive
  BY DEF IInv
<1> USE Basics
<1> DEFINE f == on[w]
<1>1. /\ f # None /\ stack[w] = <<>> /\ state[f] # "dead"
      /\ stack' = [stack EXCEPT ![w] = <<on[w]>>]
      /\ state' = [state EXCEPT ![f] = "running"]
      /\ UNCHANGED <<promise, armed, suspends, outside, lost, misuse, queue>>
  BY DEF Resume
<1>2. /\ Unique' /\ Entered' = Entered \cup {f} /\ Queued' = Queued
      /\ Held' = Held \ {f} /\ f \in Held /\ f \in Frames
      /\ stack' \in [Threads -> Seq(Frames)]
  BY <1>0, <1>1, Entering
<1>3. f \in Waiting /\ f \notin Entered
  BY <1>0, <1>2 DEF Waiting, Apart
<1>4. /\ state[f] \in {"suspended", "fresh"}
      /\ state[f] = "fresh" => f = Root /\ helper \in {"polling", "leaving"}
      /\ state'[f] = "running" /\ \A g \in Frames : g # f => state'[g] = state[g]
      /\ owner' = owner /\ continuation' = continuation
      /\ detached' = detached /\ result' = result /\ ending' = ending /\ void' = void
      /\ call' = call /\ helper' = helper /\ answer' = answer /\ misuse' = misuse
      /\ armed' = armed /\ lost' = lost
  BY <1>0, <1>1, <1>2, <1>3 DEF outside, promise, TypeOK, InPlace
<1>5. TypeOK'
  BY <1>0, <1>1, <1>2, <1>4 DEF TypeOK, FrameStates, queue
<1> HIDE DEF f
<1>6. Waiting' = Waiting \ {f}
  BY <1>0, <1>2, <1>4 DEF Waiting, Apart
<1>7. Apart'
  BY <1>0, <1>2, <1>4 DEF Apart
<1>8. InPlace'
  BY <1>0, <1>2, <1>3, <1>4, <1>6 DEF InPlace
<1>9. NoneDead'
  BY <1>0, <1>2, <1>3, <1>4, <1>6 DEF NoneDead
<1>10. Owners'
  <2>1. state[f] = "fresh" => owner[f] \notin Frames
    BY <1>0, <1>4 DEF RootTask
  <2>2. \A c \in Frames : /\ state'[c] = "unborn" <=> state[c] = "unborn"
                          /\ state'[c] = "dead" <=> state[c] = "dead"
                          /\ state[c] \in {"running", "awaiting", "suspended"}
                               => state'[c] \in {"running", "awaiting", "suspended"}
                          /\ owner[c] \in Frames /\ state[c] = "fresh" => state'[c] = "fresh"
    BY <1>2, <1>4, <2>1
  <2> QED
    BY <1>0, <1>4, <2>2 DEF Owners
<1>11. Promises'
  <2>1. \A g \in Frames : Outcome(g)' = Outcome(g)
    BY <1>4 DEF Outcome, ReadVoid, ReadResult
  <2> QED
    BY <1>0, <1>2, <1>4, <2>1 DEF Promises
<1>12. Awaiters'
  <2>1. \A g \in Frames : continuation[g] = f => state[g] = "dead"
    BY <1>0, <1>2, <1>4 DEF Awaiters
  <2>2. \A g \in Frames : /\ state'[g] = "dead" <=> state[g] = "dead"
                          /\ state'[g] = "done" <=> state[g] = "done"
                          /\ state'[g] = "awaiting" <=> state[g] = "awaiting"
                          /\ g # f => (state'[g] = "running" <=> state[g] = "running")
    BY <1>2, <1>4
  <2> QED
    BY <1>0, <1>4, <2>1, <2>2 DEF Awaiters
<1>13. RootTask' /\ UsedAlive'
  BY <1>0, <1>2, <1>4 DEF RootTask, UsedAlive
<1> QED
  BY <1>2, <1>5, <1>7, <1>8, <1>9, <1>10, <1>11, <1>12, <1>13 DEF IInv

(* A worker resumes a destroyed frame only in an async_run.                *)
LEMMA ResumeDestroyedStep ==
  ASSUME IInv, NEW w \in Workers, ResumeDestroyed(w)
  PROVE  IInv'
<1>0. /\ TypeOK /\ Unique /\ Apart /\ InPlace /\ NoneDead
      /\ Owners /\ Promises /\ Awaiters /\ RootTask /\ UsedAlive
  BY DEF IInv
<1> USE Basics
<1>1. /\ on[w] # None /\ stack[w] = <<>> /\ state[on[w]] = "dead"
      /\ misuse' = misuse \cup {"resume"} /\ Q!LetGo(w)
      /\ UNCHANGED <<state, promise, stack, armed, suspends, outside, lost>>
  BY DEF ResumeDestroyed
<1>2. /\ state' = state /\ owner' = owner /\ continuation' = continuation
      /\ detached' = detached /\ result' = result /\ ending' = ending /\ void' = void
      /\ call' = call /\ helper' = helper /\ answer' = answer
      /\ armed' = armed /\ lost' = lost /\ stack' = stack
  BY <1>1 DEF outside, promise
<1>3. /\ Unique' /\ Entered' = Entered /\ Queued' = Queued /\ Held' = Held \ {on[w]}
      /\ on' \in [Workers -> Frames \cup {None}] /\ pending' = pending
  BY <1>0, <1>1, GivenUp
<1>4. on[w] \in Held /\ on[w] \in Waiting /\ on[w] \notin Entered
  BY <1>0, <1>1 DEF Held, Taken, Waiting, Apart
<1>5. call = "async_run"
  BY <1>0, <1>1, <1>4 DEF NoneDead
<1>6. TypeOK'
  BY <1>0, <1>1, <1>2, <1>3 DEF TypeOK
<1>7. Waiting' \subseteq Waiting /\ \A f \in Waiting : f # on[w] => f \in Waiting'
  BY <1>2, <1>3 DEF Waiting
<1>8. Apart'
  BY <1>0, <1>2, <1>3 DEF Apart
<1>9. InPlace' /\ NoneDead'
  BY <1>0, <1>1, <1>2, <1>3, <1>5, <1>7 DEF InPlace, NoneDead
<1>10. Owners' /\ Promises' /\ Awaiters' /\ RootTask'
  BY <1>0, <1>2 DEF Owners, Promises, Awaiters, RootTask, Outcome, ReadVoid, ReadResult
<1>11. UsedAlive'
  BY <1>2, <1>5 DEF UsedAlive
<1> QED
  BY <1>3, <1>6, <1>8, <1>9, <1>10, <1>11 DEF IInv


(* The root moves into the parameter of the helper thread.                 *)
LEMMA HandOverStep ==
  ASSUME IInv, NEW how \in {"sync_wait", "async_run", "async_spawn"}, HandOver(how)
  PROVE  IInv'
<1>0. /\ TypeOK /\ Unique /\ Apart /\ InPlace /\ NoneDead
      /\ Owners /\ Promises /\ Awaiters /\ RootTask /\ UsedAlive
  BY DEF IInv
<1> USE Basics
<1>1. /\ call = "none" /\ call' = how /\ helper' = "launching"
      /\ owner' = [owner EXCEPT ![Root] = Helper]
      /\ state' = state /\ continuation' = continuation /\ detached' = detached
      /\ result' = result /\ ending' = ending /\ void' = void /\ answer' = answer
      /\ misuse' = misuse /\ armed' = armed /\ lost' = lost /\ stack' = stack
      /\ pending' = pending /\ on' = on
  BY DEF HandOver, queue
<1>2. /\ owner'[Root] = Helper /\ \A g \in Frames : g # Root => owner'[g] = owner[g]
      /\ state[Root] = "fresh" /\ owner[Root] = Main /\ helper = "idle" /\ ~detached[Root]
  BY <1>0, <1>1 DEF TypeOK, RootTask, Promises
<1>3. TypeOK'
  BY <1>0, <1>1 DEF TypeOK
<1>4. Unique' /\ Entered' = Entered /\ Queued' = Queued /\ Held' = Held
  BY <1>0, <1>1, SamePlaces
<1>5. Waiting' = Waiting
  BY <1>1, <1>4 DEF Waiting
<1>6. Apart'
  BY <1>0, <1>1, <1>4 DEF Apart
<1>7. InPlace'
  BY <1>0, <1>1, <1>2, <1>4, <1>5 DEF InPlace
<1>8. NoneDead'
  BY <1>0, <1>1, <1>2, <1>4, <1>5 DEF NoneDead
<1>9. Owners'
  BY <1>0, <1>1, <1>2 DEF Owners
<1>10. Promises'
  <2>1. \A g \in Frames : Outcome(g)' = Outcome(g)
    BY <1>1 DEF Outcome, ReadVoid, ReadResult
  <2> QED
    BY <1>0, <1>1, <2>1 DEF Promises
<1>11. Awaiters'
  <2>1. continuation[Root] = None
    BY <1>0 DEF RootTask
  <2> QED
    BY <1>0, <1>1, <1>2, <2>1 DEF Awaiters
<1>12. RootTask' /\ UsedAlive'
  BY <1>0, <1>1, <1>2 DEF RootTask, UsedAlive
<1> QED
  BY <1>3, <1>4, <1>6, <1>7, <1>8, <1>9, <1>10, <1>11, <1>12 DEF IInv

(* A task that was never started is destroyed alone.                       *)
LEMMA DropRootStep ==
  ASSUME IInv, DropRoot
  PROVE  IInv'
<1>0. /\ TypeOK /\ Unique /\ Apart /\ InPlace /\ NoneDead
      /\ Owners /\ Promises /\ Awaiters /\ RootTask /\ UsedAlive
  BY DEF IInv
<1> USE Basics
<1>1. /\ call = "none" /\ call' = "drop" /\ DestroyAll({Root}, state)
      /\ continuation' = continuation /\ detached' = detached
      /\ result' = result /\ ending' = ending /\ void' = void /\ answer' = answer
      /\ helper' = helper /\ armed' = armed /\ lost' = lost /\ stack' = stack
      /\ pending' = pending /\ on' = on
  BY DEF DropRoot, queue
<1>2. state[Root] = "fresh" /\ owner[Root] = Main /\ helper = "idle" /\ ~detached[Root]
  BY <1>0, <1>1 DEF RootTask, Promises
<1>3. /\ state' = [g \in Frames |-> IF g \in {Root} THEN "dead" ELSE state[g]]
      /\ owner' = [g \in Frames |-> IF g \in {Root} THEN None ELSE owner[g]]
      /\ misuse' = misuse
  <2>1. {Root} \in SUBSET Frames /\ \A g \in {Root} : state[g] # "dead"
    BY <1>2
  <2>2. \A g \in Frames : owner[g] \notin {Root}
    BY <1>0, <1>2 DEF Owners
  <2> QED
    BY <1>1, <2>1, <2>2, DestroyAlone
<1>4. /\ state'[Root] = "dead" /\ \A g \in Frames : g # Root => state'[g] = state[g]
      /\ owner'[Root] = None /\ \A g \in Frames : g # Root => owner'[g] = owner[g]
  BY <1>3
<1>5. TypeOK'
  BY <1>0, <1>1, <1>3 DEF TypeOK, FrameStates
<1>6. Unique' /\ Entered' = Entered /\ Queued' = Queued /\ Held' = Held
  BY <1>0, <1>1, SamePlaces
<1>7. Waiting' = Waiting /\ Root \notin Entered /\ Root \notin Waiting
  BY <1>0, <1>1, <1>2, <1>6 DEF Waiting, InPlace
<1>8. Apart'
  BY <1>0, <1>1, <1>6 DEF Apart
<1>9. InPlace'
  BY <1>0, <1>1, <1>2, <1>4, <1>6, <1>7 DEF InPlace
<1>10. NoneDead'
  BY <1>0, <1>1, <1>4, <1>6, <1>7 DEF NoneDead
<1>11. Owners'
  BY <1>0, <1>1, <1>2, <1>4 DEF Owners
<1>12. Promises'
  <2>1. \A g \in Frames : Outcome(g)' = Outcome(g)
    BY <1>1 DEF Outcome, ReadVoid, ReadResult
  <2> QED
    BY <1>0, <1>1, <1>2, <1>4, <2>1 DEF Promises
<1>13. Awaiters'
  <2>1. continuation[Root] = None
    BY <1>0 DEF RootTask
  <2>2. \A g \in Frames : continuation[g] = Root => state[g] = "dead"
    BY <1>0, <1>2 DEF Awaiters
  <2> QED
    BY <1>0, <1>1, <1>2, <1>4, <2>1, <2>2 DEF Awaiters
<1>14. RootTask' /\ UsedAlive'
  BY <1>0, <1>1, <1>2, <1>3, <1>4 DEF RootTask, UsedAlive
<1> QED
  BY <1>5, <1>6, <1>8, <1>9, <1>10, <1>11, <1>12, <1>13, <1>14 DEF IInv

(* The helper schedules the root.                                          *)
LEMMA LaunchStep ==
  ASSUME IInv, Launch
  PROVE  IInv'
<1>0. /\ TypeOK /\ Unique /\ Apart /\ InPlace /\ NoneDead
      /\ Owners /\ Promises /\ Awaiters /\ RootTask /\ UsedAlive
  BY DEF IInv
<1> USE Basics
<1>1. /\ helper = "launching" /\ ScheduleHandle(Root)
      /\ helper' = IF call = "async_run" THEN "leaving" ELSE "polling"
      /\ state' = state /\ owner' = owner /\ continuation' = continuation
      /\ detached' = detached /\ result' = result /\ ending' = ending /\ void' = void
      /\ call' = call /\ answer' = answer /\ misuse' = misuse /\ armed' = armed
      /\ stack' = stack
  BY DEF Launch, promise
<1>2. /\ state[Root] = "fresh" /\ Root \notin Entered /\ Root \notin Waiting
      /\ ~detached[Root] /\ call # "sync_waited"
  BY <1>0, <1>1 DEF RootTask, InPlace
<1>3. /\ Unique' /\ Entered' = Entered /\ Held' = Held
      /\ \/ Queued' = Queued \cup {Root} /\ lost' = lost
         \/ Queued' = Queued /\ lost' = lost \cup {Root}
      /\ pending' \in Seq(Frames) /\ on' = on
  BY <1>0, <1>1, <1>2, Scheduled DEF Waiting
<1>4. TypeOK'
  BY <1>0, <1>1, <1>3 DEF TypeOK
<1>5. Waiting' = Waiting \cup {Root}
  BY <1>1, <1>3 DEF Waiting
<1>6. Apart'
  BY <1>0, <1>1, <1>2, <1>3 DEF Apart, Waiting
<1>7. InPlace'
  BY <1>0, <1>1, <1>2, <1>3, <1>5 DEF InPlace
<1>8. NoneDead'
  BY <1>0, <1>1, <1>2, <1>3, <1>5 DEF NoneDead
<1>9. Owners' /\ Promises' /\ Awaiters'
  BY <1>0, <1>1 DEF Owners, Promises, Awaiters, Outcome, ReadVoid, ReadResult
<1>10. RootTask' /\ UsedAlive'
  BY <1>0, <1>1, <1>2 DEF RootTask, UsedAlive
<1> QED
  BY <1>3, <1>4, <1>6, <1>7, <1>8, <1>9, <1>10 DEF IInv

(* The helper takes the outcome of a root that has ended.                  *)
LEMMA PollDoneStep ==
  ASSUME IInv, PollDone
  PROVE  IInv'
<1>0. /\ TypeOK /\ Unique /\ Apart /\ InPlace /\ NoneDead
      /\ Owners /\ Promises /\ Awaiters /\ RootTask /\ UsedAlive
  BY DEF IInv
<1> USE Basics
<1>1. /\ helper = "polling" /\ state[Root] \in {"final", "done"} /\ helper' = "leaving"
      /\ answer' = Outcome(Root)
      /\ state' = state /\ owner' = owner /\ continuation' = continuation
      /\ detached' = detached /\ result' = result /\ ending' = ending /\ void' = void
      /\ call' = call /\ misuse' = misuse /\ armed' = armed /\ lost' = lost
      /\ stack' = stack /\ pending' = pending /\ on' = on
  BY DEF PollDone, promise, queue
<1>2. answer' = ending[Root] /\ ending[Root] \in {"value", "error"}
  BY <1>0, <1>1 DEF Promises, TypeOK
<1>3. TypeOK'
  BY <1>0, <1>1, <1>2 DEF TypeOK
<1>4. Unique' /\ Entered' = Entered /\ Queued' = Queued /\ Held' = Held
  BY <1>0, <1>1, SamePlaces
<1>5. Waiting' = Waiting
  BY <1>1, <1>4 DEF Waiting
<1>6. Apart'
  BY <1>0, <1>1, <1>4 DEF Apart
<1>7. InPlace' /\ NoneDead'
  BY <1>0, <1>1, <1>4, <1>5 DEF InPlace, NoneDead
<1>8. Owners' /\ Promises' /\ Awaiters'
  BY <1>0, <1>1 DEF Owners, Promises, Awaiters, Outcome, ReadVoid, ReadResult
<1>9. RootTask' /\ UsedAlive'
  BY <1>0, <1>1, <1>2 DEF RootTask, UsedAlive
<1> QED
  BY <1>3, <1>4, <1>6, <1>7, <1>8, <1>9 DEF IInv

(* The task object of async_run may destroy a coroutine in its middle, and *)
(* the tasks that it has called with it.                                   *)
LEMMA HelperReturnsStep ==
  ASSUME IInv, HelperReturns
  PROVE  IInv'
<1>0. /\ TypeOK /\ Unique /\ Apart /\ InPlace /\ NoneDead
      /\ Owners /\ Promises /\ Awaiters /\ RootTask /\ UsedAlive
  BY DEF IInv
<1> USE Basics
<1> DEFINE D == Destroyed({Root})
<1>1. /\ helper = "leaving" /\ helper' = "ended" /\ DestroyAll({Root}, state)
      /\ continuation' = continuation /\ detached' = detached
      /\ result' = result /\ ending' = ending /\ void' = void /\ call' = call
      /\ answer' = answer /\ armed' = armed /\ lost' = lost /\ stack' = stack
      /\ pending' = pending /\ on' = on
  BY DEF HelperReturns, queue
<1>2. /\ Root \in D /\ D \subseteq Frames
      /\ \A g \in Frames : owner[g] \in D => g \in D
      /\ \A g \in D : g = Root \/ owner[g] \in D
  <2>1. {Root} \in SUBSET Frames
    OBVIOUS
  <2> QED
    BY <2>1, DestroyedIs
<1>3. call # "async_run" => D = {Root} /\ state[Root] \in {"final", "done"}
  <2> SUFFICES ASSUME call # "async_run" PROVE D = {Root} /\ state[Root] \in {"final", "done"}
    OBVIOUS
  <2>1. state[Root] \in {"final", "done"}
    BY <1>0, <1>1 DEF RootTask
  <2>2. {Root} \in SUBSET Frames /\ \A g \in Frames : owner[g] \notin {Root}
    BY <1>0, <2>1 DEF Owners
  <2>3. D = {Root}
    BY <2>2, DestroyedAlone
  <2> QED
    BY <2>1, <2>3
<1>4. /\ state' = [g \in Frames |-> IF g \in D THEN "dead" ELSE state[g]]
      /\ owner' = [g \in Frames |-> IF g \in D THEN None ELSE owner[g]]
      /\ misuse' = misuse \cup {"destroy" : g \in {h \in D : state[h] = "dead"}}
  BY <1>1 DEF DestroyAll
<1> HIDE DEF D
<1>5. /\ \A g \in D : state'[g] = "dead" /\ owner'[g] = None
      /\ \A g \in Frames : g \notin D => state'[g] = state[g] /\ owner'[g] = owner[g]
  BY <1>2, <1>4
<1>6. misuse' \subseteq misuse \cup {"destroy"} /\ (call # "async_run" => misuse' = misuse)
  BY <1>3, <1>4
<1>7. TypeOK'
  <2>1. state' \in [Frames -> FrameStates]
    BY <1>0, <1>4 DEF TypeOK, FrameStates
  <2>2. owner' \in [Frames -> Frames \cup {Main, Helper, None}]
    BY <1>0, <1>4 DEF TypeOK
  <2> QED
    BY <1>0, <1>1, <1>6, <2>1, <2>2 DEF TypeOK
<1>8. Unique' /\ Entered' = Entered /\ Queued' = Queued /\ Held' = Held
  BY <1>0, <1>1, SamePlaces
<1>9. Waiting' = Waiting
  BY <1>1, <1>8 DEF Waiting
<1>10. Apart'
  BY <1>0, <1>1, <1>8 DEF Apart
<1>11. InPlace'
  BY <1>0, <1>2, <1>5, <1>8, <1>9 DEF InPlace
<1>12. NoneDead'
  <2> SUFFICES ASSUME call # "async_run", NEW f \in Entered \cup Waiting, state'[f] = "dead"
               PROVE  f \in Entered /\ f = Root /\ ending[f] # "none"
    BY <1>1, <1>8, <1>9 DEF NoneDead
  <2>1. state[f] # "dead"
    BY <1>0, <1>1 DEF NoneDead
  <2>2. f = Root /\ state[Root] \in {"final", "done"}
    BY <1>3, <1>5, <2>1
  <2> QED
    BY <1>0, <2>2 DEF InPlace, Promises
<1>13. Owners'
  <2>1. \A g \in D : state[g] # "unborn"
    BY <1>0, <1>2 DEF Owners, RootTask
  <2> QED
    BY <1>0, <1>1, <1>2, <1>5, <2>1 DEF Owners
<1>14. Promises'
  <2>1. \A g \in Frames : Outcome(g)' = Outcome(g)
    BY <1>1 DEF Outcome, ReadVoid, ReadResult
  <2> QED
    BY <1>0, <1>1, <1>2, <1>5, <2>1 DEF Promises
<1>15. Awaiters'
  <2>1. \A c \in Frames : continuation[c] # None /\ state[c] # "dead" =>
          (c \in D <=> continuation[c] \in D)
    BY <1>0, <1>2 DEF Awaiters, RootTask
  <2> QED
    BY <1>0, <1>1, <1>2, <1>5, <2>1 DEF Awaiters
<1>16. RootTask'
  BY <1>0, <1>1, <1>2, <1>5 DEF RootTask
<1>17. UsedAlive'
  BY <1>0, <1>1, <1>6 DEF UsedAlive
<1> QED
  BY <1>7, <1>8, <1>10, <1>11, <1>12, <1>13, <1>14, <1>15, <1>16, <1>17 DEF IInv

(* Joining the helper, getting the result, shutting down, and stuttering.  *)
LEMMA QuietStep ==
  ASSUME IInv,
         UNCHANGED <<state, promise, stack, armed, void, helper, answer, lost, misuse,
                     pending, on>>,
         \/ call' = call
         \/ call = "sync_wait" /\ helper = "ended" /\ call' = "sync_waited"
         \/ call = "async_spawn" /\ Completed /\ call' = "got"
  PROVE  IInv'
<1>0. /\ TypeOK /\ Unique /\ Apart /\ InPlace /\ NoneDead
      /\ Owners /\ Promises /\ Awaiters /\ RootTask /\ UsedAlive
  BY DEF IInv
<1> USE Basics
<1>1. /\ state' = state /\ owner' = owner /\ continuation' = continuation
      /\ detached' = detached /\ result' = result /\ ending' = ending /\ void' = void
      /\ helper' = helper /\ answer' = answer /\ misuse' = misuse /\ armed' = armed
      /\ lost' = lost /\ stack' = stack /\ pending' = pending /\ on' = on
  BY DEF promise
<1>2. TypeOK'
  BY <1>0, <1>1 DEF TypeOK
<1>3. Unique' /\ Entered' = Entered /\ Queued' = Queued /\ Held' = Held
  BY <1>0, <1>1, SamePlaces
<1>4. Waiting' = Waiting
  BY <1>1, <1>3 DEF Waiting
<1>5. Apart'
  BY <1>0, <1>1, <1>3 DEF Apart
<1>6. InPlace' /\ NoneDead'
  BY <1>0, <1>1, <1>3, <1>4 DEF InPlace, NoneDead
<1>7. Owners' /\ Promises' /\ Awaiters'
  BY <1>0, <1>1 DEF Owners, Promises, Awaiters, Outcome, ReadVoid, ReadResult
<1>8. RootTask' /\ UsedAlive'
  BY <1>0, <1>1 DEF RootTask, UsedAlive, Completed
<1> QED
  BY <1>2, <1>3, <1>5, <1>6, <1>7, <1>8 DEF IInv

(* Every step keeps the invariant.                                         *)
LEMMA NextIInv == IInv /\ [Next]_vars => IInv'
<1> SUFFICES ASSUME IInv, [Next]_vars PROVE IInv'
  OBVIOUS
<1>1. ASSUME NEW t \in Threads, BodyStep(t) PROVE IInv'
  <2>0. PICK f \in Frames :
        \/ \E c \in Frames : Create(t, f, c) \/ Await(t, f, c) \/ DetachChild(t, f, c)
                             \/ TakeResult(t, f, c)
        \/ Suspend(t, f)
        \/ \E r \in {"value", "error"} : BodyEnds(t, f, r)
        \/ FinalSuspend(t, f)
        \/ UseDestroyed(t, f)
    BY <1>1 DEF BodyStep
  <2>1. CASE FinalSuspend(t, f)
    BY <2>1, DestroyItselfStep, ResumeContinuationStep, StayDoneStep DEF FinalSuspend
  <2> QED
    BY <2>0, <2>1, CreateStep, AwaitStep, DetachStep, TakeResultStep, SuspendStep, BodyEndsStep,
       UseDestroyedStep
<1>2. ASSUME NEW w \in Workers, WorkerStep(w) PROVE IInv'
  BY <1>2, DeliverStep, ResumeStep, ResumeDestroyedStep DEF WorkerStep
<1>3. ASSUME NEW f \in Frames, Wake(f) PROVE IInv'
  BY <1>3, WakeStep
<1>4. CASE HelperStep
  BY <1>4, LaunchStep, PollDoneStep, HelperReturnsStep DEF HelperStep
<1>5. CASE MainCalls
  <2>1. DetachRoot => IInv'
    BY Basics, DetachStep
  <2> QED
    BY <1>5, <2>1, HandOverStep, DropRootStep DEF MainCalls, SyncWait, AsyncRun, AsyncSpawn
<1>6. CASE Join \/ Get
  BY <1>6, QuietStep DEF Join, Get, Back, queue
<1>7. CASE Shutdown \/ ShutdownReturns
  BY <1>7, QuietStep DEF Shutdown, ShutdownReturns, outside, Q!Close, Q!Return
<1>8. CASE UNCHANGED vars
  BY <1>8, QuietStep DEF vars, outside, queue
<1> QED
  BY <1>1, <1>2, <1>3, <1>4, <1>5, <1>6, <1>7, <1>8 DEF Next, MainStep

-----------------------------------------------------------------------------
(* Where nothing runs or waits, the frames that are left would have to be  *)
(* owned by one another: each by an older one, the newest of the awaiting  *)
(* ones by none.                                                           *)
LEMMA NothingLeft == IInv => NothingLeaks
<1> SUFFICES ASSUME IInv, Idle, lost = {}, NEW f \in Frames
             PROVE  state[f] \in {"unborn", "dead"}
  BY DEF NothingLeaks
<1>0. /\ TypeOK /\ InPlace /\ Owners /\ Promises /\ Awaiters /\ RootTask
  BY DEF IInv
<1> USE Basics
<1>1. Entered = {} /\ Waiting = {}
  <2>1. Content(<<>>) = {}
    BY DEF Content
  <2>2. Entered = {} /\ Queued = {} /\ Held = {}
    BY <2>1 DEF Idle, Entered, Queued, Held, Taken
  <2> QED
    BY <2>2 DEF Idle, Waiting
<1>2. \A g \in Frames : state[g] \notin {"running", "final", "suspended"}
  BY <1>0, <1>1 DEF InPlace
<1> DEFINE Stuck == {g \in Frames : state[g] = "awaiting"}
<1>3. Stuck = {}
  <2> SUFFICES ASSUME Stuck # {} PROVE FALSE
    OBVIOUS
  <2> DEFINE Below == {N - g : g \in Stuck}
  <2>1. Below \in SUBSET Nat /\ Below # {}
    BY DEF Frames
  <2>2. PICK m \in Below : \A n \in Below : m <= n
    <3> HIDE DEF Below
    <3> QED
      BY <2>1, Least
  <2>3. PICK p \in Stuck : m = N - p
    BY <2>2
  <2>4. \A g \in Stuck : g <= p
    <3> TAKE g \in Stuck
    <3>1. N - p <= N - g /\ p \in Nat /\ g \in Nat
      BY <2>2, <2>3
    <3> QED
      BY <3>1
  <2>5. PICK c \in Frames : continuation[c] = p /\ state[c] # "dead"
    BY <1>0, <2>3 DEF Awaiters
  <2>6. owner[c] = p /\ p < c /\ state[c] # "done"
    BY <1>0, <2>3, <2>5 DEF Awaiters, Owners
  <2>7. state[c] \notin {"unborn", "fresh"}
    BY <1>0, <2>3, <2>5 DEF Promises
  <2>8. c \in Stuck
    BY <1>0, <1>2, <2>5, <2>6, <2>7 DEF TypeOK, FrameStates
  <2> QED
    BY <2>3, <2>4, <2>6, <2>8
<1>4. SUFFICES ASSUME state[f] \in {"fresh", "done"} PROVE FALSE
  BY <1>0, <1>2, <1>3 DEF TypeOK, FrameStates
<1>5. owner[f] # None
  BY <1>0, <1>4 DEF Owners, Promises
<1>6. owner[f] \notin Frames
  BY <1>0, <1>2, <1>3 DEF Owners
<1>7. f = Root
  <2>1. owner[f] \in {Main, Helper}
    BY <1>0, <1>5, <1>6 DEF TypeOK
  <2> QED
    BY <1>0, <2>1 DEF Owners
<1> QED
  BY <1>0, <1>5, <1>7 DEF RootTask, Idle

-----------------------------------------------------------------------------
(* The inductive invariant holds in every reachable state.                 *)
THEOREM Invariance == Spec => []IInv
<1> QED
  BY InitIInv, NextIInv, PTL DEF Spec

(* Every variable stays in its type.                                       *)
THEOREM TypeCorrect == Spec => []TypeOK
<1>1. IInv => TypeOK
  BY DEF IInv
<1> QED
  BY Invariance, <1>1, PTL

(* No coroutine is resumed, and no frame destroyed, after its destruction, *)
(* for any number of tasks, workers and suspensions, but in the two ways   *)
(* that UsedAlive names: a task of async_run, whose helper does not wait   *)
(* for it, and the last read of the final awaiter of a task that is polled.*)
THEOREM UsedWhileAlive == Spec => []UsedAlive
<1>1. IInv => UsedAlive
  BY DEF IInv
<1> QED
  BY Invariance, <1>1, PTL

(* When nothing runs or waits any more, and no handle was dropped by a     *)
(* stopped executor, every frame that was made has been destroyed.         *)
THEOREM EveryFrameIsDestroyed == Spec => []NothingLeaks
<1> QED
  BY Invariance, NothingLeft, PTL

(* When sync_wait returns, it returns what the body of its task ended      *)
(* with, be it the value or the exception, of task<T> and of task<void>.   *)
SyncWaitAnswers ==
  call = "sync_waited" => answer \in {"value", "error"} /\ answer = ending[Root]

(* It holds in every reachable state.                                      *)
THEOREM SyncWaitTellsTheTruth == Spec => []SyncWaitAnswers
<1>1. IInv => SyncWaitAnswers
  BY DEF IInv, RootTask, TypeOK, SyncWaitAnswers
<1> QED
  BY Invariance, <1>1, PTL
=============================================================================
