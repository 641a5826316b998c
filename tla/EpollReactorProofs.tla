------------------------- MODULE EpollReactorProofs -------------------------
(***************************************************************************)
(* What holds of the reactor for any sockets and coroutines.  Its table    *)
(* and the kernel agree; a handle is kept in one place at most; and if     *)
(* callers keep to one waiter per direction, a parked one is kept.  The    *)
(* sets of places of EpollReactor.tla are spelt out as facts about the     *)
(* slots, the timers and the taken waiters, which is what steps change.    *)
(***************************************************************************)
EXTENDS EpollReactor, FiniteSetTheorems, TLAPS

(* A slot, a timer and the taken set exclude each other, and no two slots  *)
(* hold the same handle; what is held is parked.                           *)
OnePlace ==
  /\ \A f, g \in Fds : rd[f] \in Handles => rd[f] # wr[g] /\ (rd[f] = rd[g] => f = g)
  /\ \A f, g \in Fds : wr[f] \in Handles /\ wr[f] = wr[g] => f = g
  /\ \A f \in Fds : \A h \in {rd[f], wr[f]} \cap Handles :
       timer[h] = "none" /\ h \notin taken /\ co[h] = "parked"
  /\ \A h \in Handles : timer[h] # "none" => h \notin taken /\ co[h] = "parked"
  /\ \A h \in taken : co[h] = "parked"

(* A parked coroutine is held by a slot, a timer or the taken set.         *)
Kept ==
  \A h \in Handles : co[h] = "parked" =>
    (\E f \in Fds : h \in {rd[f], wr[f]}) \/ timer[h] # "none" \/ h \in taken

-----------------------------------------------------------------------------
(* Nothing is waited for at the start.                                     *)
LEMMA InitAll ==
  ASSUME EpollAssumption PROVE Init => TypeOK /\ KernelAgrees /\ OnePlace /\ Kept
<1> SUFFICES ASSUME Init PROVE TypeOK /\ KernelAgrees /\ OnePlace /\ Kept
  OBVIOUS
<1> USE DEF EpollAssumption, Init
<1>1. TypeOK
  BY DEF TypeOK, NoTimer
<1>2. KernelAgrees /\ OnePlace /\ Kept
  BY DEF KernelAgrees, OnePlace, Kept, NoTimer
<1> QED
  BY <1>1, <1>2

(* Every step keeps the types.                                             *)
LEMMA TypeStep == ASSUME EpollAssumption, TypeOK, [Next]_vars PROVE TypeOK'
<1> USE DEF EpollAssumption, TypeOK, Directions, table
<1>1. ASSUME NEW f \in Fds, NEW h \in Handles, WaitRead(f, h) PROVE TypeOK'
  BY <1>1 DEF WaitRead, Arm
<1>2. ASSUME NEW f \in Fds, NEW h \in Handles, WaitWrite(f, h) PROVE TypeOK'
  BY <1>2 DEF WaitWrite, Arm
<1>3. ASSUME NEW h \in Handles, WaitTimer(h) \/ AddTimer(h) PROVE TypeOK'
  BY <1>3 DEF WaitTimer, AddTimer
<1>4. ASSUME NEW h \in Handles, Resume(h) \/ Expire(h) PROVE TypeOK'
  BY <1>4 DEF Resume, Expire
<1>5. ASSUME NEW f \in Fds, NEW d \in Directions, Consume(f, d) PROVE TypeOK'
  BY <1>5 DEF Consume
<1>6. ASSUME NEW f \in Fds, NEW e \in Directions \cup {"hup"}, BecomesReady(f, e) PROVE TypeOK'
  BY <1>6 DEF BecomesReady
<1>7. CASE Head \/ EpollWait \/ EndOfBatch \/ UNCHANGED vars
  BY <1>7 DEF Head, EpollWait, EndOfBatch, vars
<1>8. CASE Schedule
  BY <1>8 DEF Schedule
<1>9. ASSUME NEW h \in Handles, NEW ev, HandleTimer(h, ev) PROVE TypeOK'
  BY <1>9 DEF HandleTimer
<1>10. ASSUME NEW f \in Fds, NEW ev, HandleSocket(f, ev) PROVE TypeOK'
  BY <1>10 DEF HandleSocket, Woken, ClearWoken, Rearm, Arm
<1>11. CASE Stop \/ AddWakeTimer \/ JoinAndClose
  BY <1>11 DEF Stop, AddWakeTimer, JoinAndClose
<1> QED
  BY <1>1, <1>2, <1>3, <1>4, <1>5, <1>6, <1>7, <1>8, <1>9, <1>10, <1>11
     DEF Next, ReactorStep, Shutdown, Terminating

(* Every step keeps the table's masks those of the waiters and of the      *)
(* kernel: only the two waits, a socket's event and close() touch them.    *)
LEMMA AgreesStep ==
  ASSUME EpollAssumption, TypeOK, KernelAgrees, [Next]_vars PROVE KernelAgrees'
<1> USE DEF EpollAssumption, TypeOK, KernelAgrees, EpollOpen, Directions, table
<1>1. ASSUME NEW f \in Fds, NEW h \in Handles, WaitRead(f, h) PROVE KernelAgrees'
  BY <1>1 DEF WaitRead, Arm
<1>2. ASSUME NEW f \in Fds, NEW h \in Handles, WaitWrite(f, h) PROVE KernelAgrees'
  BY <1>2 DEF WaitWrite, Arm
<1>3. ASSUME NEW h \in Handles, WaitTimer(h) \/ AddTimer(h) \/ Resume(h) \/ Expire(h)
      PROVE  KernelAgrees'
  BY <1>3 DEF WaitTimer, AddTimer, Resume, Expire
<1>4. ASSUME NEW f \in Fds, NEW e, Consume(f, e) \/ BecomesReady(f, e) PROVE KernelAgrees'
  BY <1>4 DEF Consume, BecomesReady
<1>5. CASE Head \/ EpollWait \/ Schedule \/ EndOfBatch \/ UNCHANGED vars
  BY <1>5 DEF Head, EpollWait, Schedule, EndOfBatch, vars
<1>6. ASSUME NEW h \in Handles, NEW ev, HandleTimer(h, ev) PROVE KernelAgrees'
  BY <1>6 DEF HandleTimer
<1>7. ASSUME NEW f \in Fds, NEW ev, HandleSocket(f, ev) PROVE KernelAgrees'
  BY <1>7 DEF HandleSocket, ClearWoken, Rearm, Arm
<1>8. CASE Stop \/ AddWakeTimer \/ JoinAndClose
  BY <1>8 DEF Stop, AddWakeTimer, JoinAndClose
<1> QED
  BY <1>1, <1>2, <1>3, <1>4, <1>5, <1>6, <1>7, <1>8
     DEF Next, ReactorStep, Shutdown, Terminating

(* Every step keeps handles in one place: a wait puts a running coroutine  *)
(* in one, an event moves it from there to the taken set, the executor     *)
(* gets it from there.                                                     *)
LEMMA OnePlaceStep ==
  ASSUME EpollAssumption, TypeOK, OnePlace, [Next]_vars PROVE OnePlace'
<1> USE DEF EpollAssumption, TypeOK, OnePlace, table
<1>1. ASSUME NEW f \in Fds, NEW h \in Handles, WaitRead(f, h) PROVE OnePlace'
  BY <1>1 DEF WaitRead
<1>2. ASSUME NEW f \in Fds, NEW h \in Handles, WaitWrite(f, h) PROVE OnePlace'
  BY <1>2 DEF WaitWrite
<1>3. ASSUME NEW h \in Handles, WaitTimer(h) \/ AddTimer(h) PROVE OnePlace'
  BY <1>3 DEF WaitTimer, AddTimer
<1>4. ASSUME NEW h \in Handles, Resume(h) \/ Expire(h) PROVE OnePlace'
  BY <1>4 DEF Resume, Expire
<1>5. ASSUME NEW f \in Fds, NEW e, Consume(f, e) \/ BecomesReady(f, e) PROVE OnePlace'
  BY <1>5 DEF Consume, BecomesReady
<1>6. CASE Head \/ EpollWait \/ EndOfBatch \/ Stop \/ Shutdown \/ UNCHANGED vars
  BY <1>6 DEF Head, EpollWait, EndOfBatch, Stop, Shutdown, AddWakeTimer, JoinAndClose, vars
<1>7. CASE Schedule
  BY <1>7 DEF Schedule
<1>8. ASSUME NEW h \in Handles, NEW ev, HandleTimer(h, ev) PROVE OnePlace'
  BY <1>8 DEF HandleTimer
<1>9. ASSUME NEW f \in Fds, NEW ev, HandleSocket(f, ev) PROVE OnePlace'
  BY <1>9 DEF HandleSocket, Woken, ClearWoken
<1> QED
  BY <1>1, <1>2, <1>3, <1>4, <1>5, <1>6, <1>7, <1>8, <1>9
     DEF Next, ReactorStep, Terminating

(* Every step keeps the parked coroutines, if a wait finds its slot empty. *)
LEMMA KeptStep ==
  ASSUME EpollAssumption, OneWaiter, TypeOK, Kept, [Next]_vars PROVE Kept'
<1> USE DEF EpollAssumption, TypeOK, Kept, table
<1>1. ASSUME NEW f \in Fds, NEW h \in Handles, WaitRead(f, h) PROVE Kept'
  BY <1>1 DEF WaitRead
<1>2. ASSUME NEW f \in Fds, NEW h \in Handles, WaitWrite(f, h) PROVE Kept'
  BY <1>2 DEF WaitWrite
<1>3. ASSUME NEW h \in Handles, WaitTimer(h) \/ AddTimer(h) PROVE Kept'
  BY <1>3 DEF WaitTimer, AddTimer
<1>4. ASSUME NEW h \in Handles, Resume(h) \/ Expire(h) PROVE Kept'
  BY <1>4 DEF Resume, Expire
<1>5. ASSUME NEW f \in Fds, NEW e, Consume(f, e) \/ BecomesReady(f, e) PROVE Kept'
  BY <1>5 DEF Consume, BecomesReady
<1>6. CASE Head \/ EpollWait \/ EndOfBatch \/ Stop \/ Shutdown \/ UNCHANGED vars
  BY <1>6 DEF Head, EpollWait, EndOfBatch, Stop, Shutdown, AddWakeTimer, JoinAndClose, vars
<1>7. CASE Schedule
  BY <1>7 DEF Schedule
<1>8. ASSUME NEW h \in Handles, NEW ev, HandleTimer(h, ev) PROVE Kept'
  BY <1>8 DEF HandleTimer
<1>9. ASSUME NEW f \in Fds, NEW ev, HandleSocket(f, ev) PROVE Kept'
  BY <1>9 DEF HandleSocket, Woken, ClearWoken
<1> QED
  BY <1>1, <1>2, <1>3, <1>4, <1>5, <1>6, <1>7, <1>8, <1>9
     DEF Next, ReactorStep, Terminating

-----------------------------------------------------------------------------
(* Places(h), in terms of the slots, the timers and the taken set.         *)
LEMMA PlacesOf ==
  ASSUME EpollAssumption, TypeOK, NEW h \in Handles
  PROVE  /\ OnePlace => Cardinality(Places(h)) <= 1 /\ (Places(h) # {} => co[h] = "parked")
         /\ Kept => (co[h] = "parked" => Places(h) # {})
<1> DEFINE Rd == {<<f, "in">> : f \in {g \in Fds : rd[g] = h}}
           Wr == {<<f, "out">> : f \in {g \in Fds : wr[g] = h}}
           Ti == IF timer[h] # "none" THEN {<<h, "timer">>} ELSE {}
           Ta == IF h \in taken THEN {<<h, "taken">>} ELSE {}
<1>1. Places(h) = Rd \cup Wr \cup Ti \cup Ta
  BY DEF Places
<1>2. ASSUME OnePlace PROVE \A p, q \in Places(h) : p = q
  BY <1>1, <1>2 DEF OnePlace, EpollAssumption, TypeOK
<1>3. ASSUME OnePlace, Places(h) # {} PROVE co[h] = "parked"
  BY <1>1, <1>3 DEF OnePlace
<1>4. ASSUME OnePlace PROVE Cardinality(Places(h)) <= 1
  <2>1. CASE Places(h) = {}
    BY <2>1, FS_EmptySet
  <2>2. ASSUME NEW p \in Places(h) PROVE Cardinality(Places(h)) <= 1
    <3>1. Places(h) = {p}
      BY <1>2, <1>4, <2>2
    <3>2. Cardinality({p}) = 1
      BY FS_Singleton
    <3> QED
      BY <3>1, <3>2
  <2> QED
    BY <2>1, <2>2
<1>5. ASSUME Kept, co[h] = "parked" PROVE Places(h) # {}
  <2>1. CASE timer[h] # "none" \/ h \in taken
    BY <1>1, <2>1
  <2>2. ASSUME NEW f \in Fds, h \in {rd[f], wr[f]} PROVE Places(h) # {}
    <3>1. <<f, "in">> \in Rd \/ <<f, "out">> \in Wr
      BY <2>2
    <3> QED
      BY <1>1, <3>1
  <2> QED
    BY <1>5, <2>1, <2>2 DEF Kept
<1> QED
  BY <1>3, <1>4, <1>5

(* The variables keep their types.                                         *)
THEOREM TypeCorrect == ASSUME EpollAssumption PROVE Spec => []TypeOK
<1>1. TypeOK /\ [Next]_vars => TypeOK'
  BY TypeStep
<1> QED
  BY InitAll, <1>1, PTL DEF Spec

(* The masks, the waiters and the kernel's interest agree, however         *)
(* registrations, events, re-arming and shutdown() interleave              *)
(* (io_epoll.cpp: wait_read, wait_write, run, arm_fd).                     *)
THEOREM TableAgrees == ASSUME EpollAssumption PROVE Spec => []KernelAgrees
<1>1. TypeOK /\ KernelAgrees /\ [Next]_vars => KernelAgrees'
  BY AgreesStep
<1> QED
  BY InitAll, <1>1, TypeCorrect, PTL DEF Spec

(* No coroutine is handed to the executor twice for one wait, or while it  *)
(* runs, whether callers keep to one waiter per direction or not           *)
(* (io_epoll.cpp: the waiters are taken out under mu_).                    *)
THEOREM Once == ASSUME EpollAssumption PROVE Spec => []ResumedOnce
<1>1. TypeOK /\ OnePlace /\ [Next]_vars => OnePlace'
  BY OnePlaceStep
<1>2. TypeOK /\ OnePlace => ResumedOnce
  BY PlacesOf DEF ResumedOnce
<1> QED
  BY InitAll, <1>1, <1>2, TypeCorrect, PTL DEF Spec

(* No parked coroutine is forgotten, if callers keep to one waiter per     *)
(* descriptor and direction (io_epoll.cpp: rd and wr are overwritten).     *)
THEOREM Forgotten == ASSUME EpollAssumption, OneWaiter PROVE Spec => []NobodyForgotten
<1>1. TypeOK /\ Kept /\ [Next]_vars => Kept'
  BY KeptStep
<1>2. TypeOK /\ Kept => NobodyForgotten
  BY PlacesOf DEF NobodyForgotten
<1> QED
  BY InitAll, <1>1, <1>2, TypeCorrect, PTL DEF Spec
=============================================================================
