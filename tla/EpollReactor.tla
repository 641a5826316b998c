---------------------------- MODULE EpollReactor ----------------------------
(***************************************************************************)
(* The epoll reactor of coroutine_frame/core (io_epoll.h, io_epoll.cpp):   *)
(* coroutines on executor threads register for a descriptor's direction or *)
(* a timer and park; the reactor thread takes a batch of events from the   *)
(* kernel and hands the waiters back to the executor; shutdown() stops the *)
(* thread and closes the epoll instance.                                   *)
(*                                                                         *)
(* A block under mu_ is one step, with the epoll_ctl it contains.  Events: *)
(* "in" stands for EPOLLIN and EPOLLRDHUP, "hup" for EPOLLHUP and EPOLLERR *)
(* (which the kernel reports of every registered descriptor, asked or      *)
(* not).  Level-triggered: what is ready stays so until it is consumed.    *)
(***************************************************************************)
EXTENDS Naturals, FiniteSets

CONSTANTS
  Fds,         (* sockets                                                  *)
  Handles,     (* coroutines                                               *)
  NoHandle,    (* the null handle                                          *)
  OneWaiter    (* TRUE: callers keep to one waiter per fd and direction,   *)
               (* as http_server.cpp does; broadcasts do not               *)

EpollAssumption ==
  NoHandle \notin Handles /\ Fds \cap Handles = {} /\ OneWaiter \in BOOLEAN

VARIABLES
  rd, wr,      (* waiters_[fd].rd and .wr; no entry: both NoHandle         *)
  mask,        (* waiters_[fd].mask, without the bits always reported      *)
  interest,    (* the kernel's interest in fd; {} if not registered        *)
  ready,       (* what is ready on fd                                      *)
  timer,       (* timer[h]: "none", "mapped" in timer_waiters_, "armed"    *)
               (* once added to epoll                                      *)
  expired,     (* timers whose time has come                               *)
  co,          (* co[h]: "running", "parked", "scheduled"                  *)
  batch,       (* events returned by epoll_wait and not yet handled        *)
  taken,       (* waiters taken out under mu_, to be scheduled             *)
  loop,        (* where the reactor thread is                              *)
  shut,        (* where shutdown() is                                      *)
  wake         (* shutdown()'s own timer is registered                     *)

vars == <<rd, wr, mask, interest, ready, timer, expired, co, batch, taken, loop, shut, wake>>
table == <<rd, wr, mask, interest>>

Directions == {"in", "out"}
NoTimer == [h \in Handles |-> "none"]

Init ==
  /\ rd = [f \in Fds |-> NoHandle] /\ wr = [f \in Fds |-> NoHandle]
  /\ mask = [f \in Fds |-> {}] /\ interest = [f \in Fds |-> {}]
  /\ ready = [f \in Fds |-> {}]
  /\ timer = NoTimer /\ expired = {}
  /\ co = [h \in Handles |-> "running"]
  /\ batch = {} /\ taken = {}
  /\ loop = "head" /\ shut = "no" /\ wake = FALSE

EpollOpen == shut # "down"

-----------------------------------------------------------------------------
(* Requests, from executor threads                                         *)

(* arm_fd: EPOLL_CTL_MOD or ADD; after shutdown() it fails and the failure *)
(* is ignored.                                                             *)
Arm(f, m) == IF EpollOpen THEN [interest EXCEPT ![f] = m] ELSE interest

WaitRead(f, h) ==
  /\ co[h] = "running"
  /\ OneWaiter => rd[f] = NoHandle
  /\ rd' = [rd EXCEPT ![f] = h]
  /\ mask' = [mask EXCEPT ![f] = @ \cup {"in"}]
  /\ interest' = Arm(f, mask'[f])
  /\ co' = [co EXCEPT ![h] = "parked"]
  /\ UNCHANGED <<wr, ready, timer, expired, batch, taken, loop, shut, wake>>

(* Mutant: `mask = EPOLLOUT` for `mask |= EPOLLOUT`.                       *)
WaitWriteOnly(f, h) ==
  /\ co[h] = "running"
  /\ OneWaiter => wr[f] = NoHandle
  /\ wr' = [wr EXCEPT ![f] = h]
  /\ mask' = [mask EXCEPT ![f] = {"out"}]
  /\ interest' = Arm(f, mask'[f])
  /\ co' = [co EXCEPT ![h] = "parked"]
  /\ UNCHANGED <<rd, ready, timer, expired, batch, taken, loop, shut, wake>>

WaitWrite(f, h) ==
  /\ co[h] = "running"
  /\ OneWaiter => wr[f] = NoHandle
  /\ wr' = [wr EXCEPT ![f] = h]
  /\ mask' = [mask EXCEPT ![f] = @ \cup {"out"}]
  /\ interest' = Arm(f, mask'[f])
  /\ co' = [co EXCEPT ![h] = "parked"]
  /\ UNCHANGED <<rd, ready, timer, expired, batch, taken, loop, shut, wake>>

(* wait_timer: the map entry under mu_ ...                                 *)
WaitTimer(h) ==
  /\ co[h] = "running"
  /\ timer' = [timer EXCEPT ![h] = "mapped"]
  /\ expired' = expired \ {h}
  /\ co' = [co EXCEPT ![h] = "parked"]
  /\ UNCHANGED <<table, ready, batch, taken, loop, shut, wake>>

(* ... then EPOLL_CTL_ADD without it.                                      *)
AddTimer(h) ==
  /\ timer[h] = "mapped" /\ EpollOpen
  /\ timer' = [timer EXCEPT ![h] = "armed"]
  /\ UNCHANGED <<table, ready, expired, co, batch, taken, loop, shut, wake>>

(* The executor resumes a scheduled coroutine; it reads or writes until    *)
(* the call would block, or finds nothing to do (a late wake-up).          *)
Resume(h) ==
  /\ co[h] = "scheduled"
  /\ co' = [co EXCEPT ![h] = "running"]
  /\ UNCHANGED <<table, ready, timer, expired, batch, taken, loop, shut, wake>>

(* A coroutine that uses f consumes a direction nobody waits for.          *)
Consume(f, d) ==
  /\ d \in ready[f]
  /\ (IF d = "in" THEN rd[f] ELSE wr[f]) = NoHandle
  /\ ready' = [ready EXCEPT ![f] = @ \ {d}]
  /\ UNCHANGED <<table, timer, expired, co, batch, taken, loop, shut, wake>>

(* The peer and the clock.                                                 *)
BecomesReady(f, e) ==
  /\ e \notin ready[f]
  /\ ready' = [ready EXCEPT ![f] = @ \cup {e}]
  /\ UNCHANGED <<table, timer, expired, co, batch, taken, loop, shut, wake>>

Expire(h) ==
  /\ timer[h] # "none" /\ h \notin expired
  /\ expired' = expired \cup {h}
  /\ UNCHANGED <<table, ready, timer, co, batch, taken, loop, shut, wake>>

-----------------------------------------------------------------------------
(* run()                                                                   *)

(* while (!stop_)                                                          *)
Head ==
  /\ loop = "head"
  /\ loop' = IF shut = "no" THEN "wait" ELSE "exited"
  /\ UNCHANGED <<table, ready, timer, expired, co, batch, taken, shut, wake>>

Reported(f) ==
  IF interest[f] = {} THEN {} ELSE ready[f] \cap (interest[f] \cup {"hup"})

(* One event per descriptor; at most MAXE = 64 descriptors are assumed.    *)
Events ==
  {<<f, Reported(f)>> : f \in {g \in Fds : Reported(g) # {}}}
  \cup {<<h, {"in"}>> : h \in {k \in expired : timer[k] = "armed"}}

EpollWait ==
  /\ loop = "wait"
  /\ Events # {} \/ wake
  /\ batch' = Events
  /\ loop' = "batch"
  /\ UNCHANGED <<table, ready, timer, expired, co, taken, shut, wake>>

(* A timer's event: its entry is erased and its descriptor closed.         *)
HandleTimer(h, ev) ==
  /\ loop = "batch" /\ taken = {}
  /\ <<h, ev>> \in batch /\ timer[h] # "none"
  /\ batch' = batch \ {<<h, ev>>}
  /\ timer' = [timer EXCEPT ![h] = "none"]
  /\ taken' = {h}
  /\ UNCHANGED <<table, ready, expired, co, loop, shut, wake>>

(* A socket's event: the waiters it concerns, the mask without their bits, *)
(* and re-arming, or DEL when nobody waits any more.                       *)
Wakes(d, ev) == d \in ev \/ "hup" \in ev

Woken(f, ev) ==
  ((IF Wakes("in", ev) THEN {rd[f]} ELSE {})
   \cup (IF Wakes("out", ev) THEN {wr[f]} ELSE {})) \ {NoHandle}

(* Mutants: the waiter stays in its slot; both slots are cleared whatever  *)
(* the event.                                                              *)
KeepWoken(waiters, f, woken) == waiters
ClearAll(waiters, f, woken) == [waiters EXCEPT ![f] = NoHandle]

ClearWoken(waiters, f, woken) ==
  IF woken THEN [waiters EXCEPT ![f] = NoHandle] ELSE waiters

(* Mutant: DEL although the other direction is still waited for.           *)
Disarm(f, m) == Arm(f, {})

Rearm(f, m) == Arm(f, m)

HandleSocket(f, ev) ==
  /\ loop = "batch" /\ taken = {}
  /\ <<f, ev>> \in batch
  /\ batch' = batch \ {<<f, ev>>}
  /\ taken' = Woken(f, ev)
  /\ rd' = ClearWoken(rd, f, Wakes("in", ev))
  /\ wr' = ClearWoken(wr, f, Wakes("out", ev))
  /\ mask' = [mask EXCEPT ![f] = {d \in @ : ~Wakes(d, ev)}]
  /\ interest' = Rearm(f, mask'[f])
  /\ UNCHANGED <<ready, timer, expired, co, loop, shut, wake>>

(* get_global_executor().schedule(...), without mu_.                       *)
Schedule ==
  /\ loop = "batch" /\ taken # {}
  /\ co' = [h \in Handles |-> IF h \in taken THEN "scheduled" ELSE co[h]]
  /\ taken' = {}
  /\ UNCHANGED <<table, ready, timer, expired, batch, loop, shut, wake>>

EndOfBatch ==
  /\ loop = "batch" /\ taken = {} /\ batch = {}
  /\ loop' = "head"
  /\ UNCHANGED <<table, ready, timer, expired, co, batch, taken, shut, wake>>

-----------------------------------------------------------------------------
(* shutdown(): the flag, a timer to wake the loop, join, close.            *)
Stop ==
  /\ shut = "no"
  /\ shut' = "stopping"
  /\ UNCHANGED <<table, ready, timer, expired, co, batch, taken, loop, wake>>

(* Mutant: the flag alone is to stop the loop.                             *)
AddNoWakeTimer ==
  /\ shut = "stopping"
  /\ shut' = "joining"
  /\ UNCHANGED <<table, ready, timer, expired, co, batch, taken, loop, wake>>

AddWakeTimer ==
  /\ shut = "stopping"
  /\ wake' = TRUE
  /\ shut' = "joining"
  /\ UNCHANGED <<table, ready, timer, expired, co, batch, taken, loop>>

JoinAndClose ==
  /\ shut = "joining" /\ loop = "exited"
  /\ shut' = "down"
  /\ interest' = [f \in Fds |-> {}]
  /\ UNCHANGED <<rd, wr, mask, ready, timer, expired, co, batch, taken, loop, wake>>

(* Nothing has to happen after shutdown: not a step of the code.           *)
Terminating == shut = "down" /\ UNCHANGED vars

ReactorStep ==
  \/ Head \/ EpollWait \/ Schedule \/ EndOfBatch
  \/ \E h \in Handles, ev \in SUBSET Directions : HandleTimer(h, ev)
  \/ \E f \in Fds, ev \in SUBSET (Directions \cup {"hup"}) : HandleSocket(f, ev)
Shutdown == AddWakeTimer \/ JoinAndClose

Next ==
  \/ \E f \in Fds, h \in Handles : WaitRead(f, h) \/ WaitWrite(f, h)
  \/ \E h \in Handles : WaitTimer(h) \/ AddTimer(h) \/ Resume(h) \/ Expire(h)
  \/ \E f \in Fds, d \in Directions : Consume(f, d)
  \/ \E f \in Fds, e \in Directions \cup {"hup"} : BecomesReady(f, e)
  \/ ReactorStep \/ Stop \/ Shutdown
  \/ Terminating

Spec == Init /\ [][Next]_vars

(* The reactor thread, the thread inside wait_timer and the one inside     *)
(* shutdown() run.  Peers, the clock and coroutines do as they like.       *)
FairSpec ==
  /\ Spec /\ WF_vars(ReactorStep) /\ WF_vars(Shutdown)
  /\ \A h \in Handles : WF_vars(AddTimer(h))
-----------------------------------------------------------------------------
(* Properties                                                              *)

TypeOK ==
  /\ rd \in [Fds -> Handles \cup {NoHandle}] /\ wr \in [Fds -> Handles \cup {NoHandle}]
  /\ mask \in [Fds -> SUBSET Directions] /\ interest \in [Fds -> SUBSET Directions]
  /\ ready \in [Fds -> SUBSET (Directions \cup {"hup"})]
  /\ timer \in [Handles -> {"none", "mapped", "armed"}] /\ expired \in SUBSET Handles
  /\ co \in [Handles -> {"running", "parked", "scheduled"}]
  /\ taken \in SUBSET Handles
  /\ loop \in {"head", "wait", "batch", "exited"}
  /\ shut \in {"no", "stopping", "joining", "down"} /\ wake \in BOOLEAN

(* The places where the reactor keeps h.                                   *)
Places(h) ==
  {<<f, "in">> : f \in {g \in Fds : rd[g] = h}} \cup {<<f, "out">> : f \in {g \in Fds : wr[g] = h}}
  \cup (IF timer[h] # "none" THEN {<<h, "timer">>} ELSE {})
  \cup (IF h \in taken THEN {<<h, "taken">>} ELSE {})

(* No coroutine is handed to the executor twice for one wait, or while it  *)
(* runs: the reactor keeps a handle in at most one place, and only while   *)
(* the coroutine is parked.                                                *)
ResumedOnce ==
  \A h \in Handles :
    Cardinality(Places(h)) <= 1 /\ (Places(h) # {} => co[h] = "parked")

(* No parked coroutine is forgotten: the reactor keeps it somewhere.       *)
NobodyForgotten == \A h \in Handles : co[h] = "parked" => Places(h) # {}

(* While epoll is open, the mask kept in the table, the waiters and the    *)
(* kernel's interest agree.  A bit too few would be a waiter that is never *)
(* woken, a bit too many a level-triggered loop that spins.                *)
KernelAgrees ==
  \A f \in Fds :
    /\ "in" \in mask[f] <=> rd[f] # NoHandle
    /\ "out" \in mask[f] <=> wr[f] # NoHandle
    /\ EpollOpen => interest[f] = mask[f]

(* A waiter whose descriptor is ready is handed back, unless the reactor   *)
(* is being shut down; so is a sleeper whose time has come.                *)
DueIsResumed ==
  /\ \A h \in Handles, f \in Fds :
       /\ rd[f] = h /\ "in" \in ready[f] ~> rd[f] # h \/ shut # "no"
       /\ wr[f] = h /\ "out" \in ready[f] ~> wr[f] # h \/ shut # "no"
  /\ \A h \in Handles :
       timer[h] # "none" /\ h \in expired ~> timer[h] = "none" \/ shut # "no"

(* shutdown() returns: the loop sees the flag or the wake-up timer.        *)
ShutdownReturns == shut = "stopping" ~> shut = "down"
=============================================================================
