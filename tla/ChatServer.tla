----------------------------- MODULE ChatServer -----------------------------
(***************************************************************************)
(* The chat room of coroutine_frame/examples/websocket_server.cpp: one     *)
(* detached coroutine per connection, a list of users under a mutex, and   *)
(* broadcasts that copy the descriptors under the mutex and then await one *)
(* send after the other.  The kernel gives a closed descriptor's number to *)
(* the next connection.                                                    *)
(*                                                                         *)
(* A socket takes what it has room for, a frame or part of one.  A send    *)
(* that finds it full waits in the reactor, which keeps one waiter per     *)
(* descriptor (EpollReactor has its table in detail), and nothing keeps    *)
(* other handlers from writing to the descriptor meanwhile.                *)
(***************************************************************************)
EXTENDS Naturals, Sequences, FiniteSets

CONSTANTS
  N,          (* bound: connections, in the order they are accepted        *)
  MaxFd,      (* bound: descriptors the kernel has                         *)
  Talkers,    (* bound: clients that send texts after the nickname         *)
  MaxTexts,   (* bound: texts of each of them                              *)
  Slow,       (* bound: clients whose sockets fill up                      *)
  MaxFull     (* bound: times that happens                                 *)

VARIABLES
  client,      (* the peer: "away", "connected" or "gone"                  *)
  fd,          (* client_fd, or 0 before accept() and after close()        *)
  handler,     (* where handle_websocket_client is                         *)
  registered,  (* user_registered                                          *)
  texts,       (* texts read from the client so far                        *)
  job,         (* the frame a handler sends, to whom still, what then      *)
  chat_users,  (* chat_users: the connections, in the order they joined    *)
  begun,       (* handlers whose frame has been taken in part: total > 0   *)
  writer,      (* the reactor's waiter for writability of a descriptor     *)
  armed,       (* descriptors the reactor has registered with epoll        *)
  full, fills, (* sockets without room, times one has filled up            *)
  heard,       (* ranks of what a member has received, for each sender     *)
  amid,        (* whose frame a client has received a part of, or Nobody   *)
  torn         (* where a client's stream is torn: whose frame, by whose   *)

ChatAssumption == N \in Nat /\ MaxFd \in Nat /\ MaxTexts \in Nat /\ MaxFull \in Nat

room == <<registered, chat_users>>
reactor == <<writer, armed>>
stream == <<heard, amid, torn>>
network == <<full, fills, stream>>
vars == <<client, fd, handler, texts, job, begun, room, reactor, network>>

Conns == 1 .. N
Nobody == 0
Fds == 1 .. MaxFd
Open == {fd[c] : c \in Conns} \ {0}
ConnOf(d) == CHOOSE c \in Conns : fd[c] = d
NoJob == [rank |-> 0, todo |-> <<>>, then |-> "none"]

Init ==
  /\ client = [c \in Conns |-> "away"]
  /\ fd = [c \in Conns |-> 0]
  /\ handler = [c \in Conns |-> "none"]
  /\ registered = {} /\ chat_users = <<>>
  /\ texts = [c \in Conns |-> 0]
  /\ job = [c \in Conns |-> NoJob] /\ begun = {}
  /\ writer = [d \in Fds |-> Nobody]
  /\ armed = {} /\ full = {} /\ fills = 0
  /\ heard = [c \in Conns |-> [s \in Conns |-> <<>>]]
  /\ amid = [c \in Conns |-> Nobody] /\ torn = [c \in Conns |-> {}]

-----------------------------------------------------------------------------
Goto(c, s) == handler' = [handler EXCEPT ![c] = s]

(* What a connection broadcasts, in its order: join, texts, leave.  Frames *)
(* nobody's order depends on, replies and user lists, have rank 0.         *)
Other == 0
Joined == 1
Text(c) == 2 + texts[c]
Left == 3 + MaxTexts

(* Send a frame to descriptors, in turn, and go on at `next`.              *)
Send(c, rank, fds, next) ==
  IF fds = <<>>
    THEN Goto(c, next) /\ UNCHANGED job
    ELSE /\ job' = [job EXCEPT ![c] = [rank |-> rank, todo |-> fds, then |-> next]]
         /\ Goto(c, "sending")

Reply(c, next) == Send(c, Other, <<fd[c]>>, next)

(* The room without one of its members (each is entered once), the others  *)
(* in their order.                                                         *)
InRoom(c) == \E i \in 1 .. Len(chat_users) : chat_users[i] = c
Without(c) ==
  IF ~InRoom(c)
    THEN chat_users
    ELSE LET place == CHOOSE i \in 1 .. Len(chat_users) : chat_users[i] = c
         IN  [i \in 1 .. Len(chat_users) - 1 |-> chat_users[IF i < place THEN i ELSE i + 1]]

(* broadcast_message copies the descriptors under the mutex.               *)
Broadcast(c, rank, excluded, next) ==
  LET others == Without(excluded)
  IN  Send(c, rank, [i \in 1 .. Len(others) |-> fd[others[i]]], next)

-----------------------------------------------------------------------------
(* The accept loop: the kernel gives the lowest descriptor that is free.   *)
(* The handler's first wait_read arms what the table has for this number,  *)
(* a waiter for writability left by an earlier connection included.        *)
Accept(c) ==
  /\ client[c] = "away" /\ \A b \in 1 .. (c - 1) : client[b] # "away"
  /\ Fds \ Open # {}
  /\ client' = [client EXCEPT ![c] = "connected"]
  /\ fd' = [fd EXCEPT ![c] = CHOOSE d \in Fds \ Open : \A e \in Fds \ Open : d <= e]
  /\ armed' = armed \cup {fd'[c]}
  /\ Goto(c, "handshake")
  /\ UNCHANGED <<texts, job, begun, room, writer, network>>

(* close(), and the coroutine is over: its locals and the connection, with *)
(* what the client got on it, are no more.                                 *)
CloseFd(c) ==
  /\ client' = [client EXCEPT ![c] = "gone"]
  /\ fd' = [fd EXCEPT ![c] = 0]
  /\ armed' = armed \ {fd[c]}
  /\ full' = full \ {fd[c]}
  /\ registered' = registered \ {c}
  /\ texts' = [texts EXCEPT ![c] = 0]
  /\ heard' = [heard EXCEPT ![c] = [s \in Conns |-> <<>>]]
  /\ amid' = [amid EXCEPT ![c] = Nobody] /\ torn' = [torn EXCEPT ![c] = {}]
  /\ Goto(c, "ended")
  /\ UNCHANGED <<job, begun, chat_users, writer, fills>>

(* No request, or a wrong Connection header.                               *)
RefuseHandshake(c) == handler[c] = "handshake" /\ CloseFd(c)

(* A request that is not for a WebSocket: it gets the page.                *)
SendPage(c) ==
  /\ handler[c] = "handshake" /\ client[c] = "connected"
  /\ Reply(c, "closing")
  /\ UNCHANGED <<client, fd, texts, begun, room, reactor, network>>

(* The response, and with it the frame that asks for a nickname.           *)
AcceptHandshake(c) ==
  /\ handler[c] = "handshake" /\ client[c] = "connected"
  /\ Reply(c, "reading")
  /\ UNCHANGED <<client, fd, texts, begun, room, reactor, network>>

-----------------------------------------------------------------------------
(* The message loop: one frame, or none because the connection is over.    *)
Reads(c) == handler[c] = "reading" /\ client[c] = "connected"

(* Mutant: co_return where the code has break.                             *)
ReadEndReturns(c) ==
  /\ handler[c] = "reading" /\ client[c] = "gone"
  /\ Goto(c, "closing")
  /\ UNCHANGED <<client, fd, texts, job, begun, room, reactor, network>>

ReadEnd(c) ==
  /\ handler[c] = "reading" /\ client[c] = "gone"
  /\ Goto(c, "removing")
  /\ UNCHANGED <<client, fd, texts, job, begun, room, reactor, network>>

(* A frame whose header comes in pieces ends the loop, too.                *)
ReadShort(c) ==
  /\ Reads(c)
  /\ Goto(c, "removing")
  /\ UNCHANGED <<client, fd, texts, job, begun, room, reactor, network>>

ReadClose(c) ==
  /\ Reads(c)
  /\ Reply(c, "removing")
  /\ UNCHANGED <<client, fd, texts, begun, room, reactor, network>>

ReadPing(c) ==
  /\ Reads(c)
  /\ Reply(c, "reading")
  /\ UNCHANGED <<client, fd, texts, begun, room, reactor, network>>

(* The first text is the nickname: the user is added under the mutex, then *)
(* it is told, then the others, then everybody gets the list.              *)
ReadNickname(c) ==
  /\ Reads(c) /\ c \notin registered
  /\ registered' = registered \cup {c}
  /\ chat_users' = Append(chat_users, c)
  /\ Reply(c, "joining")
  /\ UNCHANGED <<client, fd, texts, begun, reactor, network>>

ReadText(c) ==
  /\ Reads(c) /\ c \in registered \cap Talkers /\ texts[c] < MaxTexts
  /\ texts' = [texts EXCEPT ![c] = @ + 1]
  /\ Goto(c, "telling")
  /\ UNCHANGED <<client, fd, job, begun, room, reactor, network>>

TellJoin(c) ==
  /\ handler[c] = "joining"
  /\ Broadcast(c, Joined, c, "listing")
  /\ UNCHANGED <<client, fd, texts, begun, room, reactor, network>>

TellText(c) ==
  /\ handler[c] = "telling"
  /\ Broadcast(c, Text(c), Nobody, "reading")
  /\ UNCHANGED <<client, fd, texts, begun, room, reactor, network>>

TellLeave(c) ==
  /\ handler[c] = "leaving"
  /\ Broadcast(c, Left, Nobody, "listing_last")
  /\ UNCHANGED <<client, fd, texts, begun, room, reactor, network>>

(* broadcast_user_list; which names the list has is left out.              *)
TellList(c) ==
  /\ handler[c] \in {"listing", "listing_last"}
  /\ Broadcast(c, Other, Nobody, IF handler[c] = "listing" THEN "reading" ELSE "closing")
  /\ UNCHANGED <<client, fd, texts, begun, room, reactor, network>>

(* After the loop: off the list, then the others are told, and only then   *)
(* the descriptor is closed.                                               *)
Remove(c) ==
  /\ handler[c] = "removing"
  /\ chat_users' = Without(c)
  /\ Goto(c, IF c \in registered THEN "leaving" ELSE "closing")
  /\ UNCHANGED <<client, fd, texts, job, begun, registered, reactor, network>>

Close(c) == handler[c] = "closing" /\ CloseFd(c)

-----------------------------------------------------------------------------
(* ws_send_frame and async_write, for the next descriptor of the job.      *)
Target(c) == Head(job[c].todo)
Connected(d) == d \in Open /\ client[ConnOf(d)] = "connected"

Proceed(c) ==
  /\ begun' = begun \ {c}
  /\ IF Len(job[c].todo) = 1
       THEN Goto(c, job[c].then) /\ job' = [job EXCEPT ![c] = NoJob]
       ELSE Goto(c, "sending") /\ job' = [job EXCEPT ![c].todo = Tail(@)]

(* A closed descriptor, or a dead peer: send() fails and the loop is left. *)
SendFails(c) ==
  /\ handler[c] = "sending" /\ ~Connected(Target(c))
  /\ Proceed(c)
  /\ UNCHANGED <<client, fd, texts, room, reactor, network>>

(* Whoever has the descriptor now gets what is sent.  Its stream goes on   *)
(* with the rest of the frame it is amid of, or with a new one, or it is   *)
(* torn: nothing that follows can be told from the rest of what was cut.   *)
Receiver(c) == ConnOf(Target(c))
Fits(c) ==
  /\ torn[Receiver(c)] = {}
  /\ amid[Receiver(c)] = IF c \in begun THEN c ELSE Nobody

Arrive(c, next) ==
  /\ amid' = [amid EXCEPT ![Receiver(c)] = IF Fits(c) THEN next ELSE Nobody]
  /\ torn' = [torn EXCEPT ![Receiver(c)] =
                IF Fits(c) \/ @ # {} THEN @ ELSE {<<amid[Receiver(c)], c>>}]

(* What reaches a connection that has, by now, the number of a member that *)
(* left is not recorded.                                                   *)
Deliver(c) ==
  IF ~Fits(c) \/ job[c].rank = Other \/ ~InRoom(Receiver(c))
    THEN UNCHANGED heard
    ELSE heard' = [heard EXCEPT ![Receiver(c)][c] = Append(@, job[c].rank)]

HasRoom(c) == handler[c] = "sending" /\ Connected(Target(c)) /\ Target(c) \notin full

(* A socket gets full by what is sent.                                     *)
FillUp(d) ==
  /\ ConnOf(d) \in Slow /\ fills < MaxFull
  /\ full' = full \cup {d} /\ fills' = fills + 1

(* The socket takes what is left of the frame, or it fills up before.      *)
SendTakes(c) ==
  /\ HasRoom(c)
  /\ FillUp(Target(c)) \/ UNCHANGED <<full, fills>>
  /\ Arrive(c, Nobody) /\ Deliver(c)
  /\ Proceed(c)
  /\ UNCHANGED <<client, fd, texts, room, reactor>>

SendTakesPart(c) ==
  /\ HasRoom(c) /\ FillUp(Target(c))
  /\ Arrive(c, c)
  /\ begun' = begun \cup {c}
  /\ UNCHANGED <<client, fd, handler, texts, job, room, reactor, heard>>

Wait(c) ==
  /\ handler[c] = "sending" /\ Connected(Target(c)) /\ Target(c) \in full
  /\ writer' = [writer EXCEPT ![Target(c)] = c]
  /\ armed' = armed \cup {Target(c)}
  /\ Goto(c, "parked")
  /\ UNCHANGED <<client, fd, texts, job, room, network>>

(* Mutant: what the socket has taken is not counted in `total`.            *)
SendWaitsUncounted(c) == Wait(c) /\ begun' = begun \ {c}

(* EAGAIN: co_await io::write_ready(fd).                                   *)
SendWaits(c) == Wait(c) /\ UNCHANGED begun

(* Mutant: the broadcast goes on with the next descriptor.                 *)
WritableSkips(d) ==
  /\ writer[d] # Nobody /\ d \in Open \cap armed
  /\ d \notin full \/ ~Connected(d)
  /\ Proceed(writer[d])
  /\ writer' = [writer EXCEPT ![d] = Nobody]
  /\ UNCHANGED <<client, fd, texts, room, armed, network>>

(* The reactor: there is room again, or the peer is gone.                  *)
Writable(d) ==
  /\ writer[d] # Nobody /\ d \in Open \cap armed
  /\ d \notin full \/ ~Connected(d)
  /\ Goto(writer[d], "sending")
  /\ writer' = [writer EXCEPT ![d] = Nobody]
  /\ UNCHANGED <<client, fd, texts, job, begun, room, armed, network>>

-----------------------------------------------------------------------------
(* The clients and their sockets.                                          *)
Disconnect(c) ==
  /\ client[c] = "connected"
  /\ client' = [client EXCEPT ![c] = "gone"]
  /\ UNCHANGED <<fd, handler, texts, job, begun, room, reactor, network>>

Drain(d) ==
  /\ d \in full
  /\ full' = full \ {d}
  /\ UNCHANGED <<client, fd, handler, texts, job, begun, room, reactor, fills, stream>>

-----------------------------------------------------------------------------
Read(c) ==
  ReadEnd(c) \/ ReadShort(c) \/ ReadClose(c) \/ ReadPing(c) \/ ReadNickname(c) \/ ReadText(c)
Tell(c) == TellJoin(c) \/ TellText(c) \/ TellLeave(c) \/ TellList(c)
Write(c) == SendFails(c) \/ SendTakes(c) \/ SendTakesPart(c) \/ SendWaits(c)
Handshake(c) == RefuseHandshake(c) \/ SendPage(c) \/ AcceptHandshake(c)
Handle(c) == Handshake(c) \/ Read(c) \/ Tell(c) \/ Write(c) \/ Remove(c) \/ Close(c)

Next ==
  \/ \E c \in Conns : Accept(c) \/ Handle(c) \/ Disconnect(c)
  \/ \E d \in Fds : Writable(d) \/ Drain(d)

Spec == Init /\ [][Next]_vars

(* The executor runs every handler that can go on, except that a client    *)
(* need not send anything; the reactor reports, and clients read.          *)
GoesOn(c) == ReadEnd(c) \/ Tell(c) \/ Write(c) \/ Remove(c) \/ Close(c)
Fairness ==
  /\ \A c \in Conns : WF_vars(GoesOn(c))
  /\ \A d \in Fds : WF_vars(Writable(d) \/ Drain(d))

FairSpec == Spec /\ Fairness

-----------------------------------------------------------------------------
(* Whoever copies the room's descriptors gets those of members only: no    *)
(* entry outlives its connection, whose number another may have by then.   *)
RoomIsConnected ==
  \A i \in 1 .. Len(chat_users) :
    /\ fd[chat_users[i]] # 0
    /\ \A j \in 1 .. Len(chat_users) : fd[chat_users[i]] = fd[chat_users[j]] => i = j

(* "Broadcast to all users": what a member says reaches each client in the *)
(* order it was said and once (its join, its texts, its leave), in frames  *)
(* that are whole, up to where a frame of one handler cuts that of another *)
(* in two.  No handler cuts its own.                                       *)
PerSenderOrder ==
  /\ \A c, s \in Conns : \A i, j \in 1 .. Len(heard[c][s]) :
       i < j => heard[c][s][i] < heard[c][s][j]
  /\ \A c \in Conns : \A cut \in torn[c] : cut[1] # cut[2]

(* "Notify others if user was registered": when a connection is over, each *)
(* member that had heard of it has heard, last of all, that it left,       *)
(* unless that member's stream has been torn.                              *)
LeaveIsTold ==
  \A c, r \in Conns :
    handler[c] = "ended" /\ InRoom(r) /\ client[r] = "connected" /\ torn[r] = {} /\ heard[r][c] # <<>>
      => heard[r][c][Len(heard[r][c])] = Left

(* "Broadcast message to all clients": a broadcast that waits for a socket *)
(* goes on when there is room again, as long as the client is there.       *)
BroadcastGoesOn ==
  \A c \in Conns :
    (handler[c] = "parked") ~> (handler[c] # "parked" \/ ~Connected(Target(c)))
-----------------------------------------------------------------------------
(* What the room's theorems rest on.  A handler that sends is on its way   *)
(* to what it does after.                                                  *)
Moving == {"sending", "parked"}
States ==
  Moving \cup {"none", "handshake", "reading", "joining", "listing", "telling", "removing",
               "leaving", "listing_last", "closing", "ended"}
After(c) == IF handler[c] \in Moving THEN job[c].then ELSE handler[c]
InTodo(d, c) == \E i \in 1 .. Len(job[c].todo) : job[c].todo[i] = d

Job == [rank : 0 .. Left, todo : Seq(Fds), then : States]

TypeOK ==
  /\ client \in [Conns -> {"away", "connected", "gone"}]
  /\ fd \in [Conns -> 0 .. MaxFd]
  /\ handler \in [Conns -> States]
  /\ registered \subseteq Conns /\ chat_users \in Seq(Conns)
  /\ texts \in [Conns -> 0 .. MaxTexts]
  /\ job \in [Conns -> Job]
  /\ writer \in [Fds -> Conns \cup {Nobody}]
  /\ armed \subseteq Fds /\ full \subseteq Fds /\ fills \in Nat
  /\ heard \in [Conns -> [Conns -> Seq(1 .. Left)]]
  /\ begun \subseteq Conns /\ amid \in [Conns -> Conns \cup {Nobody}]
  /\ torn \in [Conns -> SUBSET ((Conns \cup {Nobody}) \X Conns)]

(* A connection has a descriptor of its own from accept() to close().      *)
Connections ==
  /\ \A c \in Conns :
       /\ client[c] = "away" <=> handler[c] = "none"
       /\ fd[c] = 0 <=> handler[c] \in {"none", "ended"}
  /\ \A c, b \in Conns : fd[c] = fd[b] /\ fd[c] # 0 => c = b

(* A job names descriptors it has still to send to, each once, and the     *)
(* reactor waits for handlers that are parked.                             *)
Jobs ==
  /\ \A c \in Conns : handler[c] \in Moving =>
       /\ job[c].todo # <<>>
       /\ job[c].then \in {"reading", "joining", "listing", "removing", "listing_last", "closing"}
       /\ \A i, j \in 1 .. Len(job[c].todo) : job[c].todo[i] = job[c].todo[j] => i = j
  /\ \A d \in Fds : writer[d] # Nobody => handler[writer[d]] = "parked"
  /\ \A d, e \in Fds : writer[d] = writer[e] /\ writer[d] # Nobody => d = e

(* Whose frame a client is amid of is still at it.                         *)
Streams ==
  /\ \A c \in begun : handler[c] \in Moving
  /\ \A r \in Conns :
       /\ torn[r] # {} => amid[r] = Nobody
       /\ amid[r] # Nobody =>
            /\ fd[r] # 0
            /\ client[r] = "connected" => amid[r] \in begun /\ Target(amid[r]) = fd[r]

(* Who is on the list: the registered, until they are removed.             *)
Room ==
  /\ \A i, j \in 1 .. Len(chat_users) : chat_users[i] = chat_users[j] => i = j
  /\ \A c \in Conns :
       /\ InRoom(c) <=> c \in registered /\ After(c) \in {"reading", "joining", "listing", "telling", "removing"}
       /\ c \notin registered => After(c) \in {"none", "handshake", "reading", "removing", "closing", "ended"}
       /\ After(c) \in {"none", "handshake", "ended"} => c \notin registered

(* The rank of what a member has last begun to tell the others.            *)
Ranked(c) == handler[c] \in Moving /\ job[c].rank # Other
Said(c) ==
  IF handler[c] = "ended" THEN Left
  ELSE IF c \notin registered \/ After(c) = "joining" THEN 0
  ELSE IF Ranked(c) THEN job[c].rank
  ELSE IF After(c) = "telling" THEN 1 + texts[c]
  ELSE IF After(c) = "leaving" THEN 2 + MaxTexts
  ELSE IF After(c) \in {"listing_last", "closing"} THEN Left
  ELSE 2 + texts[c]

(* Nobody has heard what has not been said, and who has heard what is      *)
(* being told is not told again.                                           *)
Ranks ==
  /\ \A c \in Conns :
       /\ Ranked(c) =>
            /\ c \in registered
            /\ \/ job[c].then \in {"reading", "listing"} /\ job[c].rank <= 2 + texts[c]
               \/ job[c].then = "listing_last" /\ job[c].rank = Left
       /\ handler[c] = "telling" => texts[c] > 0
  /\ \A c, s \in Conns : \A i \in 1 .. Len(heard[c][s]) :
       /\ c \in registered
       /\ heard[c][s][i] <= Said(s)
       /\ Ranked(s) /\ heard[c][s][i] = job[s].rank => ~InTodo(fd[c], s)

(* Once a member has begun to say that it leaves, those who have heard of  *)
(* it have heard that, or are among those still to be told.                *)
Hears(r) == InRoom(r) /\ client[r] = "connected" /\ torn[r] = {}
Told ==
  \A c, r \in Conns :
    After(c) \in {"listing_last", "closing", "ended"} /\ Hears(r) /\ heard[r][c] # <<>>
      => \/ heard[r][c][Len(heard[r][c])] = Left
         \/ Ranked(c) /\ job[c].rank = Left /\ InTodo(fd[r], c)

IInv == TypeOK /\ Connections /\ Jobs /\ Streams /\ Room /\ Ranks /\ PerSenderOrder /\ Told
=============================================================================
