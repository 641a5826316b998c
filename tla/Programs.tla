------------------------------- MODULE Programs -------------------------------
(***************************************************************************)
(* Five programs of the repository that have nothing to do with each       *)
(* other: kind says which of them runs, and what the others would have     *)
(* stays None.                                                             *)
(***************************************************************************)
EXTENDS Naturals, Sequences

CONSTANTS
  N, MaxFd, Talkers, MaxTexts, Slow, MaxFull,                      \* chat server
  Pages, Seed, Host(_), Scheme(_), HasPort(_), LinkLists,         \* crawler
  MaxPerPage, Disallowed,
  NumProducers, NumConsumers, TotalItems, Size,                    \* ring buffer
  Lengths, MaxFrames, MaxCuts,                                     \* frames
  Hosts, Paths, Files, Callers                                     \* robots.txt

VARIABLES
  kind,
  client, fd, handler, registered, texts, job, chat_users,         \* chat server
  writer, armed, full, fills, heard, begun, amid, torn,
  links, seen, posted, sessions, stored,                           \* crawler
  pc, todo, buffer, in, out, count, mutex, slots, items,           \* ring buffer
  total_produced, total_consumed, put, taken,
  sent, at, stage, frame, total_read, returned, cuts,              \* frames
  rules, call, served                                              \* robots.txt

chat == <<client, fd, handler, registered, texts, job, chat_users,
          writer, armed, full, fills, heard, begun, amid, torn>>
crawl == <<links, seen, posted, sessions, stored>>
ring == <<pc, todo, buffer, in, out, count, mutex, slots, items,
          total_produced, total_consumed, put, taken>>
frames == <<sent, at, stage, frame, total_read, returned, cuts>>
robots == <<rules, call, served>>

Chat == INSTANCE ChatServer
Crawl == INSTANCE Crawler WITH Start <- Seed
Ring == INSTANCE BoundedBuffer WITH empty <- slots, full <- items
Frame == INSTANCE WebSocketFrame
Robot == INSTANCE Robots

ASSUME ProgramsAssumption ==
  /\ Chat!ChatAssumption /\ Crawl!CrawlerAssumption
  /\ Ring!BufferAssumption /\ Frame!FrameAssumption /\ Robot!RobotsAssumption

-----------------------------------------------------------------------------
None == 0
NoChat ==
  /\ client = None /\ fd = None /\ handler = None /\ registered = None
  /\ texts = None /\ job = None /\ chat_users = None /\ writer = None
  /\ armed = None /\ full = None /\ fills = None /\ heard = None
  /\ begun = None /\ amid = None /\ torn = None
NoCrawl == links = None /\ seen = None /\ posted = None /\ sessions = None /\ stored = None
NoRing ==
  /\ pc = None /\ todo = None /\ buffer = None /\ in = None /\ out = None
  /\ count = None /\ mutex = None /\ slots = None /\ items = None
  /\ total_produced = None /\ total_consumed = None /\ put = None /\ taken = None
NoFrames ==
  /\ sent = None /\ at = None /\ stage = None /\ frame = None
  /\ total_read = None /\ returned = None /\ cuts = None
NoRobots == rules = None /\ call = None /\ served = None

Init ==
  \/ kind = "chat" /\ Chat!Init /\ NoCrawl /\ NoRing /\ NoFrames /\ NoRobots
  \/ kind = "crawler" /\ Crawl!Init /\ NoChat /\ NoRing /\ NoFrames /\ NoRobots
  \/ kind = "ring" /\ Ring!Init /\ NoChat /\ NoCrawl /\ NoFrames /\ NoRobots
  \/ kind = "frames" /\ Frame!Init /\ NoChat /\ NoCrawl /\ NoRing /\ NoRobots
  \/ kind = "robots" /\ Robot!Init /\ NoChat /\ NoCrawl /\ NoRing /\ NoFrames

Next ==
  \/ kind = "chat" /\ Chat!Next /\ UNCHANGED <<kind, crawl, ring, frames, robots>>
  \/ kind = "crawler" /\ Crawl!Next /\ UNCHANGED <<kind, chat, ring, frames, robots>>
  \/ kind = "ring" /\ Ring!Next /\ UNCHANGED <<kind, chat, crawl, frames, robots>>
  \/ kind = "frames" /\ Frame!Next /\ UNCHANGED <<kind, chat, crawl, ring, robots>>
  \/ kind = "robots" /\ Robot!Next /\ UNCHANGED <<kind, chat, crawl, ring, frames>>

vars == <<kind, chat, crawl, ring, frames, robots>>

Spec == Init /\ [][Next]_vars

-----------------------------------------------------------------------------
(* Properties: what the module of each kind says of it.                    *)

(* websocket_server.cpp: the room's descriptors are those of its members.  *)
RoomIsConnected == kind = "chat" => Chat!RoomIsConnected

(* websocket_server.cpp: nobody hears, in whole frames, what a member says *)
(* out of order or twice, and no handler cuts a frame of its own.          *)
PerSenderOrder == kind = "chat" => Chat!PerSenderOrder

(* websocket_server.cpp: who has heard of a member hears that it has left, *)
(* unless its stream was torn by a frame put into the middle of another.   *)
LeaveIsTold == kind = "chat" => Chat!LeaveIsTold

(* Scheduler.cpp: no page is fetched twice, no fetch calls back twice.     *)
FetchedOnce == kind = "crawler" => Crawl!FetchedOnce

(* Scheduler.cpp: links of stored pages are followed, up to max_per_page.  *)
CrawlIsComplete == kind = "crawler" => Crawl!CrawlIsComplete

(* producer_consumer.c: items leave the ring in order, none lost or twice. *)
BufferIsFifo == kind = "ring" => Ring!BufferIsFifo

(* websocket_server.cpp: frames are read as sent, wherever reads are cut.  *)
FramesAsSent == kind = "frames" => Frame!FramesAsSent

(* producer_consumer.c: no thread is left waiting; main()'s joins return.  *)
JoinsReturn == kind = "ring" => Ring!JoinsReturn

(* Robots.cpp: callers are told what a file the host has answered says.    *)
AnswersFollowFiles == [][kind = "robots" => Robot!AnswerFollowsFile]_robots
=============================================================================
