------------------------------ MODULE Crawler -------------------------------
(***************************************************************************)
(* The crawl of scraping/src: Scheduler::add_url and the callback that     *)
(* schedules the links of a page, over Fetcher::async_fetch, whose HTTP    *)
(* and HTTPS sessions are chains of handlers run by several threads, and   *)
(* Storage.                                                                *)
(*                                                                         *)
(* A URL is a page of the site and whether a fragment follows.  What a     *)
(* page says, and Parser, are the list of its links.                       *)
(***************************************************************************)
EXTENDS Naturals, Sequences, FiniteSets

CONSTANTS
  Pages,
  Start,          (* the page the crawl starts from                        *)
  Host(_),        (* a page's server                                       *)
  Scheme(_),      (* "http", "https" or "mailto"                           *)
  HasPort(_),     (* its URL names a port                                  *)
  LinkLists,      (* what links a page may have                            *)
  MaxPerPage,     (* max_per_page                                          *)
  Disallowed      (* pages the robots.txt of their host disallows          *)

Link == [page : Pages, fragment : BOOLEAN, nofollow : BOOLEAN]
CrawlerAssumption == Start \in Pages /\ LinkLists \subseteq Seq(Link) /\ MaxPerPage \in Nat

VARIABLES
  links,          (* the site: the links of each page                      *)
  seen,           (* seen, of add_url                                      *)
  posted,         (* URLs posted to the io_context, in order               *)
  sessions,       (* the fetches so far, in the order they were started    *)
  stored          (* records in the output file                            *)

vars == <<links, seen, posted, sessions, stored>>

(* What other servers have is not asked for.                               *)
Crawled(page) == Scheme(page) \in {"http", "https"} /\ Host(page) = Host(Start)

Url(page) == [page |-> page, fragment |-> FALSE]

(* Mutant: the URL is inserted when its page has been fetched.             *)
AddUrlUnmarked(url) ==
  IF url \in seen
    THEN UNCHANGED <<seen, posted>>
    ELSE posted' = Append(posted, url) /\ UNCHANGED seen

(* add_url looks the URL up and inserts it under one lock, then posts it.  *)
AddUrl(url) ==
  IF url \in seen
    THEN UNCHANGED <<seen, posted>>
    ELSE seen' = seen \cup {url} /\ posted' = Append(posted, url)

Init ==
  /\ links \in {l \in [Pages -> LinkLists] : \A p \in Pages : Crawled(p) \/ l[p] = <<>>}
  /\ seen = {Url(Start)} /\ posted = <<Url(Start)>>
  /\ sessions = <<>> /\ stored = {}

-----------------------------------------------------------------------------
(* A session of the Fetcher, and, in its callback, the links still to be   *)
(* looked at.                                                              *)
NewSession(url) ==
  [url |-> url, stage |-> "resolving", calls |-> 0, todo |-> <<>>, scheduled |-> 0]

StartFetch ==
  /\ posted # <<>>
  /\ sessions' = Append(sessions, NewSession(Head(posted)))
  /\ posted' = Tail(posted)
  /\ UNCHANGED <<links, seen, stored>>

Page(s) == sessions[s].url.page
At(s, stage) == sessions[s].stage = stage
Go(s, stage) == sessions' = [sessions EXCEPT ![s].stage = stage]
Unchanged == UNCHANGED <<links, seen, posted, stored>>

(* HTTPS defaults to port 443; HTTP asks for the service "", port 0.       *)
Connects(s) == Scheme(Page(s)) = "https" \/ HasPort(Page(s))

Resolved(s) == At(s, "resolving") /\ Go(s, "connecting") /\ Unchanged

Connected(s) ==
  /\ At(s, "connecting") /\ Connects(s)
  /\ Go(s, IF Scheme(Page(s)) = "https" THEN "handshaking" ELSE "writing")
  /\ Unchanged

HandshakeDone(s) == At(s, "handshaking") /\ Go(s, "writing") /\ Unchanged
Written(s) == At(s, "writing") /\ Go(s, "reading") /\ Unchanged

(* An error of any stage: the callback gets an empty body.                 *)
InFlight(s) == sessions[s].stage \in {"resolving", "connecting", "handshaking", "writing", "reading"}
Callback(s, stage, todo) ==
  sessions' = [sessions EXCEPT ![s].stage = stage, ![s].calls = @ + 1, ![s].todo = todo]

Fails(s) == InFlight(s) /\ Callback(s, "over", <<>>) /\ Unchanged

(* A response without a body is not stored.                                *)
ReadsNothing(s) == At(s, "reading") /\ Callback(s, "over", <<>>) /\ Unchanged

(* The page is parsed and stored, under the storage's mutex, if the file   *)
(* can be opened, and its links are looked at.                             *)
ReadsPage(s) ==
  /\ At(s, "reading")
  /\ Callback(s, "linking", links[Page(s)])
  /\ stored' \in {stored, stored \cup {Page(s)}}
  /\ UNCHANGED <<links, seen, posted>>

-----------------------------------------------------------------------------
(* Only ensure_rules_for enters rules, and the scheduler calls it only for *)
(* URLs a rule disallows: rules_ stays empty, and robots.txt unread.       *)
NoEntries == <<>>

R == INSTANCE Robots WITH
       Hosts <- {Host(p) : p \in Pages}, Paths <- {}, Files <- {}, Callers <- {},
       rules <- NoEntries, call <- <<>>, served <- <<>>

AllowedCached(page) == R!IsAllowedCached(NoEntries, Host(page), <<"/">>)

Followed(s, link) ==
  /\ ~link.nofollow
  /\ Scheme(link.page) \in {"http", "https"}
  /\ Host(link.page) = Host(Page(s))

LinksLeft(s) == sessions[s].todo # <<>> /\ sessions[s].scheduled < MaxPerPage
Looping(s) == At(s, "linking") /\ LinksLeft(s)

NextLink(s, scheduled) ==
  sessions' = [sessions EXCEPT ![s].todo = Tail(@), ![s].scheduled = @ + scheduled]

(* The fragment goes, and the URL is scheduled unless it is known.         *)
FollowLink(s) ==
  LET link == Head(sessions[s].todo)
  IN  /\ Looping(s) /\ Followed(s, link) /\ AllowedCached(link.page)
      /\ AddUrl(Url(link.page))
      /\ NextLink(s, 1)
      /\ UNCHANGED <<links, stored>>

(* Mutant: break where the code has continue.                              *)
SkipRest(s) ==
  /\ Looping(s) /\ ~Followed(s, Head(sessions[s].todo))
  /\ Go(s, "over") /\ Unchanged

SkipLink(s) ==
  /\ Looping(s) /\ ~Followed(s, Head(sessions[s].todo))
  /\ NextLink(s, 0) /\ Unchanged

CallbackReturns(s) ==
  /\ At(s, "linking") /\ ~Looping(s)
  /\ Go(s, "over") /\ Unchanged

-----------------------------------------------------------------------------
Fetch(s) ==
  \/ Resolved(s) \/ Connected(s) \/ HandshakeDone(s) \/ Written(s)
  \/ Fails(s) \/ ReadsNothing(s) \/ ReadsPage(s)
Schedule(s) == FollowLink(s) \/ SkipLink(s) \/ CallbackReturns(s)

Next == StartFetch \/ \E s \in 1 .. Len(sessions) : Fetch(s) \/ Schedule(s)
Spec == Init /\ [][Next]_vars

-----------------------------------------------------------------------------
(* "de-duplicates": however callbacks interleave, no page is fetched twice,*)
(* and no fetch calls back twice.                                          *)
FetchedOnce ==
  /\ \A s, t \in 1 .. Len(sessions) : Page(s) = Page(t) => s = t
  /\ \A s \in 1 .. Len(sessions) : sessions[s].calls <= 1

(* When all is done, of each page that was read, the links to follow have  *)
(* been fetched, the first max_per_page of them.                           *)
Idle == posted = <<>> /\ \A s \in 1 .. Len(sessions) : At(s, "over")
FollowedUpTo(s, n) == {i \in 1 .. n : Followed(s, links[Page(s)][i])}
CrawlIsComplete ==
  Idle => \A s \in 1 .. Len(sessions) :
    Page(s) \in stored =>
      \A i \in FollowedUpTo(s, Len(links[Page(s)])) :
        Cardinality(FollowedUpTo(s, i)) <= MaxPerPage =>
          \E t \in 1 .. Len(sessions) : Page(t) = links[Page(s)][i].page

(* "consults `Robots`": a page that robots.txt disallows is not fetched,   *)
(* unless the crawl starts from it.                                        *)
RobotsRespected ==
  \A s \in 1 .. Len(sessions) : Page(s) \in Disallowed => Page(s) = Start
-----------------------------------------------------------------------------
(* What the crawl's theorems rest on.                                      *)
Urls == [page : Pages, fragment : {FALSE}]
Stages == {"resolving", "connecting", "handshaking", "writing", "reading", "linking", "over"}
Session == [url : Urls, stage : Stages, calls : Nat, todo : Seq(Link), scheduled : Nat]

TypeOK ==
  /\ links \in [Pages -> LinkLists]
  /\ seen \subseteq Urls /\ posted \in Seq(Urls)
  /\ sessions \in Seq(Session)
  /\ stored \subseteq Pages

(* What add_url has seen is posted or has been fetched, once.              *)
EachSeenOnce ==
  /\ seen = {posted[i] : i \in 1 .. Len(posted)} \cup {sessions[s].url : s \in 1 .. Len(sessions)}
  /\ \A i, j \in 1 .. Len(posted) : posted[i] = posted[j] => i = j
  /\ \A s, t \in 1 .. Len(sessions) : sessions[s].url = sessions[t].url => s = t
  /\ \A i \in 1 .. Len(posted), s \in 1 .. Len(sessions) : posted[i] # sessions[s].url

CalledBack ==
  /\ \A s \in 1 .. Len(sessions) :
       /\ sessions[s].calls = IF InFlight(s) THEN 0 ELSE 1
       /\ InFlight(s) => sessions[s].scheduled = 0
  /\ \A page \in stored : \E s \in 1 .. Len(sessions) : Page(s) = page /\ ~InFlight(s)

(* How far a callback is in the links of its page: what it has scheduled,  *)
(* and that it ends at the last link or at the bound.                      *)
Done(s) == Len(links[Page(s)]) - Len(sessions[s].todo)
Progress(s) ==
  /\ Done(s) \in Nat
  /\ \A i \in 1 .. Len(sessions[s].todo) : sessions[s].todo[i] = links[Page(s)][Done(s) + i]
  /\ sessions[s].scheduled = Cardinality(FollowedUpTo(s, Done(s)))
  /\ \A i \in FollowedUpTo(s, Done(s)) : Url(links[Page(s)][i].page) \in seen
LinksFollowed ==
  \A s \in 1 .. Len(sessions) :
    /\ At(s, "linking") => Progress(s)
    /\ At(s, "over") /\ Page(s) \in stored => Progress(s) /\ ~LinksLeft(s)

IInv == TypeOK /\ EachSeenOnce /\ CalledBack /\ LinksFollowed
=============================================================================
