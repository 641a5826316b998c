------------------------------- MODULE Robots -------------------------------
(***************************************************************************)
(* scraping/src/Robots.cpp: the rules of the hosts' robots.txt files, as   *)
(* fetched, parsed and cached, and what callers on several threads are     *)
(* told about their URLs.                                                  *)
(*                                                                         *)
(* Strings are sequences of characters, so that a prefix is one; a         *)
(* robots.txt is the sequence of its lines, comments and spaces gone.      *)
(***************************************************************************)
EXTENDS Naturals, Sequences, SequencesExt

CONSTANTS
  Hosts,
  Paths,      (* paths callers ask about                                   *)
  Files,      (* robots.txt files a host may answer with                   *)
  Callers     (* calls of ensure_rules_for                                 *)

VARIABLES
  rules,      (* rules_: the rules of the hosts that have an entry         *)
  call,       (* where each call of ensure_rules_for is, and for what URL  *)
  served      (* the files each host has answered with                     *)

vars == <<rules, call, served>>

Line == [key : STRING, value : Seq(STRING)]
IsAgent(line) == line.key = "user-agent"
IsRule(line) == line.key \in {"allow", "disallow", "crawl-delay"}

(* Rules in a file stand behind an agent: those in front of all agents     *)
(* would be taken for the first one's.                                     *)
RobotsAssumption ==
  /\ \A path \in Paths : path \in Seq(STRING) /\ path # <<>> /\ path[1] = "/"
  /\ \A file \in Files :
       /\ file \in Seq(Line)
       /\ \A i \in 1 .. Len(file) :
            IsRule(file[i]) => \E j \in 1 .. i - 1 : IsAgent(file[j])

NoRules == {}

Init ==
  /\ rules = <<>>
  /\ call \in [Callers -> [host : Hosts, path : Paths, pc : {"new"}, allowed : {TRUE}]]
  /\ served = [h \in Hosts |-> {}]

-----------------------------------------------------------------------------
(* parse_and_store: lines collect the agents and the rules of a group; the *)
(* first agent behind a rule ends the group before it.  The agent "*" of   *)
(* this crawler is found in an empty name, too.  Nobody looks at the order *)
(* of agents, or of rules.                                                 *)
ForUs(agent) == agent \in {<<"*">>, <<>>}

Fresh == [agents |-> {}, cur |-> {}, effective |-> NoRules]

FlushGroup(p) ==
  [Fresh EXCEPT !.effective =
     IF \E agent \in p.agents : ForUs(agent) THEN p.effective \cup p.cur ELSE p.effective]

ParseLine(p, line) ==
  IF IsAgent(line)
    THEN LET q == IF p.agents # {} /\ p.cur # {} THEN FlushGroup(p) ELSE p
         IN  [q EXCEPT !.agents = @ \cup {line.value}]
    ELSE IF IsRule(line) THEN [p EXCEPT !.cur = @ \cup {line}] ELSE p

Parse(file) ==
  LET parsed[n \in 0 .. Len(file)] ==
        IF n = 0 THEN Fresh ELSE ParseLine(parsed[n - 1], file[n])
  IN  FlushGroup(parsed[Len(file)]).effective

(* The loops over allow and disallow: the longest rule that matches, and   *)
(* disallow before allow; nothing matches, allowed.                        *)
PathMatches(rule, path) ==
  rule.value # <<>> /\ (rule.value = <<"/">> \/ IsPrefix(rule.value, path))

Matching(r, key, path) == {rule \in r : rule.key = key /\ PathMatches(rule, path)}

Verdict(r, path) ==
  ~ \E d \in Matching(r, "disallow", path) :
      \A a \in Matching(r, "allow", path) : Len(d.value) >= Len(a.value)

(* is_allowed_cached: a host nobody has asked about yet is allowed.        *)
IsAllowedCached(r, host, path) == host \in DOMAIN r => Verdict(r[host], path)

-----------------------------------------------------------------------------
Answer(c, allowed) ==
  call' = [call EXCEPT ![c].pc = "answered", ![c].allowed = allowed]

Enter(host, r) ==
  rules' = [h \in DOMAIN rules \cup {host} |-> IF h = host THEN r ELSE rules[h]]

(* ensure_rules_for answers from the cache, or fetches the host's file.    *)
AnswerCached(c) ==
  /\ call[c].pc = "new" /\ call[c].host \in DOMAIN rules
  /\ Answer(c, Verdict(rules[call[c].host], call[c].path))
  /\ UNCHANGED <<rules, served>>

FetchFile(c) ==
  /\ call[c].pc = "new" /\ call[c].host \notin DOMAIN rules
  /\ call' = [call EXCEPT ![c].pc = "fetching"]
  /\ UNCHANGED <<rules, served>>

(* Status 200 and a body.                                                  *)
StoreFile(c, file) ==
  /\ call[c].pc = "fetching"
  /\ Enter(call[c].host, Parse(file))
  /\ served' = [served EXCEPT ![call[c].host] = @ \cup {file}]
  /\ call' = [call EXCEPT ![c].pc = "stored"]

(* Mutant: rules_[host] = Rules().                                         *)
AssignNone(c) ==
  /\ call[c].pc = "fetching"
  /\ Enter(call[c].host, NoRules)
  /\ call' = [call EXCEPT ![c].pc = "stored"]
  /\ UNCHANGED served

(* Any other answer, or none: emplace() of empty rules leaves those there. *)
EmplaceNone(c) ==
  /\ call[c].pc = "fetching"
  /\ IF call[c].host \in DOMAIN rules THEN UNCHANGED rules ELSE Enter(call[c].host, NoRules)
  /\ call' = [call EXCEPT ![c].pc = "stored"]
  /\ UNCHANGED served

(* The verdict is looked up under the mutex once more.                     *)
AnswerFetched(c) ==
  /\ call[c].pc = "stored"
  /\ Answer(c, Verdict(rules[call[c].host], call[c].path))
  /\ UNCHANGED <<rules, served>>

Next ==
  \E c \in Callers :
    \/ AnswerCached(c) \/ FetchFile(c)
    \/ \E file \in Files : StoreFile(c, file)
    \/ EmplaceNone(c)
    \/ AnswerFetched(c)

Spec == Init /\ [][Next]_vars

-----------------------------------------------------------------------------
(* Two lines of a file are of one group unless, between them, an agent     *)
(* follows a rule.                                                         *)
Begins(file, b) ==
  /\ IsAgent(file[b])
  /\ \E r \in 1 .. b - 1 : IsRule(file[r]) /\ \A k \in r + 1 .. b - 1 : ~IsAgent(file[k])
Parted(file, i, j) == \E b \in i + 1 .. j : Begins(file, b)
SameGroup(file, i, j) == ~Parted(file, i, j) /\ ~Parted(file, j, i)

(* A path is allowed by a file unless, of the rules in groups that name    *)
(* us, the longest that matches disallows it.                              *)
OurRules(file) ==
  {file[i] : i \in {k \in 1 .. Len(file) :
     IsRule(file[k]) /\ \E j \in 1 .. Len(file) :
       IsAgent(file[j]) /\ ForUs(file[j].value) /\ SameGroup(file, k, j)}}

AllowedBy(file, path) ==
  LET matching == {r \in OurRules(file) : r.value # <<>> /\ IsPrefix(r.value, path)}
  IN  \A d \in matching : d.key = "disallow" =>
        \E a \in matching : a.key = "allow" /\ Len(a.value) > Len(d.value)

(* "invokes callback with `allowed` flag": what a caller is told is what a *)
(* file of the host says, if the host has answered anybody with one, even  *)
(* if the caller's own fetch fails or finds another caller's rules.        *)
AnswerFollowsFile ==
  \A c \in Callers :
    LET u == call[c]
    IN  u.pc # "answered" /\ call'[c].pc = "answered" =>
          IF served[u.host] = {}
            THEN call'[c].allowed
            ELSE \E file \in served[u.host] : call'[c].allowed = AllowedBy(file, u.path)
AnswersFollowFiles == [][AnswerFollowsFile]_vars
-----------------------------------------------------------------------------
(* What the theorem rests on: an entry is what some file of the host says, *)
(* or there was none; and who has stored an entry, or found one, finds one.*)
TypeOK ==
  /\ rules = [h \in DOMAIN rules |-> rules[h]] /\ DOMAIN rules \subseteq Hosts
  /\ call \in [Callers -> [host : Hosts, path : Paths,
                          pc : {"new", "fetching", "stored", "answered"}, allowed : BOOLEAN]]
  /\ served \in [Hosts -> SUBSET Files]

EntriesAreFiles ==
  \A h \in Hosts :
    IF served[h] = {}
      THEN h \in DOMAIN rules => rules[h] = NoRules
      ELSE h \in DOMAIN rules /\ \E file \in served[h] : rules[h] = Parse(file)

EntriesStay == \A c \in Callers : call[c].pc = "stored" => call[c].host \in DOMAIN rules

IInv == TypeOK /\ EntriesAreFiles /\ EntriesStay
=============================================================================
