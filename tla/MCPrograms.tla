------------------------------ MODULE MCPrograms -----------------------------
(* The programs of the module Programs, the containers, and the two games, *)
(* each on its own: kind says which.                                       *)
EXTENDS Programs, Integers, SequencesExt

VARIABLES
  structure, model,                                                \* containers
  rows, cols, grid, drawing, drawValue, panning, held, running, auto, left, \* life
  surpriseMode, mainWindow, portalWindow, isActive, shown, carving \* labyrinth

container == <<structure, model>>
life == <<rows, cols, grid, drawing, drawValue, panning, held, running, auto, left>>
maze == <<surpriseMode, mainWindow, portalWindow, isActive, shown, carving>>

-----------------------------------------------------------------------------
Containers == INSTANCE MCContainers

(* robots.txt files with groups for us and for others, overlapping rules.  *)
Agent(name) == [key |-> "user-agent", value |-> name]
Allow(path) == [key |-> "allow", value |-> path]
Disallow(path) == [key |-> "disallow", value |-> path]
Delay == [key |-> "crawl-delay", value |-> <<>>]
Sitemap == [key |-> "sitemap", value |-> <<>>]
Whole == <<"/">>
A == <<"/", "a">>
AB == <<"/", "a", "b">>
Bot == <<"b", "o", "t">>

RobotsPaths == {Whole, A, AB}
RobotsFiles ==
  { <<Agent(<<"*">>), Disallow(A), Allow(AB)>>,
    <<Agent(Bot), Disallow(Whole), Agent(<<"*">>), Disallow(<<>>), Disallow(AB)>>,
    <<Agent(Bot), Sitemap, Agent(<<>>), Disallow(Whole), Allow(A), Agent(Bot), Disallow(A)>>,
    <<Agent(<<"*">>), Delay, Agent(Bot), Disallow(Whole)>>,
    <<Sitemap>> }

(* A site of four pages, links to another host and to no page at all, and  *)
(* link lists longer than the bound per page.                              *)
HostOf(page) == IF page = "elsewhere" THEN "other.org" ELSE "example.com"
SchemeOf(page) ==
  CASE page = "mail" -> "mailto" [] page \in {"plain", "port"} -> "http" [] OTHER -> "https"
NamesPort(page) == page = "port"

To(page) == [page |-> page, fragment |-> FALSE, nofollow |-> FALSE]
Within(page) == [page |-> page, fragment |-> TRUE, nofollow |-> FALSE]
NotTo(page) == [page |-> page, fragment |-> FALSE, nofollow |-> TRUE]
SiteLinks ==
  { <<>>,
    <<To("home"), To("plain")>>,
    <<To("mail"), Within("port"), To("port"), To("plain")>>,
    <<NotTo("port"), To("elsewhere"), To("private"), To("port")>> }

(* A glider as a list of cells and run by run, a row off the grid, and a   *)
(* file of comments.                                                       *)
Listed(cells) == [rle |-> FALSE, data |-> cells, draws |-> {cells[i] : i \in DOMAIN cells}]
Glider == << <<0, 0>>, <<1, 0>>, <<2, 0>>, <<2, 1>>, <<1, 2>> >>
GliderRuns ==
  << <<3, "o">>, <<0, "$">>, <<2, "b">>, <<0, "o">>, <<0, "$">>,
     <<0, "b">>, <<0, "o">>, <<0, "!">>, <<2, "o">> >>

Game == INSTANCE Life WITH
  Rows <- 2, Cols <- 3, Shifts <- {<<0, 0>>, <<1, -1>>}, AutoSteps <- 8,
  Files <-
    { Listed(Glider), Listed(<<>>), Listed(<< <<-1, 2>>, <<0, 2>>, <<1, 2>> >>),
      [rle |-> TRUE, data |-> GliderRuns, draws |-> Listed(Glider).draws] },
  MaxRows <- 5, MaxCols <- 6, MaxEdited <- 6

(* Mazes of two rooms a side to play in, and of three to look at.          *)
Maze == INSTANCE Labyrinth WITH Sizes <- {5, 7}, MaxPlayed <- 5

-----------------------------------------------------------------------------
NoContainer == structure = None /\ model = None
NoLife ==
  /\ rows = None /\ cols = None /\ grid = None /\ drawing = None /\ drawValue = None
  /\ panning = None /\ held = None /\ running = None /\ auto = None /\ left = None
NoMaze ==
  /\ surpriseMode = None /\ mainWindow = None /\ portalWindow = None
  /\ isActive = None /\ shown = None /\ carving = None

NoProgram == NoChat /\ NoCrawl /\ NoRing /\ NoFrames /\ NoRobots

MCInit ==
  \/ /\ Init
     /\ NoContainer /\ NoLife /\ NoMaze
  \/ /\ Containers!Init
     /\ NoProgram /\ NoLife /\ NoMaze
  \/ /\ kind = "life" /\ Game!Init
     /\ NoProgram /\ NoContainer /\ NoMaze
  \/ /\ kind = "maze" /\ Maze!Init
     /\ NoProgram /\ NoContainer /\ NoLife

MCNext ==
  \/ /\ Next
     /\ UNCHANGED <<container, life, maze>>
  \/ /\ Containers!Next
     /\ UNCHANGED <<chat, crawl, ring, frames, robots, life, maze>>
  \/ /\ kind = "life" /\ Game!Next
     /\ UNCHANGED <<vars, container, maze>>
  \/ /\ kind = "maze" /\ Maze!Next
     /\ UNCHANGED <<vars, container, life>>

MCSpec == MCInit /\ [][MCNext]_<<vars, container, life, maze>>

-----------------------------------------------------------------------------
(* Properties: what the module of each kind says of it.                    *)

(* The ordered set, the hash map and the hash set find what they hold, the *)
(* map until a removal crashes, the hash set until it overruns its array.  *)
LookupsFind == Containers!LookupsFind

(* Deque, list, vector and string hold the sequence that was put in them,  *)
(* and the priority queue gives back all it holds, in order as long as     *)
(* nothing is pushed after a pop.                                          *)
SequencesKeep == Containers!SequencesKeep

(* GameOfLifeWidget.cpp: the grid follows the unbounded plane of the game. *)
FollowsPlane == [][kind = "life" => Game!PlaneStep]_life

(* maze1: from wherever a portal leads there is a way to the goal, in      *)
(* games whose mazes are of one size and whose second window stays open.   *)
NeverTrapped == kind = "maze" => Maze!NeverTrapped
=============================================================================
