------------------------------ MODULE Labyrinth -----------------------------
(***************************************************************************)
(* maze1/: mazes carved by a random walk, with two portals on the way to   *)
(* the goal (mazegenerator.cpp), and the two windows the player moves in   *)
(* (labyrinthwidget.cpp, main.cpp): stepping on portal A of the first      *)
(* disables it and opens a second maze; getting to portal B of the second  *)
(* puts the player on portal B of the first.                               *)
(*                                                                         *)
(* A cell is <<row, column>>; a maze is the set of its open cells.         *)
(***************************************************************************)
EXTENDS Integers, FiniteSets

CONSTANTS
  Sizes,          (* sizes the player can choose                           *)
  MaxPlayed       (* bound: size up to which a maze is not only carved     *)

VARIABLES
  surpriseMode,
  mainWindow, portalWindow,
  isActive,       (* of mainWindow: it takes keys                          *)
  shown,          (* portalWindow has not been closed by the user          *)
  carving         (* generate() for one of the windows, if it is running   *)

windows == <<mainWindow, portalWindow, isActive, shown>>
vars == <<surpriseMode, windows, carving>>

Start == <<1, 1>>
Goal(n) == <<n - 2, n - 2>>
Nowhere == <<-1, -1>>
NoWindow == [n |-> 0]
Idle == [window |-> NoWindow]

Rooms(n) == {x \in (1 .. n - 2) \X (1 .. n - 2) : x[1] % 2 = 1 /\ x[2] % 2 = 1}
Around(x, d) == {<<x[1] - d, x[2]>>, <<x[1] + d, x[2]>>, <<x[1], x[2] - d>>, <<x[1], x[2] + d>>}

(* generate() opens every room, and walks from the first.                  *)
Generate(name, n) ==
  [window |-> name, n |-> n, maze |-> Rooms(n), visited |-> {Start}, at |-> Start]

Init ==
  /\ surpriseMode \in BOOLEAN
  /\ \E n \in Sizes : carving = Generate("main", n)
  /\ mainWindow = NoWindow /\ portalWindow = NoWindow
  /\ isActive = TRUE /\ shown = FALSE

-----------------------------------------------------------------------------
Between(x, y) == <<(x[1] + y[1]) \div 2, (x[2] + y[2]) \div 2>>

(* The wall to a room is opened when the walk first gets there.            *)
Carve(walk, y) ==
  IF y \in walk.visited THEN walk.maze ELSE walk.maze \cup {Between(walk.at, y)}

(* In a random direction.  A room always has another beside it: the walk   *)
(* is never stuck.                                                         *)
Walk ==
  /\ carving # Idle /\ carving.visited # Rooms(carving.n)
  /\ \E y \in Around(carving.at, 2) \cap Rooms(carving.n) :
       carving' = [carving EXCEPT !.maze = Carve(carving, y),
                                  !.visited = @ \cup {y}, !.at = y]
  /\ UNCHANGED <<surpriseMode, windows>>

(* What is reached from the cells of S without leaving the maze.           *)
RECURSIVE Reached(_, _)
Reached(maze, S) ==
  LET more == S \cup (UNION {Around(x, 1) : x \in S} \cap maze)
  IN  IF more = S THEN S ELSE Reached(maze, more)

(* The cells on the path that the search finds, its ends left out: the     *)
(* maze is a tree, and these are the cells that every path goes through.   *)
Path(maze, n) ==
  {x \in maze \ {Start, Goal(n)} : Goal(n) \notin Reached(maze \ {x}, {Start})}

Portals(maze, n) ==
  LET path == Path(maze, n)
  IN  IF Cardinality(path) + 2 > 4
        THEN {p \in path \X path : p[1] # p[2]}
        ELSE {<<Nowhere, Nowhere>>}

(* The walk is over: the portals are placed, the window has its maze, the  *)
(* player is at the start, and the second window knows the way back.       *)
Generated ==
  /\ carving # Idle /\ carving.visited = Rooms(carving.n)
  /\ \E portals \in Portals(carving.maze, carving.n) :
       LET window == [n |-> carving.n, maze |-> carving.maze, player |-> Start,
                      portalA |-> portals[1], portalB |-> portals[2], back |-> Start]
       IN  IF carving.window = "main"
             THEN mainWindow' = window /\ UNCHANGED <<portalWindow, shown>>
             ELSE /\ portalWindow' = [window EXCEPT !.back = mainWindow.portalB]
                  /\ shown' = TRUE /\ UNCHANGED mainWindow
  /\ carving' = Idle /\ UNCHANGED <<surpriseMode, isActive>>

-----------------------------------------------------------------------------
(* Where an arrow key takes the player: into a wall, nowhere.              *)
Moved(window, x) == IF x \in window.maze THEN x ELSE window.player

Playing == carving = Idle /\ mainWindow.n <= MaxPlayed

(* requestOpenPortal: the second window is built, which asks for a size.   *)
OpenPortal ==
  /\ isActive' = FALSE
  /\ \E n \in {m \in Sizes : m <= MaxPlayed} : carving' = Generate("portal", n)

(* A key in the first window: the portal and the goal are looked at        *)
(* whether the player has moved or not.                                    *)
KeyInMain ==
  /\ Playing /\ isActive
  /\ \E x \in Around(mainWindow.player, 1) :
       LET player == Moved(mainWindow, x)
           opens == surpriseMode /\ player = mainWindow.portalA /\ portalWindow = NoWindow
           wins == player = Goal(mainWindow.n)
       IN  /\ mainWindow' = [mainWindow EXCEPT !.player = player]
           /\ \/ opens /\ OpenPortal
              \/ wins /\ carving' = Generate("main", mainWindow.n) /\ UNCHANGED isActive
              \/ ~opens /\ ~wins /\ UNCHANGED <<carving, isActive>>
  /\ UNCHANGED <<surpriseMode, portalWindow, shown>>

(* Mutant: back to where portal B is in the second maze.                   *)
ReturnToOther(position) ==
  mainWindow' = [mainWindow EXCEPT !.player = portalWindow.portalB,
                                   !.portalA = Nowhere, !.portalB = Nowhere]

(* requestReturnFromPortal: the first window's portals are used up.        *)
ReturnTo(position) ==
  mainWindow' = [mainWindow EXCEPT !.player = position,
                                   !.portalA = Nowhere, !.portalB = Nowhere]

KeyInPortalWorld ==
  /\ Playing /\ portalWindow # NoWindow /\ shown
  /\ \E x \in Around(portalWindow.player, 1) :
       LET player == Moved(portalWindow, x)
       IN  IF player = portalWindow.portalB
             THEN /\ ReturnTo(portalWindow.back)
                  /\ isActive' = TRUE /\ portalWindow' = NoWindow /\ shown' = FALSE
             ELSE /\ portalWindow' = [portalWindow EXCEPT !.player = player]
                  /\ UNCHANGED <<mainWindow, isActive, shown>>
  /\ UNCHANGED <<surpriseMode, carving>>

(* The user closes the second window, which nothing in main() notices.     *)
ClosePortalWorld ==
  /\ Playing /\ shown /\ shown' = FALSE
  /\ UNCHANGED <<surpriseMode, mainWindow, portalWindow, isActive, carving>>

Next == Walk \/ Generated \/ KeyInMain \/ KeyInPortalWorld \/ ClosePortalWorld

Spec == Init /\ [][Next]_vars

-----------------------------------------------------------------------------
(* Every maze is a tree: one way and no more between any two open cells.   *)
IsTree(window) ==
  /\ Reached(window.maze, {Start}) = window.maze
  /\ Cardinality(window.maze) = 2 * Cardinality(Rooms(window.n)) - 1

(* The player can get to the goal: in the first window, from wherever the  *)
(* portals have put the player; in the second, to the portal that leads    *)
(* back, unless the user has closed the window, which leaves the first     *)
(* disabled for good.  With MaxPlayed below the second of the sizes, both  *)
(* windows of a game have mazes of one size.                               *)
NeverTrapped ==
  carving = Idle =>
    /\ IsTree(mainWindow)
    /\ Goal(mainWindow.n) \in Reached(mainWindow.maze, {mainWindow.player})
    /\ mainWindow.player \in mainWindow.maze
    /\ \/ isActive
       \/ /\ IsTree(portalWindow) /\ portalWindow.back \in mainWindow.maze
          /\ shown => portalWindow.portalB \in Reached(portalWindow.maze, {portalWindow.player})
=============================================================================
