-------------------------------- MODULE Life --------------------------------
(***************************************************************************)
(* life-cpp/GameOfLifeWidget.cpp: a grid that grows when its pattern gets  *)
(* to the border, changed by steps, by mouse and keys and by pattern files *)
(* in one event loop, or by main()'s AUTO_PATTERN sequence.                *)
(*                                                                         *)
(* A cell is <<row, column>>.  nextGrid is left out: it has the size of    *)
(* grid, and step() writes every cell of it before the two are swapped.    *)
(***************************************************************************)
EXTENDS Integers, Sequences, FiniteSets, SequencesExt

CONSTANTS
  Rows, Cols,       (* of the grid at first                                *)
  Files,            (* pattern files: what is in them, and what they draw  *)
  Shifts,           (* values of AUTO_SHIFT                                *)
  AutoSteps,
  MaxRows, MaxCols, (* bound on the growth of the grid                     *)
  MaxEdited         (* bound: cells of a grid that is edited or randomised *)

VARIABLES
  rows, cols, grid,
  drawing, drawValue, panning,
  held,             (* the mouse button that is down, if any               *)
  running,
  auto,             (* where main() is in its AUTO_PATTERN sequence, or    *)
                    (* "events"                                            *)
  left              (* steps that main() still makes in it                 *)

size == <<rows, cols>>
mouse == <<drawing, drawValue, panning, held>>
program == <<auto, left>>
vars == <<size, grid, mouse, running, program>>

Cells(r, c) == (0 .. r - 1) \X (0 .. c - 1)
Blank(r, c) == [cell \in Cells(r, c) |-> 0]
NoButton == "none"
Buttons == {"left", "right", "middle", "other"}
Values == 0 .. 2    (* of a cell or of drawValue; 2 is any value above 1   *)

(* The constructor leaves drawing, drawValue and panning unset.            *)
Init ==
  /\ rows = Rows /\ cols = Cols /\ grid = Blank(Rows, Cols)
  /\ drawing \in BOOLEAN /\ drawValue \in Values /\ panning \in BOOLEAN
  /\ held = NoButton /\ running = FALSE
  /\ auto \in {"load", "events"} /\ left = 0

-----------------------------------------------------------------------------
CountNeighbors(g, cell) ==
  LET at(dr, dc) ==
        LET x == <<cell[1] + dr, cell[2] + dc>> IN IF x \in DOMAIN g THEN g[x] ELSE 0
  IN  at(-1, -1) + at(-1, 0) + at(-1, 1) + at(0, -1) + at(0, 1) + at(1, -1) + at(1, 0) + at(1, 1)

(* Mutant: the columns at the border are not looked at.                    *)
TouchedRows(alive, r, c) ==
  [top |-> IF \E x \in alive : x[1] = 0 THEN 1 ELSE 0,
   bottom |-> IF \E x \in alive : x[1] = r - 1 THEN 1 ELSE 0,
   left |-> 0, right |-> 0]

(* The borders at which expandIfNeeded() adds a row or column: one each,   *)
(* which is dead.                                                          *)
Touched(alive, r, c) ==
  [top |-> IF \E x \in alive : x[1] = 0 THEN 1 ELSE 0,
   bottom |-> IF \E x \in alive : x[1] = r - 1 THEN 1 ELSE 0,
   left |-> IF \E x \in alive : x[2] = 0 THEN 1 ELSE 0,
   right |-> IF \E x \in alive : x[2] = c - 1 THEN 1 ELSE 0]

Live(g) == {cell \in DOMAIN g : g[cell] # 0}

Expanded(g, border, r, c) ==
  [cell \in Cells(r, c) |->
     LET old == <<cell[1] - border.top, cell[2] - border.left>>
     IN  IF old \in DOMAIN g THEN g[old] ELSE 0]

Stepped(g) ==
  [cell \in DOMAIN g |->
     LET n == CountNeighbors(g, cell)
     IN  IF n = 3 \/ (n = 2 /\ g[cell] # 0) THEN 1 ELSE 0]

Step ==
  \E border \in {Touched(Live(grid), rows, cols)} :
    /\ rows' = rows + border.top + border.bottom /\ rows' <= MaxRows
    /\ cols' = cols + border.left + border.right /\ cols' <= MaxCols
    /\ \E grown \in {Expanded(grid, border, rows', cols')} : grid' = Stepped(grown)
    /\ UNCHANGED <<mouse, running>>

-----------------------------------------------------------------------------
(* Pattern files.  The data of an .rle file is a sequence of run lengths,  *)
(* 0 for none, and tags; other files list their cells as <<x, y>>.         *)
Count(run) == IF run = 0 THEN 1 ELSE run

Parse(at, token) ==
  LET n == Count(token[1])
  IN  CASE at.over -> at
        [] token[2] = "b" -> [at EXCEPT !.x = @ + n]
        [] token[2] = "o" ->
             [at EXCEPT !.x = @ + n,
                        !.coords = @ \cup {<<k, at.y>> : k \in at.x .. at.x + n - 1}]
        [] token[2] = "$" -> [at EXCEPT !.y = @ + n, !.x = 0]
        [] token[2] = "!" -> [at EXCEPT !.over = TRUE]
        [] OTHER -> at

Coords(file) ==
  IF file.rle
    THEN FoldLeft(Parse, [x |-> 0, y |-> 0, coords |-> {}, over |-> FALSE], file.data).coords
    ELSE ToSet(file.data)

Least(S) == CHOOSE x \in S : \A y \in S : x <= y
Greatest(S) == CHOOSE x \in S : \A y \in S : x >= y
Extent(S) == Greatest(S) - Least(S) + 1

(* Integer division, which rounds towards 0.                               *)
Half(n) == IF n >= 0 THEN n \div 2 ELSE -((-n) \div 2)

Offset(n, S) == Half(n - Extent(S)) - Least(S)

(* Centred, and what falls outside the grid is left out.                   *)
Placed(coords) ==
  LET dr == Offset(rows, {p[2] : p \in coords})
      dc == Offset(cols, {p[1] : p \in coords})
  IN  {<<p[2] + dr, p[1] + dc>> : p \in coords} \cap Cells(rows, cols)

LoadPattern(file) ==
  /\ IF Coords(file) = {}
       THEN UNCHANGED grid
       ELSE \E placed \in {Placed(Coords(file))} :
              grid' = [cell \in Cells(rows, cols) |-> IF cell \in placed THEN 1 ELSE 0]
  /\ UNCHANGED <<size, mouse, running>>

(* shiftGrid(): what leaves the grid is lost.                              *)
ShiftGrid(dx, dy) ==
  /\ IF dx = 0 /\ dy = 0
       THEN UNCHANGED grid
       ELSE grid' = [cell \in DOMAIN grid |->
              IF <<cell[1] - dy, cell[2] - dx>> \in Live(grid) THEN 1 ELSE 0]
  /\ UNCHANGED <<size, mouse, running>>

-----------------------------------------------------------------------------
(* main() with AUTO_PATTERN: it loads, shifts, steps and returns.          *)
AutoLoad ==
  /\ auto = "load" /\ auto' = "shift" /\ UNCHANGED left
  /\ \E file \in Files : LoadPattern(file)

AutoShift ==
  /\ auto = "shift" /\ auto' = "step" /\ left' = AutoSteps
  /\ \E shift \in Shifts : ShiftGrid(shift[1], shift[2])

AutoStep == auto = "step" /\ left > 0 /\ left' = left - 1 /\ UNCHANGED auto /\ Step

(* What events of the window do.                                           *)
Events == auto = "events" /\ UNCHANGED program
Editable == rows * cols <= MaxEdited

Timeout == Events /\ running /\ Step
StepByHand == Events /\ Step
Load == Events /\ \E file \in Files : LoadPattern(file)
ToggleRunning == Events /\ running' = ~running /\ UNCHANGED <<size, grid, mouse>>

Clear == Events /\ grid' = Blank(rows, cols) /\ UNCHANGED <<size, mouse, running>>

(* Bound: of a blank grid.  What was in it makes no difference.            *)
Randomize ==
  /\ Events /\ Editable /\ grid = Blank(rows, cols)
  /\ \E alive \in SUBSET Cells(rows, cols) :
       grid' = [cell \in Cells(rows, cols) |-> IF cell \in alive THEN 1 ELSE 0]
  /\ UNCHANGED <<size, mouse, running>>

Set(cell, value) == grid' = [grid EXCEPT ![cell] = value]

Draw(cell, value) ==
  drawing' = TRUE /\ drawValue' = value /\ Set(cell, value)

(* Left draws, right erases, the middle button scrolls, others toggle.     *)
MousePress(button) ==
  /\ Events /\ held = NoButton /\ held' = button
  /\ \/ /\ button = "middle" /\ panning' = TRUE
        /\ UNCHANGED <<grid, drawing, drawValue>>
     \/ /\ button # "middle" /\ Editable /\ UNCHANGED panning
        /\ \E cell \in Cells(rows, cols) :
             \/ button = "left" /\ Draw(cell, 1)
             \/ button = "right" /\ Draw(cell, 0)
             \/ /\ button = "other" /\ UNCHANGED <<drawing, drawValue>>
                /\ Set(cell, IF grid[cell] # 0 THEN 0 ELSE 1)
  /\ UNCHANGED <<size, running>>

(* Without a button down no movement is reported.                          *)
MouseMove ==
  /\ Events /\ held # NoButton
  /\ ~panning /\ drawing /\ Editable
  /\ \E cell \in Cells(rows, cols) : Set(cell, drawValue)
  /\ UNCHANGED <<size, mouse, running>>

MouseRelease ==
  /\ Events /\ held # NoButton /\ held' = NoButton
  /\ drawing' = FALSE /\ panning' = FALSE
  /\ UNCHANGED <<size, grid, drawValue, running>>

Mouse == (\E button \in Buttons : MousePress(button)) \/ MouseMove \/ MouseRelease

Next ==
  \/ AutoLoad \/ AutoShift \/ AutoStep
  \/ Timeout \/ StepByHand \/ Load \/ ToggleRunning \/ Clear \/ Randomize \/ Mouse

Spec == Init /\ [][Next]_vars

-----------------------------------------------------------------------------
Next8(cell) == {<<cell[1] + dr, cell[2] + dc>> : dr \in -1 .. 1, dc \in -1 .. 1} \ {cell}

(* Conway's rules for a set of live cells on a plane without borders.      *)
Generation(alive) ==
  LET around(cell) == Cardinality(Next8(cell) \cap alive)
  IN  {cell \in alive \cup UNION {Next8(x) : x \in alive} :
         around(cell) = 3 \/ (around(cell) = 2 /\ cell \in alive)}

(* A set of cells wherever it is on the plane.                             *)
Shape(S) ==
  LET top == Least({x[1] : x \in S})
      leftmost == Least({x[2] : x \in S})
  IN  {<<x[1] - top, x[2] - leftmost>> : x \in S}

Fits(file) ==
  /\ file.draws # {}
  /\ Extent({p[2] : p \in file.draws}) <= rows
  /\ Extent({p[1] : p \in file.draws}) <= cols

(* The grid shows what Conway's rules make of the pattern on the unbounded *)
(* plane, wherever borders are and grow; and a file that fits is on the    *)
(* grid as it is drawn.  An extra mouse button before any other lets the   *)
(* next movement write the unset drawValue: such cells are not counted on. *)
PlaneStep ==
  UNCHANGED <<mouse, running>> =>
    /\ (\A cell \in DOMAIN grid : grid[cell] <= 1) /\ Step
         => Shape(Live(grid')) = Shape(Generation(Live(grid)))
    /\ \A file \in Files :
         UNCHANGED size /\ Fits(file) /\ LoadPattern(file)
           => Shape({<<x[2], x[1]>> : x \in Live(grid')}) = Shape(file.draws)

FollowsPlane == [][PlaneStep]_vars
=============================================================================
