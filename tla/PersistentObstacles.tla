------------------------ MODULE PersistentObstacles ------------------------
(***************************************************************************)
(* The persistent obstacle layer of Nav2's global costmap: the persistence *)
(* filter (persistence_grid.hpp), the clouds that reach it late, out of    *)
(* order or not at all (persistent_obstacle_layer.cpp, on_cloud), and the  *)
(* costmap's update cycle, which rewrites the master costmap only within   *)
(* the bounds the layer touches.  The costmap is a line of cells.          *)
(***************************************************************************)
EXTENDS Integers, FiniteSetsExt

CONSTANTS
  Cells,                      \* indices of the costmap, an interval
  Persistence, MaxGap, Decay, \* PersistenceParameters
  Delay,                      \* how old a cloud may be when it arrives
  MaxTime                     \* bound: how long the runs are

VARIABLES
  now,
  grid,     \* PersistenceGrid::cells_
  marked,   \* cells the layer's own costmap holds lethal
  master,   \* cells lethal in the master costmap on this layer's account
  updated,  \* when the master costmap was last updated
  seen      \* per cell, the stamps it was observed at since the grid was cleared

vars == <<now, grid, marked, master, updated, seen>>

\* Times are in any unit; the gap that ends a streak is not negative.
Parameters ==
  /\ Cells \subseteq Int /\ \E lo, hi \in Cells : Cells = lo .. hi
  /\ Persistence \in Int /\ MaxGap \in Nat /\ Decay \in Int
  /\ Delay \in Nat /\ MaxTime \in Nat

-----------------------------------------------------------------------------
Init ==
  /\ now = 0 /\ grid = <<>> /\ marked = {} /\ master = {} /\ updated = 0
  /\ seen = [c \in Cells |-> {}]

Pass ==
  /\ now < MaxTime
  /\ now' = now + 1
  /\ UNCHANGED <<grid, marked, master, updated, seen>>

\* Mutant: a gap does not begin a new streak.
StreakOverGaps(cell, t) == [cell EXCEPT !.last = IF t > @ THEN t ELSE @]

\* PersistenceGrid::observe: one sighting of a cell at t.
Streak(cell, t) ==
  LET broken == ~cell.confirmed /\ t - cell.last > MaxGap IN
  [cell EXCEPT !.first = IF broken THEN t ELSE @,
               !.last = IF t > @ THEN t ELSE @]
Confirm(cell) ==
  [cell EXCEPT !.confirmed = @ \/ cell.last - cell.first >= Persistence]
Observed(c, t) ==
  Confirm(IF c \in DOMAIN grid THEN Streak(grid[c], t)
                               ELSE [first |-> t, last |-> t, confirmed |-> FALSE])

\* A cloud whose transform is known; one without is skipped and changes nothing.
OnCloud(stamp, cells) ==
  /\ cells # {} /\ stamp \in 0 .. now /\ now - stamp <= Delay
  /\ grid' = [c \in DOMAIN grid \cup cells |->
                IF c \in cells THEN Observed(c, stamp) ELSE grid[c]]
  /\ seen' = [c \in Cells |-> IF c \in cells THEN seen[c] \cup {stamp} ELSE seen[c]]
  /\ UNCHANGED <<now, marked, master, updated>>

Expired(cell) == now - cell.last > (IF cell.confirmed THEN Decay ELSE MaxGap)
Pruned == [c \in {d \in DOMAIN grid : ~Expired(grid[d])} |-> grid[c]]
Cleared == {c \in DOMAIN grid : grid[c].confirmed /\ Expired(grid[c])}
Obstacles == {c \in DOMAIN grid : grid[c].confirmed /\ now - grid[c].last <= Decay}

\* One cycle of the costmap: updateBounds prunes the grid and touches the cells
\* that changed, Nav2 resets the master's window, updateCosts writes it again.
Window(touched) == IF touched = {} THEN {} ELSE Min(touched) .. Max(touched)
UpdateBounds ==
  /\ grid' = Pruned
  /\ marked' = (marked \ Cleared) \cup Obstacles
UpdateCosts ==
  LET window == Window(Cleared \cup Obstacles) IN
  master' = (master \ window) \cup (marked' \cap window)
Update ==
  /\ UpdateBounds /\ UpdateCosts
  /\ updated' = now
  /\ UNCHANGED <<now, seen>>

\* Nav2's clear service resets the master costmap and every layer; a resized
\* costmap does the same through matchSize.
Reset ==
  /\ grid # <<>>
  /\ grid' = <<>> /\ marked' = {} /\ master' = {}
  /\ seen' = [c \in Cells |-> {}]
  /\ UNCHANGED <<now, updated>>

Next ==
  \/ Pass
  \/ \E stamp \in 0 .. MaxTime : \E cells \in SUBSET Cells : OnCloud(stamp, cells)
  \/ Update
  \/ Reset

Spec == Init /\ [][Next]_vars

-----------------------------------------------------------------------------
\* Every variable holds a value of its kind.
TypeOK ==
  /\ now \in 0 .. MaxTime /\ updated \in 0 .. now
  /\ DOMAIN grid \subseteq Cells
  /\ \A c \in DOMAIN grid :
       grid[c] \in [first : 0 .. now, last : 0 .. now, confirmed : BOOLEAN]
  /\ marked \subseteq Cells /\ master \subseteq Cells
  /\ seen \in [Cells -> SUBSET (0 .. now)]

\* The stamps between two, none further than MaxGap from the one before it.
Steady(stamps, from, to) ==
  \A t \in stamps \cap (from .. to - 1) : \E u \in stamps : u > t /\ u - t <= MaxGap

\* A cell lethal in the master costmap was seen for at least the persistence
\* time without a longer gap than max_gap, however late and in whatever order
\* its clouds arrived, and not longer than decay before the last update: a
\* walking worker never changes the route (persistence_grid.hpp, prune and the
\* touched bounds of the layer).
MarkedWasSteady ==
  \A c \in master :
    /\ \E from, to \in seen[c] : to - from >= Persistence /\ Steady(seen[c], from, to)
    /\ \E t \in seen[c] : updated - t <= Decay
=============================================================================
