---------------------------- MODULE CollisionRows ----------------------------
(***************************************************************************)
(* collision.cpp: which pairs of robot primitives and obstacles get rows   *)
(* at a stage, decided with as few exact distances as possible; the        *)
(* nearest pair and the clearance, pruned the same way.                    *)
(*                                                                         *)
(* Geometry is external: a pair has a lower bound of its distance (the     *)
(* broad phase's gap or the separating axes'), an upper bound that may     *)
(* show it within activation (surely_within), and the exact distance GJK   *)
(* or the penetration estimate would give. A pair the boxes filter out     *)
(* (far, gap) is one whose lower bound is beyond activation. A kept pair   *)
(* stands for its row and, with contact_points, for its corners' rows.     *)
(***************************************************************************)
EXTENDS Integers, SequencesExt, FiniteSetsExt

CONSTANTS
  Pairs,       \* primitive and obstacle, panel and base, primitive and floor
  FloorPairs,  \* those against the floor: exact from the start
  Arms,        \* primitives of the listed arm links (self_links)
  Links,       \* their links
  LinkOf,      \* the link of each
  Activation,  \* activation_m
  Distances,   \* distances there may be, negative ones penetrate
  MaxBudget    \* the largest pairs_per_stage and self_pairs_per_stage

VARIABLES
  use,        \* "rows", "nearest" or "clearance"
  budget,     \* pairs_per_stage and self_pairs_per_stage
  geometry,   \* per pair: its lower bound, its distance, surely within
  arm,        \* per arm primitive: its lower bound and distance to the panel
  pc,         \* where the function is
  todo,       \* the candidates not looked at, in order of their bounds
  exact,      \* the candidates evaluated
  closest,    \* the distances in the priority queue
  unevaluated,\* unevaluated_within
  rows,       \* the stage's rows: pairs, then arm primitives
  dropped,    \* dropped_pairs
  best        \* nearest's and clearance's result

input == <<use, budget, geometry, arm>>
vars == <<input, pc, todo, exact, closest, unevaluated, rows, dropped, best>>

\* Distances are signed and bounded, and none is told apart from a finer one.
Parameters ==
  /\ IsFiniteSet(Pairs) /\ FloorPairs \subseteq Pairs
  /\ LinkOf \in [Arms -> Links]
  /\ Distances \subseteq Int /\ \E far \in Distances : \A d \in Distances : d <= far
  /\ Activation \in Int /\ MaxBudget \in Nat \ {0}

-----------------------------------------------------------------------------
Bound(p) == geometry[p].bound
Distance(p) == geometry[p].distance
Nearer(p, q) == Distance(p) < Distance(q)

\* lower_bound never exceeds the distance; surely_within is an upper bound's.
Geometries ==
  [Pairs -> {g \in [bound : Distances, distance : Distances, sure : BOOLEAN] :
               g.bound <= g.distance /\ (g.sure => g.distance <= Activation)}]
ArmGeometries == [Arms -> {g \in [bound : Distances, distance : Distances] : g.bound <= g.distance}]

\* The candidates: pairs whose lower bound is within activation; the floor's
\* come with their exact distance.
Candidates == {p \in Pairs : Bound(p) <= Activation}
ByBound(s) == SetToSortSeq(s, LAMBDA p, q : Bound(p) < Bound(q))
ByDistance(s) == SetToSortSeq(s, Nearer)

\* nearest()'s optional without a value: further than any distance.
Beyond == Max(Distances \cup {Activation}) + 1
Init ==
  /\ use \in {"rows", "nearest", "clearance"} /\ budget \in (0..MaxBudget) \X (0..MaxBudget)
  /\ geometry \in {g \in Geometries : \A p \in FloorPairs : g[p].bound = g[p].distance /\ ~g[p].sure}
  /\ arm \in ArmGeometries
  /\ use # "rows" => budget = <<0, 0>> /\ \A a \in Arms : arm[a].bound = arm[a].distance
  /\ pc = "begin" /\ todo = <<>> /\ exact = {} /\ closest = <<>> /\ unevaluated = 0
  /\ rows = <<>> /\ dropped = 0 /\ best = Beyond

-----------------------------------------------------------------------------
\* rows(): candidates are evaluated in the order of their bounds until the
\* budget's closest pairs are known.
BeginRows ==
  /\ use = "rows" /\ pc = "begin" /\ pc' = "closest"
  /\ todo' = ByBound(Candidates) /\ exact' = FloorPairs \cap Candidates
  /\ UNCHANGED <<input, closest, unevaluated, rows, dropped, best>>

\* The priority queue keeps the budget's smallest distances within activation.
Known ==
  IF budget[1] = 0 THEN TRUE
  ELSE IF Len(closest) < budget[1] THEN FALSE ELSE Last(closest) <= Bound(Head(todo))
Pushed(d) ==
  LET all == SortSeq(Append(closest, d), <)
  IN IF Len(all) > budget[1] THEN Front(all) ELSE all

EvaluateNext ==
  /\ pc = "closest" /\ todo # <<>> /\ ~Known
  /\ LET p == Head(todo) IN
       /\ exact' = exact \cup {p} /\ todo' = Tail(todo)
       /\ closest' = IF Distance(p) > Activation THEN closest ELSE Pushed(Distance(p))
  /\ UNCHANGED <<input, pc, unevaluated, rows, dropped, best>>

ClosestKnown ==
  /\ pc = "closest" /\ (IF todo = <<>> THEN TRUE ELSE Known)
  /\ pc' = "settle"
  /\ UNCHANGED <<input, todo, exact, closest, unevaluated, rows, dropped, best>>

\* The others only count: one that is surely within is not evaluated.
SettleNext ==
  /\ pc = "settle" /\ todo # <<>> /\ todo' = Tail(todo)
  /\ LET p == Head(todo)
         counts == p \notin FloorPairs /\ geometry[p].sure
     IN /\ unevaluated' = unevaluated + (IF counts THEN 1 ELSE 0)
        /\ exact' = IF counts THEN exact ELSE exact \cup {p}
  /\ UNCHANGED <<input, pc, closest, rows, dropped, best>>

\* The budget's closest of those evaluated become rows.
Within == {p \in exact : Distance(p) <= Activation}
Keep(n, s) == IF n < Len(s) THEN SubSeq(s, 1, n) ELSE s
KeepClosest ==
  /\ pc = "settle" /\ todo = <<>> /\ pc' = "arm"
  /\ rows' = Keep(budget[1], ByDistance(Within))
  /\ dropped' = Cardinality(Within) - Len(rows') + unevaluated
  /\ UNCHANGED <<input, todo, exact, closest, unevaluated, best>>

\* The panel against the arm links: of each listed link the closest primitive
\* within activation, the closest links on a budget of their own.
ClosestOfLink(l) ==
  LET near == {a \in Arms : LinkOf[a] = l /\ arm[a].bound <= Activation /\ arm[a].distance <= Activation}
  IN IF near = {} THEN {} ELSE {CHOOSE a \in near : \A b \in near : arm[a].distance <= arm[b].distance}
ArmRows ==
  Keep(budget[2], SetToSortSeq(UNION {ClosestOfLink(l) : l \in Links},
                               LAMBDA a, b : arm[a].distance < arm[b].distance))
KeepArm ==
  /\ use = "rows" /\ pc = "arm" /\ pc' = "done" /\ rows' = rows \o ArmRows
  /\ UNCHANGED <<input, todo, exact, closest, unevaluated, dropped, best>>

-----------------------------------------------------------------------------
\* nearest(): from the first pair on; clearance_with_joints: capped at
\* activation. A pair is skipped if its lower bound cannot improve the result.
BeginNearest ==
  /\ use = "nearest" /\ pc = "begin" /\ pc' = "prune" /\ todo' = SetToSeq(Pairs)
  /\ UNCHANGED <<input, exact, closest, unevaluated, rows, dropped, best>>

BeginClearance ==
  /\ use = "clearance" /\ pc = "begin" /\ pc' = "prune" /\ todo' = SetToSeq(Pairs)
  /\ best' = Activation
  /\ UNCHANGED <<input, exact, closest, unevaluated, rows, dropped>>

\* Mutant: the bound of a pair is taken for one of its pose a step further.
SkipsEarly(p) == best # Beyond /\ Bound(p) + 1 >= best
Skips(p) == best # Beyond /\ Bound(p) >= best
Improved(p) == IF best = Beyond \/ Distance(p) < best THEN Distance(p) ELSE best
NearestNext ==
  /\ use = "nearest" /\ pc = "prune" /\ todo # <<>> /\ todo' = Tail(todo)
  /\ IF Skips(Head(todo)) THEN UNCHANGED <<exact, best>>
     ELSE exact' = exact \cup {Head(todo)} /\ best' = Improved(Head(todo))
  /\ UNCHANGED <<input, pc, closest, unevaluated, rows, dropped>>

ClearanceNext ==
  /\ use = "clearance" /\ pc = "prune" /\ todo # <<>> /\ todo' = Tail(todo)
  /\ IF Bound(Head(todo)) >= best THEN UNCHANGED <<exact, best>>
     ELSE exact' = exact \cup {Head(todo)} /\ best' = Min({best, Distance(Head(todo))})
  /\ UNCHANGED <<input, pc, closest, unevaluated, rows, dropped>>

PruneEnds ==
  /\ pc = "prune" /\ todo = <<>> /\ pc' = "done"
  /\ UNCHANGED <<input, todo, exact, closest, unevaluated, rows, dropped, best>>

-----------------------------------------------------------------------------
Next ==
  \/ BeginRows \/ EvaluateNext \/ ClosestKnown \/ SettleNext \/ KeepClosest \/ KeepArm
  \/ BeginNearest \/ BeginClearance \/ NearestNext \/ ClearanceNext \/ PruneEnds
Spec == Init /\ [][Next]_vars

-----------------------------------------------------------------------------
\* Every variable keeps its range.
TypeOK ==
  /\ pc \in {"begin", "closest", "settle", "arm", "prune", "done"}
  /\ exact \subseteq Pairs /\ Len(closest) <= budget[1] /\ unevaluated \in Nat
  /\ dropped \in Nat /\ best \in Distances \cup {Activation, Beyond}

\* The stage's rows are what evaluating everything would have chosen: no pair
\* left out is nearer than one kept, as many are kept as the budget allows, and
\* dropped_pairs counts exactly the rest ("the pairs_per_stage closest pairs
\* within activation_m are returned", collision.hpp).
AllWithin == {p \in Pairs : Distance(p) <= Activation}
RowsAreTheClosest ==
  use = "rows" /\ pc = "done" =>
    LET kept == {rows[n] : n \in DOMAIN rows} \cap Pairs
    IN /\ Cardinality(kept) = Min({budget[1], Cardinality(AllWithin)})
       /\ kept \subseteq AllWithin /\ dropped = Cardinality(AllWithin) - Cardinality(kept)
       /\ \A p \in kept, q \in AllWithin \ kept : Distance(p) <= Distance(q)

\* Pruning never changes the result: nearest() is the smallest distance there
\* is, clearance_* the smallest up to activation.
PrunedIsExact ==
  pc = "done" /\ use # "rows" =>
    best = IF use = "nearest" /\ Pairs = {} THEN Beyond
           ELSE Min({Distance(p) : p \in Pairs} \cup (IF use = "clearance" THEN {Activation} ELSE {}))
=============================================================================
