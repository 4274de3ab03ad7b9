--------------------------- MODULE PosturePicker ---------------------------
(***************************************************************************)
(* The side picker and the tightness filter of formulation.cpp, driven by  *)
(* Controller::linearize: which tight pose the posture blend pulls to.     *)
(*                                                                         *)
(* Clearances are whole numbers, so are the distances they are compared    *)
(* with; tightness is a level the low-pass filter moves towards its        *)
(* target. A window is the clearance of the comfort pose and of each tight *)
(* pose in every stage of the horizon, a route probe the same at every     *)
(* sample of the route ahead.                                              *)
(***************************************************************************)
EXTENDS Integers, FiniteSetsExt, SequencesExt

CONSTANTS
  AlphaOff, AlphaOn, AlphaMax,  \* kPickAlphaOff, kPickAlphaOn and 1, in levels
  TightComfort,                 \* kTightComfortM
  PickMargin,                   \* kPickMarginM
  Margin,                       \* RouteProbe::margin_m
  Bridge,                       \* RouteProbe::bridge_m in samples
  Windows,                      \* [comfort, tights] per stage
  Routes                        \* [comfort, tights] per route sample

VARIABLES
  alpha,   \* TightnessFilter::alpha_
  choice,  \* SidePicker::choice_
  chosen   \* the inputs of the cycle that chose the side, or NotChosen

vars == <<alpha, choice, chosen>>

\* The levels between which a side is let go and picked, and probes that have a
\* sample of every pose for every stage.
Parameters ==
  /\ AlphaOff \in Nat /\ AlphaOff < AlphaOn /\ AlphaOn <= AlphaMax
  /\ PickMargin \in Nat \ {0} /\ Margin \in Nat /\ Margin < TightComfort /\ Bridge \in Nat
  /\ \A probe \in Windows \cup Routes :
       \A t \in DOMAIN probe.tights : Len(probe.tights[t]) = Len(probe.comfort)

\* PostureChoice: nothing, the comfort pose, the left or the right tight pose.
None == -1
Comfort == 0
Sides == {1, 2}
NotChosen == [by |-> "none"]

-----------------------------------------------------------------------------
\* The smallest clearance around a stage.
ScoreAt(v, k) == Min({v[i] : i \in {k - 1, k, k + 1} \cap DOMAIN v})
Conflicts(v) == {i \in DOMAIN v : v[i] < TightComfort}
\* The first of the stages with the least clearance.
Worst(v) == Min({i \in DOMAIN v : \A j \in DOMAIN v : v[i] <= v[j]})

\* A tight pose is eligible if it beats the comfort pose at the first conflict,
\* and, to leave a comfort pose chosen before, only if that pose collides and is
\* beaten at its worst stage too.
Eligible(w, from) ==
  LET k == Min(Conflicts(w.comfort))
      worst == Worst(w.comfort)
  IN  {t \in DOMAIN w.tights :
        /\ ScoreAt(w.tights[t], k) > ScoreAt(w.comfort, k) + PickMargin
        /\ from = Comfort =>
             /\ ScoreAt(w.comfort, worst) < 0
             /\ ScoreAt(w.tights[t], worst) > ScoreAt(w.comfort, worst) + PickMargin}

\* Mutant: a gap of Bridge samples already ends the segment.
SegmentEndShort(c) ==
  LET first == Min(Conflicts(c))
  IN  FoldLeft(LAMBDA last, i : IF i <= last + Bridge /\ c[i] < TightComfort THEN i ELSE last,
               first, [i \in 1..Len(c) - first + 1 |-> first + i - 1])

\* The route's tight segment: from the first conflict of the comfort pose to the
\* last, over clear gaps of up to Bridge samples. A sample that no tight pose
\* keeps clear and the comfort pose passes better is not counted.
SegmentEnd(c) ==
  LET first == Min(Conflicts(c))
  IN  FoldLeft(LAMBDA last, i : IF i <= last + Bridge + 1 /\ c[i] < TightComfort THEN i ELSE last,
               first, [i \in 1..Len(c) - first + 1 |-> first + i - 1])
Segment(c) == IF Conflicts(c) = {} THEN {} ELSE Min(Conflicts(c))..SegmentEnd(c)
Counted(r) ==
  {i \in Segment(r.comfort) :
    ~ /\ \A t \in Sides : r.tights[t][i] < Margin
      /\ \A t \in Sides : r.comfort[i] > r.tights[t][i] + PickMargin}

\* The side with the larger of two scores, if they differ by more than a margin.
Larger(s, margin) == {t \in Sides : s[t] > s[3 - t] + margin}
WindowScore(w) == [t \in Sides |-> ScoreAt(w.tights[t], Min(Conflicts(w.comfort)))]
\* Each pose's window score capped by its least clearance over the counted samples.
CappedScore(w, r) == [t \in Sides |-> Min({WindowScore(w)[t]} \cup {r.tights[t][i] : i \in Counted(r)})]
\* The means are over the same samples: they compare as the sums do.
SegmentSum(r) == [t \in Sides |-> MapThenSumSet(LAMBDA i : r.tights[t][i], Counted(r))]

\* What decides between two eligible sides, the first that tells them apart.
Deciders(w, r) ==
  IF Counted(r) = {} THEN <<Larger(WindowScore(w), PickMargin)>>
  ELSE <<Larger(CappedScore(w, r), PickMargin), Larger(WindowScore(w), PickMargin),
         Larger(SegmentSum(r), PickMargin * Cardinality(Counted(r)))>>
Decided(w, r) == SelectSeq(Deciders(w, r), LAMBDA d : d # {})
\* A tie goes to the side the arm pans to, else to the route's turn, else left.
SideOf(sign) == IF sign > 0 THEN {1} ELSE IF sign < 0 THEN {2} ELSE {}
TieSide(pan, turn) == IF pan # 0 THEN SideOf(pan) ELSE IF turn # 0 THEN SideOf(turn) ELSE {1}
Signs == {-1, 0, 1}
SidesOf(w, r) == IF Decided(w, r) # <<>> THEN Head(Decided(w, r)) ELSE UNION {TieSide(p, t) : p, t \in Signs}

-----------------------------------------------------------------------------
Init == alpha = 0 /\ choice = None /\ chosen = NotChosen

\* TightnessFilter::update: some part of the way to the target, never past it.
Filter(target) == alpha' \in alpha..target \cup target..alpha

\* A cycle that only follows the tightness: the choice falls below AlphaOff and
\* is kept otherwise, be it latched, too early or unprobed (the comfort pose
\* keeps its distance).
Keep(target) ==
  /\ Filter(target)
  /\ choice' = IF alpha' < AlphaOff THEN None ELSE choice
  /\ chosen' = IF alpha' < AlphaOff THEN NotChosen ELSE chosen

\* Following a medium reference neither the filter nor the picker is asked.
Medium == UNCHANGED vars

\* A probed cycle: no side yet, tightness high enough, a conflict in the window.
Probes(target, w) ==
  /\ Filter(target) /\ alpha' >= AlphaOn
  /\ choice \in {None, Comfort}
  /\ Conflicts(w.comfort) # {}

KeepComfort(target, w) ==
  /\ Probes(target, w) /\ Eligible(w, choice) = {}
  /\ choice' = Comfort /\ chosen' = NotChosen

OnlySide(target, w) ==
  /\ Probes(target, w)
  /\ \E t \in Sides :
       /\ Eligible(w, choice) = {t}
       /\ choice' = t
       /\ chosen' = [by |-> "window", from |-> choice, window |-> w]

EitherSide(target, w) ==
  /\ Probes(target, w) /\ Eligible(w, choice) = Sides
  /\ \E r \in Routes :
       /\ choice' \in SidesOf(w, r)
       /\ chosen' = [by |-> "route", from |-> choice, window |-> w, route |-> r]

Next ==
  \/ Medium
  \/ \E target \in 0..AlphaMax : Keep(target)
  \/ \E target \in 0..AlphaMax, w \in Windows :
       \/ KeepComfort(target, w)
       \/ OnlySide(target, w)
       \/ EitherSide(target, w)

Spec == Init /\ [][Next]_vars

-----------------------------------------------------------------------------
\* The types of the state.
TypeOK ==
  /\ alpha \in 0..AlphaMax
  /\ choice \in {None, Comfort} \cup Sides
  /\ chosen.by \in {"none", "window", "route"}

\* "Left and right are latched until alpha falls below kPickAlphaOff"
\* (formulation.hpp:218): over any number of cycles, medium ones between them
\* included, a side is never exchanged for the other, nor given up, while the
\* tightness stays up.
SideKept == choice \in Sides /\ alpha' >= AlphaOff => UNCHANGED choice
SideLatched == [][SideKept]_vars

\* The side taken is never the one the robot cannot get through with: over the
\* window and the tight segment ahead, as a reader of formulation.hpp:222-229
\* would find it (from the first conflict over gaps of up to Bridge samples,
\* samples left to the collision rows aside), the other side is not better by
\* more than the margin.
SegmentAhead(c) ==
  {i \in DOMAIN c : \E first, last \in Conflicts(c) :
     /\ first = Min(Conflicts(c)) /\ first <= i /\ i <= last
     /\ \A j \in first..last - 1 : \E n \in 1..Bridge + 1 : c[j] < TightComfort => j + n \in Conflicts(c)}
LeftToRows(r, i) ==
  r.tights[1][i] < Margin /\ r.tights[2][i] < Margin
    /\ r.comfort[i] - PickMargin > Max({r.tights[1][i], r.tights[2][i]})
Clearance(seen, t) ==
  Min({ScoreAt(seen.window.tights[t], Min(Conflicts(seen.window.comfort)))}
      \cup {seen.route.tights[t][i] : i \in {j \in SegmentAhead(seen.route.comfort) : ~LeftToRows(seen.route, j)}})
WidestSideTaken ==
  chosen.by = "route" /\ choice \in Sides => Clearance(chosen, choice) + PickMargin >= Clearance(chosen, 3 - choice)

\* A side is taken only where it is better than the comfort pose at the conflict,
\* and a comfort pose is left only if it collides: a low beam, which a vertical
\* pose would hit, is passed in the comfort pose.
SideBeatsComfort ==
  chosen.by # "none" =>
    LET w == chosen.window
        k == Min(Conflicts(w.comfort))
    IN  /\ ScoreAt(w.tights[choice], k) > ScoreAt(w.comfort, k) + PickMargin
        /\ chosen.from = Comfort => \E i \in DOMAIN w.comfort : w.comfort[i] < 0
=============================================================================
