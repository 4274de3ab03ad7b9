--------------------------------- MODULE Scp ---------------------------------
(***************************************************************************)
(* solve_scp (scp.cpp) on one of the three dense solvers (dense_qp_*.cpp): *)
(* linearize, solve the dense QP, keep the step only if the exact merit    *)
(* decreases, adapt the trust region, until it converged, ran out of       *)
(* iterations or out of time.                                              *)
(*                                                                         *)
(* A trajectory is the number of its candidate (0 is the seed); its merit, *)
(* its violations and its collision rows are what the problem would        *)
(* compute for it. Steps and trust regions are whole multiples of the unit *)
(* in which trust_min is 1 and halving rounds down.                        *)
(***************************************************************************)
EXTENDS Integers

CONSTANTS
  MaxIter,     \* scp.max_iter
  MaxMade,     \* calls start while fewer trajectories than this were judged
  TrustInit,   \* scp.trust_init
  TrustMax,    \* scp.trust_max
  Merits,      \* merits a trajectory may have
  Predictions, \* decreases a QP may predict
  StepTol,     \* scp.step_tol
  MeritTol,    \* scp.merit_tol, of a decrease
  RowCounts,   \* collision rows a linearization may have
  Variables    \* parameters and slacks a linearization may have

VARIABLES
  backend,    \* the dense solver
  space,      \* its workspace: the dimensions it was set up with
  set,        \* DAQP: the dimensions of last_sense_
  pc,         \* where solve_scp is
  iters,      \* r.iterations
  late,       \* the deadline passed
  cur,        \* r.traj, [id, merit, ok]: its candidate, merit, feasible
  rows,       \* current_rows: whose they are
  seen,       \* current: whose violations
  trust,      \* the trust region
  warm,       \* the size of warm, 0 for none
  lin,        \* the QP: its dimensions, whose rows it was built from
  step,       \* the QP's step and the decrease it predicts
  made,       \* candidates so far
  ended,      \* how the loop ended
  started     \* the point the last solve of the QP started from

loop == <<iters, late, cur, rows, seen, trust, warm, made>>
vars == <<backend, space, set, pc, loop, lin, step, ended, started>>

\* load_medium_config's part "scp".
Parameters ==
  /\ TrustMax \in Nat /\ TrustInit \in 1..TrustMax
  /\ MaxIter \in Nat \ {0}
  /\ Merits \subseteq Int /\ Predictions \subseteq Int
  /\ StepTol > 0 /\ MeritTol > 0

NoDims == [n |-> 0, m |-> 0]

-----------------------------------------------------------------------------
\* A trajectory's merit and whether its violations are within the tolerances.
Valued(id) == [id : {id}, merit : Merits, ok : BOOLEAN]

Init ==
  /\ backend \in {"hpipm", "osqp", "daqp"} /\ space = NoDims /\ set = NoDims
  /\ pc = "loop" /\ iters = 0 /\ late \in BOOLEAN /\ cur \in Valued(0)
  /\ rows = 0 /\ seen = 0 /\ trust = TrustInit /\ warm = 0
  /\ lin = [of |-> 0, rows |-> 0, dims |-> NoDims] /\ step = [size |-> 0, predicted |-> 0]
  /\ made = 0 /\ ended = "no" /\ started = "nothing"

Linearize ==
  /\ pc = "loop" /\ ended = "no" /\ iters < MaxIter /\ ~late
  /\ iters' = iters + 1 /\ pc' = "qp"
  /\ \E n \in Variables, m \in RowCounts :
       lin' = [of |-> cur.id, rows |-> rows, dims |-> [n |-> n, m |-> m]]
  /\ UNCHANGED <<backend, space, set, late, cur, rows, seen, trust, warm, step, made, ended, started>>

-----------------------------------------------------------------------------
\* What the backends keep of the last solve, if this one's dimensions agree:
\* HPIPM and OSQP set their workspace up again when they do not; DAQP then
\* takes the constraints active at the warm point.
Fits == space = lin.dims
StartHpipm == IF warm = lin.dims.n THEN "primal" ELSE "cold"
StartOsqp == IF warm = lin.dims.n THEN (IF Fits THEN "primal and duals" ELSE "primal") ELSE "cold"
StartDaqp ==
  IF warm # lin.dims.n THEN "cold" ELSE IF set = lin.dims THEN "working set" ELSE "active at warm"
StartOf ==
  CASE backend = "hpipm" -> StartHpipm [] backend = "osqp" -> StartOsqp [] backend = "daqp" -> StartDaqp

\* A QP that failed halves the trust region; too small a one ends the loop,
\* interrupted if the deadline passed meanwhile, but never converged.
Stopped == IF iters < MaxIter /\ late THEN "interrupted" ELSE "exhausted"
End(how) == pc' = "done" /\ ended' = how
GoOn == pc' = "loop" /\ UNCHANGED ended
QpFails ==
  /\ trust' = trust \div 2 /\ UNCHANGED <<warm, step>>
  /\ IF trust' = 0 THEN End(Stopped) ELSE GoOn

\* The bounds cross, OSQP's update fails or DAQP's setup does: nothing started.
NotSolved == pc = "qp" /\ QpFails /\ started' = "nothing" /\ UNCHANGED <<space, set>>

\* HPIPM and OSQP keep a workspace, DAQP the working set it ended with.
SetUp == space' = lin.dims /\ UNCHANGED set
WorkingSet == set' = lin.dims /\ UNCHANGED space
Workspace == IF backend = "daqp" THEN WorkingSet ELSE SetUp
Solved ==
  /\ pc = "qp" /\ Workspace /\ started' = StartOf
  /\ \/ QpFails
     \/ /\ warm' = lin.dims.n /\ pc' = "merit" /\ UNCHANGED <<trust, ended>>
        /\ \E s \in 0..trust, p \in Predictions : step' = [size |-> s, predicted |-> p]

\* osqp_setup fails: an exception leaves solve_scp, and no workspace.
SetupThrows ==
  /\ pc = "qp" /\ backend = "osqp" /\ ~Fits /\ End("threw") /\ space' = NoDims /\ started' = "nothing"
  /\ UNCHANGED <<set, trust, warm, step>>

SolveQp ==
  /\ NotSolved \/ Solved \/ SetupThrows
  /\ UNCHANGED <<backend, iters, late, cur, rows, seen, lin, made>>

-----------------------------------------------------------------------------
\* A step is kept for a decrease of at least a tenth of the predicted one; its
\* collision pass becomes the next linearization's.
Smaller(a, b) == IF a < b THEN a ELSE b
Actual(c) == cur.merit - c.merit
Keeps(c) == Actual(c) > 0 /\ (step.predicted <= 0 \/ 10 * Actual(c) >= step.predicted)
\* Mutant: the next QP is built from the rows of the step before.
AcceptedKeepingRows(c) == cur' = c /\ seen' = c.id /\ UNCHANGED rows
Accepted(c) == cur' = c /\ rows' = c.id /\ seen' = c.id

\* Mutant: the trust region grows past its maximum.
GrownUncapped(c) ==
  IF step.predicted > 0 /\ 4 * Actual(c) >= 3 * step.predicted /\ step.size = trust THEN 2 * trust ELSE trust
Grown(c) ==
  IF step.predicted > 0 /\ 4 * Actual(c) >= 3 * step.predicted /\ step.size = trust
  THEN Smaller(2 * trust, TrustMax) ELSE trust
LittleGained(c) ==
  step.size < StepTol \/ 100 * Actual(c) < MeritTol * (IF cur.merit > 1 THEN cur.merit ELSE 1)

Judge ==
  /\ pc = "merit" /\ made' = made + 1
  /\ \E c \in Valued(made + 1) :
       IF Keeps(c)
       THEN /\ Accepted(c) /\ trust' = Grown(c)
            /\ IF LittleGained(c) THEN End("converged") ELSE GoOn
       ELSE /\ UNCHANGED <<cur, rows, seen>>
            /\ trust' = (IF step.size < StepTol THEN trust ELSE Smaller(trust, step.size) \div 2)
            /\ IF step.size < StepTol \/ trust' = 0 THEN End("converged") ELSE GoOn
  /\ UNCHANGED <<backend, space, set, iters, late, warm, lin, step, started>>

\* The loop's condition: max_iter, or the deadline (iterations_left at zero).
LeaveLoop ==
  /\ pc = "loop" /\ (iters = MaxIter \/ late) /\ End(Stopped)
  /\ UNCHANGED <<backend, space, set, loop, lin, step, started>>

DeadlinePasses ==
  /\ pc # "done" /\ ~late /\ late' = TRUE
  /\ UNCHANGED <<backend, space, set, pc, iters, cur, rows, seen, trust, warm, made, lin, step, ended, started>>

\* The next call of solve_scp with the same solver, from any seed.
Again ==
  /\ pc = "done" /\ made < MaxMade
  /\ pc' = "loop" /\ iters' = 0 /\ late' \in BOOLEAN /\ trust' = TrustInit /\ warm' = 0 /\ ended' = "no"
  /\ cur' \in Valued(made + 1) /\ rows' = made + 1 /\ seen' = made + 1 /\ made' = made + 1
  /\ UNCHANGED <<backend, space, set, lin, step, started>>

-----------------------------------------------------------------------------
Next == Linearize \/ SolveQp \/ Judge \/ LeaveLoop \/ DeadlinePasses \/ Again
Spec == Init /\ [][Next]_vars

-----------------------------------------------------------------------------
\* Every variable keeps its range.
TypeOK ==
  /\ pc \in {"loop", "qp", "merit", "done"} /\ iters \in 0..MaxIter /\ trust \in 0..TrustMax
  /\ ended \in {"no", "converged", "interrupted", "exhausted", "threw"}
  /\ cur.merit \in Merits /\ cur.ok \in BOOLEAN /\ made \in Nat

\* Every QP is built from the collision rows of the trajectory it linearizes,
\* and the violations that decide "feasible" are those of the trajectory that
\* is returned, however many candidates were judged and thrown away between.
OneTrajectory == rows = cur.id /\ seen = cur.id /\ (pc \in {"qp", "merit"} => lin.of = lin.rows)

\* Within one call the merit only falls ("keeps the step only if the exact
\* merit decreases", scp.hpp).
Improves ==
  pc # "done" => cur'.merit <= cur.merit /\ (cur'.id # cur.id => cur'.merit < cur.merit)
OnlyImproves == [][Improves]_vars
=============================================================================
