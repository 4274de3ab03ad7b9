------------------------------ MODULE QpSolvers ------------------------------
(***************************************************************************)
(* The stage-wise QP's two backends, osqp_solver.cpp and hpipm_solver.cpp: *)
(* setup fixes a pattern from one problem, and every later problem is      *)
(* checked against it, written into it and solved, warm or cold. The       *)
(* libraries' own solves are external: they end well or badly.             *)
(*                                                                         *)
(* Of a problem's numbers only those are kept that setup and solve look    *)
(* at: which bounds of a row are finite, and what is wrong with it.        *)
(***************************************************************************)
EXTENDS Naturals, SequencesExt

CONSTANTS
  Layouts,    \* the numbers of inequality rows of the stages
  Kinds,      \* what is finite of a row: subsets of {"lower", "upper"}
  MaxSlacks,  \* the most slacked rows
  Boxes,      \* patterns of the finite boxes
  Limits,     \* the time limits the controller sets
  WarmStart,  \* HpipmOptions::warm_start
  Condensed   \* HPIPM solves with partial condensing

VARIABLES
  backend,    \* the solver make_solver made
  ready,      \* Impl::ready, or OSQP's workspace exists
  shape,      \* Impl::pattern, or Impl::dims and slack_sign
  limit,      \* Impl::time_limit
  workLimit,  \* the limit in OSQP's workspace
  lastOk,     \* HPIPM's Impl::last_ok: the last solve succeeded
  call        \* the last call: what came of it, its problem, the relaxations

vars == <<backend, ready, shape, limit, workLimit, lastOk, call>>

\* load_mpc_config's part "solver", and problems that have a row bounded somewhere.
Parameters ==
  /\ WarmStart \in BOOLEAN /\ Condensed \in BOOLEAN
  /\ Limits \subseteq Nat \ {0} /\ MaxSlacks \in Nat
  /\ UNION Kinds = {"lower", "upper"}
  /\ \A l \in Layouts : \A k \in DOMAIN l : l[k] \in Nat

-----------------------------------------------------------------------------
\* QpProblem: the rows of each stage, the finite bounds of every row, the
\* slacked rows in the order of their slacks, and a flaw: matrices or vectors of
\* a wrong size, a start state or weights of one, bounds that cross.
Flaws == {"none", "sizes", "dx0", "weights", "crossed"}
Before(p, k) == FoldLeft(+, 0, SubSeq(p.rows, 1, k - 1))
Rows(p) == 1..Before(p, Len(p.rows) + 1)
StageOf(p, r) == CHOOSE k \in DOMAIN p.rows : Before(p, k) < r /\ r <= Before(p, k + 1)
SlackRows(n) == UNION {[1..k -> 1..n + 1] : k \in 0..MaxSlacks}
Problems ==
  UNION {[rows : {l}, finite : [Rows([rows |-> l]) -> Kinds], boxes : Boxes, flaw : Flaws,
          slack : SlackRows(Before([rows |-> l], Len(l) + 1))] : l \in Layouts}

\* The slacks name rows of the problem, and none twice.
SlacksFit(p) == Range(p.slack) \subseteq Rows(p) /\ IsInjective(p.slack)
OneFiniteBound(p, j) == \E side \in {"lower", "upper"} : p.finite[p.slack[j]] = {side}

\* What a solver may start from: nothing, an iterate of its size, another one.
Warm == {"none", "fits", "another size"}

-----------------------------------------------------------------------------
\* HPIPM's pattern of a stage: the finite bounds of its rows, and its soft
\* constraints in the order of the rows: the row within the stage, its slack,
\* and whether the bound that is relaxed is the lower one.
ByRow(p, k) ==
  SetToSortSeq({j \in DOMAIN p.slack : StageOf(p, p.slack[j]) = k}, LAMBDA a, b : p.slack[a] < p.slack[b])
StagePattern(p, k) ==
  LET soft == ByRow(p, k)
  IN  [on |-> [i \in 1..p.rows[k] |-> p.finite[Before(p, k) + i]],
       row |-> [i \in DOMAIN soft |-> p.slack[soft[i]] - Before(p, k)],
       slack |-> soft,
       lower |-> [i \in DOMAIN soft |-> "lower" \in p.finite[p.slack[soft[i]]]]]
PatternOf(p) == [boxes |-> p.boxes, stages |-> [k \in DOMAIN p.rows |-> StagePattern(p, k)]]

PatternThrows(p) ==
  \/ p.flaw = "sizes"
  \/ ~SlacksFit(p)
  \/ \E j \in DOMAIN p.slack : ~OneFiniteBound(p, j)

\* The soft constraints fill gives HPIPM: the row of its stage, where the values
\* solve reads for slack j come from.
Soft(pattern) == {<<k, i>> \in (DOMAIN pattern.stages) \X (1..MaxSlacks) : i \in DOMAIN pattern.stages[k].slack}
HpipmRelaxes(p, pattern) ==
  [j \in DOMAIN p.slack |->
     LET c == CHOOSE c \in Soft(pattern) : pattern.stages[c[1]].slack[c[2]] = j
         stage == pattern.stages[c[1]]
     IN  <<Before(p, c[1]) + stage.row[c[2]], IF stage.lower[c[2]] THEN "lower" ELSE "upper">>]

-----------------------------------------------------------------------------
\* OSQP's Dims, and slack_sign from the shape: a slacked row without a finite
\* bound counts as a lower one.
DimsOf(p) == [rows |-> p.rows, slack |-> p.slack]
DimsThrow(p) == p.flaw \in {"sizes", "dx0"} \/ ~SlacksFit(p)
SignThrows(p) == \E j \in DOMAIN p.slack : p.finite[p.slack[j]] = {"lower", "upper"}
SlackSign(p) ==
  [j \in DOMAIN p.slack |-> IF p.finite[p.slack[j]] = {"upper"} THEN "upper" ELSE "lower"]

\* emit_A: slack j's column stands in its row, with the sign setup chose.
OsqpRelaxes(dims, sign) == [j \in DOMAIN dims.slack |-> <<dims.slack[j], sign[j]>>]

\* fill: a finite bound on the side a slack cannot relax is refused.
FillThrows(p, sign) ==
  \/ p.flaw = "weights"
  \/ \E j \in DOMAIN p.slack : ~(p.finite[p.slack[j]] \subseteq {sign[j]})

-----------------------------------------------------------------------------
Nothing == [what |-> "none", problem |-> {}, relaxes |-> <<>>, start |-> "none"]
Init ==
  /\ backend \in {"osqp", "hpipm"} /\ ready = FALSE /\ shape = {} /\ limit = 0 /\ workLimit = 0
  /\ lastOk = FALSE /\ call = Nothing

Threw == call' = [Nothing EXCEPT !.what = "threw"]

\* HpipmSolver::setup: not ready from its first line until its last.
SetupHpipm(p) ==
  /\ backend = "hpipm"
  /\ IF PatternThrows(p) THEN ready' = FALSE /\ Threw /\ UNCHANGED <<shape, lastOk>>
     ELSE /\ shape' = PatternOf(p) /\ ready' = TRUE /\ lastOk' = FALSE
          /\ call' = [Nothing EXCEPT !.what = "set up"]
  /\ UNCHANGED <<backend, limit, workLimit>>

\* OsqpSolver::setup: what it refuses leaves the old workspace, what fails
\* afterwards (the weights' size in fill, osqp_setup) leaves none.
SetupOsqp(p) ==
  /\ backend = "osqp"
  /\ IF DimsThrow(p) \/ SignThrows(p) THEN Threw /\ UNCHANGED <<ready, shape, workLimit>>
     ELSE /\ shape' = [dims |-> DimsOf(p), sign |-> SlackSign(p)]
          /\ ready' \in (IF p.flaw = "weights" THEN {FALSE} ELSE BOOLEAN)
          /\ IF ready' THEN workLimit' = limit /\ call' = [Nothing EXCEPT !.what = "set up"]
             ELSE Threw /\ UNCHANGED workLimit
  /\ UNCHANGED <<backend, limit, lastOk>>

\* set_time_limit; HPIPM ignores it.
SetTimeLimit(l) ==
  /\ backend = "osqp" /\ l # limit
  /\ limit' = l /\ workLimit' = IF ready THEN l ELSE workLimit
  /\ UNCHANGED <<backend, ready, shape, lastOk, call>>

\* What a solve that was not refused tells: how it ended, where it started.
Result(what, p, relaxes, start) == [what |-> what, problem |-> p, relaxes |-> relaxes, start |-> start]

\* HpipmSolver::solve: the same pattern, all values written; warm, if wanted,
\* after a success only, and never condensed; every other end than status 0
\* with numbers fails.
StartsWarm(warm) == WarmStart /\ lastOk /\ ~Condensed /\ warm = "fits"
SolveHpipm(p, warm) ==
  /\ backend = "hpipm"
  /\ IF ~ready \/ PatternThrows(p) \/ PatternOf(p) # shape \/ p.flaw \in {"weights", "dx0"} THEN Threw /\ UNCHANGED lastOk
     ELSE /\ lastOk' \in BOOLEAN
          /\ call' = Result(IF lastOk' THEN "ok" ELSE "failed", p, HpipmRelaxes(p, shape),
                            IF StartsWarm(warm) THEN "warm" ELSE "cold")
  /\ UNCHANGED <<backend, ready, shape, limit, workLimit>>

\* OsqpSolver::solve: the same dimensions. Crossing bounds and a failed update
\* are reported before anything starts; an iterate of another size starts at
\* zero.
SolveOsqp(p, warm) ==
  /\ backend = "osqp"
  /\ IF ~ready \/ DimsThrow(p) \/ DimsOf(p) # shape.dims \/ FillThrows(p, shape.sign) THEN Threw
     ELSE LET relaxes == OsqpRelaxes(shape.dims, shape.sign)
          IN \/ call' = Result("failed", p, relaxes, "none")
             \/ /\ p.flaw # "crossed"
                /\ \E what \in {"ok", "failed"} :
                     call' = Result(what, p, relaxes, IF warm = "fits" THEN "warm" ELSE "cold")
  /\ UNCHANGED <<backend, ready, shape, limit, workLimit, lastOk>>

-----------------------------------------------------------------------------
\* The caller takes what a call gave before it makes another one.
Taken == call.what # "none" /\ call' = Nothing /\ UNCHANGED <<backend, ready, shape, limit, workLimit, lastOk>>

Setup(p) == SetupHpipm(p) \/ SetupOsqp(p)
Solve(p, warm) == SolveHpipm(p, warm) \/ SolveOsqp(p, warm)
Next ==
  \/ /\ call.what = "none"
     /\ \/ \E p \in Problems : Setup(p) \/ \E warm \in Warm : Solve(p, warm)
        \/ \E l \in Limits : SetTimeLimit(l)
  \/ Taken
Spec == Init /\ [][Next]_vars

-----------------------------------------------------------------------------
\* Every variable keeps its range.
TypeOK ==
  /\ backend \in {"osqp", "hpipm"} /\ ready \in BOOLEAN /\ lastOk \in BOOLEAN
  /\ {limit, workLimit} \subseteq Limits \cup {0}
  /\ call.what \in {"none", "threw", "set up", "ok", "failed"}

\* "Each row listed in slack_rows gets its own slack; the slack relaxes the
\* row's one finite bound" (qp.hpp): whatever problem the solver was set up
\* with, each slack of a solve that was not refused belongs to its row in the
\* order of slack_rows and relaxes no other side than the row's finite one.
SlackRelaxesItsRow ==
  call.what \in {"ok", "failed"} =>
    /\ Len(call.relaxes) = Len(call.problem.slack)
    /\ \A j \in DOMAIN call.relaxes :
         /\ call.relaxes[j][1] = call.problem.slack[j]
         /\ call.problem.finite[call.problem.slack[j]] \subseteq {call.relaxes[j][2]}

\* The limit in force in a workspace is the last one set ("kept over setup()").
LimitKept == backend = "osqp" /\ ready => workLimit = limit
=============================================================================
