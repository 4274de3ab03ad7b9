-------------------------- MODULE ControllerContract --------------------------
(***************************************************************************)
(* What the MPC controller promises the node that runs it                  *)
(* (mobile_manipulator_mpc/include/mobile_manipulator_mpc/controller.hpp): *)
(* the answers to its calls, without the plans, the failure count and the  *)
(* resume dwell that decide between them.  MpcController implements it;    *)
(* WholeBodyMpcNode is built on it.                                        *)
(***************************************************************************)
EXTENDS Integers

CONSTANTS
  VMax,         \* largest base speed
  BrakeLimit    \* the most a step's braking takes from it

Modes    == {"Tracking", "Braking", "Failed", "GoalReached"}
Statuses == {"None", "Ok", "Fallback", "Braking", "Failed", "GoalReached",
             "StaleState", "Holding", "Blocked"}

Controllers ==
  [started : BOOLEAN, mode : Modes, holding : BOOLEAN, blocked : BOOLEAN,
   cmd : 0..VMax, status : Statuses]

Created == [started |-> FALSE, mode |-> "Tracking", holding |-> FALSE,
            blocked |-> FALSE, cmd |-> 0, status |-> "None"]

-----------------------------------------------------------------------------
(* The calls.                                                              *)

(* start *)
Started(c) == [c EXCEPT !.started = TRUE, !.mode = "Tracking", !.holding = FALSE]

(* The base slowed by one step: strictly when the clock moves.             *)
Slowed(c, moves) ==
  {v \in 0..c.cmd : v >= c.cmd - BrakeLimit /\ (moves => v = 0 \/ v < c.cmd)}

Latched(c) == {[c EXCEPT !.status = c.mode, !.cmd = 0, !.holding = FALSE]}

Reached(c) ==
  {[c EXCEPT !.mode = "GoalReached", !.status = "GoalReached", !.cmd = 0, !.holding = FALSE]}

(* Braking ends in Failed once the command is zero.                        *)
Brakes(c, st, moves) ==
  {[c EXCEPT !.mode   = IF v = 0 THEN "Failed" ELSE "Braking",
             !.status = IF v = 0 THEN "Failed" ELSE st,
             !.cmd = v, !.holding = FALSE] : v \in Slowed(c, moves)}

Holds(c, moves) ==
  {[c EXCEPT !.status = IF c.blocked THEN "Blocked" ELSE "Holding",
             !.cmd = v, !.holding = TRUE] : v \in Slowed(c, moves)}

(* A plan is executed unless blocked; after a hold only a solved one.      *)
Executes(c) ==
  {[c EXCEPT !.status = st, !.cmd = v, !.holding = FALSE] :
     st \in (IF c.blocked THEN {} ELSE IF c.holding THEN {"Ok"} ELSE {"Ok", "Fallback"}),
     v \in 0..VMax}

(* step *)
Stepped(c, fresh, moves) ==
  IF c.mode \in {"Failed", "GoalReached"} THEN Latched(c)
  ELSE IF ~fresh THEN Brakes(c, "StaleState", moves)
  ELSE IF c.mode = "Braking" THEN Brakes(c, "Braking", moves)
  ELSE Reached(c) \cup Brakes(c, "Braking", moves) \cup Holds(c, moves) \cup Executes(c)

(* note_failure: a late cycle may use up the fallback budget.              *)
Late(c) == {c} \cup (IF c.mode = "Tracking" THEN {[c EXCEPT !.mode = "Braking"]} ELSE {})

-----------------------------------------------------------------------------
(* The contract as a specification.                                        *)

VARIABLE ctl

Init == ctl = Created

Next ==
  \/ ctl' = Started(ctl)
  \/ \E v \in 0..VMax : ctl' = [ctl EXCEPT !.cmd = v]           \* reset_command
  \/ \E on \in BOOLEAN : ctl' = [ctl EXCEPT !.blocked = on]     \* set_external_hold
  \/ ctl' \in Late(ctl)
  \/ ctl.started /\ \E fresh, moves \in BOOLEAN : ctl' \in Stepped(ctl, fresh, moves)

Spec == Init /\ [][Next]_ctl
=============================================================================
