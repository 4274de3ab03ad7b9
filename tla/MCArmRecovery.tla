---------------------------- MODULE MCArmRecovery ----------------------------
(* The simulated arm, its hardware interface and the supervisor, with faults, *)
(* refused and lost service calls.                                           *)
EXTENDS ArmRecovery
=============================================================================
