--------------------------- MODULE MCMpcController ---------------------------
(* The controller's API called in any order, on a small instance, and the  *)
(* contract it implements.                                                 *)
EXTENDS MpcController
=============================================================================
