-------------------------- MODULE MCUnityEndpoint --------------------------
(***************************************************************************)
(* Small instances of UnityEndpoint for TLC.  Three connections are made   *)
(* without a message, one with up to three messages, more than a worker    *)
(* holds, and two with up to two messages, of one connection or of both.   *)
(***************************************************************************)
EXTENDS UnityEndpoint, TLC

ConnectionsAndMessages ==
  {<<1, 0>>, <<2, 0>>, <<3, 0>>, <<1, 1>>, <<1, 2>>, <<1, 3>>, <<2, 1>>, <<2, 2>>}

\* The system may give out either descriptor.
AnyDescriptor == Permutations(Descriptors)
=============================================================================
