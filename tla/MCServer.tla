------------------------------- MODULE MCServer -------------------------------
(***************************************************************************)
(* Instances of the coordinator server for TLC.                             *)
(***************************************************************************)
EXTENDS ServerSafety, TLC

MCServerSymmetry ==
  Permutations(Session) \cup Permutations(Boot) \cup Permutations(Attempt) \cup Permutations(Payload)
=============================================================================
