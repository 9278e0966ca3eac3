-------------------------------- MODULE MCStore --------------------------------
(***************************************************************************)
(* Instances of the coordinator process for TLC.                            *)
(***************************************************************************)
EXTENDS DurableStore, MCGovernor
=============================================================================
