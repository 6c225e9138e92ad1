------------------------------ MODULE MCCIClient ------------------------------
(* MCScanLifecycle's instances, with a CI client in front. *)
EXTENDS MCScanLifecycle, CIClient
=============================================================================
