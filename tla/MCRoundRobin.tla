---------------------------- MODULE MCRoundRobin ----------------------------
(* RoundRobin with the constants of MCKernel. *)
EXTENDS MCKernel, RoundRobin
=============================================================================
