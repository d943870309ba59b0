-------------------------------- MODULE MCNqfs --------------------------------
(* Values of Nqfs' constants for TLC. *)
EXTENDS Nqfs

MCInputs == {<<>>, <<1>>, <<2, 1>>, <<1, 2, 1>>, <<2, 2, 1, 1, 2>>}
===============================================================================
