------------------------------ MODULE MCPanic ------------------------------
(* Values of Panic's and TestProcesses' constants for TLC.                   *)
EXTENDS Panic

MCCode == 0 .. 29
MCPrograms == <<RAZZLE, DAZZLE>>
============================================================================
