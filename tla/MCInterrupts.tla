----------------------------- MODULE MCInterrupts -----------------------------
(* Values of Interrupts' constants for TLC: the timer, the serial port, a line *)
(* of the follower that is its first, and one that is not.                     *)
EXTENDS Interrupts

MCLines == {0, 1, 4, 8, 12}
===============================================================================
