------------------------------ MODULE MCKeyboard ------------------------------
(* Values of Keyboard's constants for TLC. *)
EXTENDS Keyboard

\* Modifiers, Esc, a letter, a digit, a key above 63 whose low bits are that digit's,
\* and the Enter and the arrow of the extended block.
MCKeys == {42, 54, 58, 1, 30, 8, 72}
MCExtendedKeys == {28, 72}
===============================================================================
