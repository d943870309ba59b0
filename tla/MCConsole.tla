----------------------------- MODULE MCConsole -----------------------------
(* Values of Console's constants for TLC. *)
EXTENDS Console

MCPrompt == <<"a">>

\* A write outside vga_buf may change anything: nothing is claimed after it.
NotStray == ~vga.stray

\* Bound: how far move_row and start_row are apart.  Erasing over the margin and
\* typing again takes move_row on through all its 256 values.
MaxApart == 4
NotFarApart == uint8(vga.move_row - vga.start_row) \in (0 .. MaxApart) \cup (256 - MaxApart .. 255)
============================================================================
