--------------------------- MODULE MCEntryFrames ---------------------------
(* Values of EntryFrames' constants for TLC: the stubs lie across a multiple *)
(* of 2^16, and the TSS has a different number in each byte of its address.  *)
EXTENDS EntryFrames

MCStub(n) == 1114000 + 12 * n
MCTssEntry == 1 + 256 * (2 + 256 * (3 + 256 * 4))
MCVectors == {0, 8, 13, 17, 32, 33, 47, 128}
============================================================================
