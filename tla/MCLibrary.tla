----------------------------- MODULE MCLibrary -----------------------------
(* Values of Library's constants for TLC.                                    *)
EXTENDS Library

\* %u, %d and %x, alone, of every word.
Conversions == {<<37, 117>>, <<37, 100>>, <<37, 120>>} \X (0 .. WORD - 1)

\* Every format of up to five characters over %, c, u, s and an unknown letter.
AnyFormats == (UNION {[1 .. n -> {37, 99, 117, 115, 113}] : n \in 0 .. 5}) \X {0, 266}

MCCalls == Conversions \cup AnyFormats

MCCommands == {<<"a">>, <<"a", "b">>, <<"b", "a", "a">>}
============================================================================
