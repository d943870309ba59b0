------------------------------ MODULE MCKernel ------------------------------
(* Values of Kernel's constants for TLC. *)
EXTENDS Kernel

\* Entry points 1 (test_razzle) and 2 (test_dazzle and a second shell).
MCCode == {0, 1, 2}
MCPrograms == <<1, 2, 2>>
MCTwoShells == <<2, 2>>

\* The programs count eax from 0 to last, through the numbers of the calls, and
\* change the length in ecx when they start again.  eip stays the entry point,
\* so the registers show whose they are, and a step that changes the registers
\* of a process in any other way is no instruction.
Files(last, lengths) ==
  [eax : 0 .. last \cup {-1, 8, 10, 97}, ecx : {0} \cup lengths, eip : {1, 2}]

Counted(r, last, lengths) ==
  IF r.eax \in 0 .. last - 1
  THEN [r EXCEPT !.eax = r.eax + 1, !.ecx = IF r.ecx = 0 THEN 1 ELSE r.ecx]
  ELSE [r EXCEPT !.eax = 0, !.ecx = IF \E n \in lengths : n > r.ecx
                                    THEN CHOOSE n \in lengths : n > r.ecx ELSE 1]

Program(last, lengths) ==
  {<<r, Counted(r, last, lengths)>> : r \in Files(last, lengths)}

MCInstructions == Program(5, {1})
MCInstructionsLengths == Program(6, {1, 5})
=============================================================================
