------------------------------- MODULE Shell -------------------------------
(***************************************************************************)
(* The line editing of the shell, test_dazzle (supp/test_processes.c): its *)
(* array command and index i, filled key by key, cut by backspaces, ended  *)
(* by a newline and compared with the names of the commands.  The array is *)
(* not initialised and keeps what earlier lines left in it.                *)
(***************************************************************************)
EXTENDS Integers, Sequences, SequencesExt

CONSTANTS
  COMMAND_SIZE,  \* 2048
  Chars,         \* characters, NUL among them: keys without a character give it
  NUL,
  Commands,      \* the names of the commands, sequences over Chars
  MaxLine        \* bound: the longest line anybody types

ASSUME ShellAssumption == COMMAND_SIZE \in Nat \ {0} /\ NUL \in Chars /\ MaxLine \in Nat

VARIABLES
  command,  \* the array, and behind it cells for what a longer line writes
  i,
  ran,      \* the command the last line ran, <<>> for an unknown one
  typed,    \* history: the characters of the line
  entered,  \* history: the last line
  overrun,  \* history: a write behind the array
  long      \* history: a line became too long for the array with its 0

shellvars == <<command, i, ran, typed, entered, overrun, long>>

Store(k, c) == command' = [command EXCEPT ![k] = c] /\ overrun' = (overrun \/ k >= COMMAND_SIZE)

\* default: echo and append.
Key(c) ==
  /\ i < MaxLine
  /\ Store(i, c) /\ i' = i + 1
  /\ typed' = Append(typed, c) /\ long' = (long \/ Len(typed') >= COMMAND_SIZE)
  /\ UNCHANGED <<ran, entered>>

\* case '\b': the 0 goes behind the character that is taken away.
Backspace ==
  /\ i > 0
  /\ Store(i, NUL) /\ i' = i - 1
  /\ typed' = Front(typed)
  /\ UNCHANGED <<ran, entered, long>>

\* Mutation: the line is not ended.
EndLine_open == UNCHANGED <<command, overrun>>

EndLine == Store(i, NUL)

\* The string at command, up to its 0.
Str(a) == LET n == CHOOSE k \in 0 .. MaxLine : a[k] = NUL /\ \A j \in 0 .. k - 1 : a[j] # NUL
          IN [k \in 1 .. n |-> a[k - 1]]

\* case '\n': the comparisons with streq.
NewLine ==
  /\ EndLine /\ i' = 0
  /\ ran' = IF \E k \in 0 .. MaxLine : command'[k] = NUL
            THEN IF Str(command') \in Commands THEN Str(command') ELSE <<>>
            ELSE <<>>
  /\ typed' = <<>> /\ entered' = typed
  /\ UNCHANGED long

ShellInit ==
  /\ command \in [0 .. MaxLine -> Chars]
  /\ i = 0 /\ ran = <<>> /\ typed = <<>> /\ entered = <<>>
  /\ overrun = FALSE /\ long = FALSE

ShellNext == (\E c \in Chars : Key(c)) \/ Backspace \/ NewLine

ShellSpec == ShellInit /\ [][ShellNext]_shellvars

-----------------------------------------------------------------------------
(* Properties. *)

\* What is left of a line before its first NUL.
Text(l) == LET n == CHOOSE k \in 0 .. Len(l) : (k < Len(l) => l[k + 1] = NUL) /\ \A j \in 1 .. k : l[j] # NUL
           IN SubSeq(l, 1, n)

\* A command runs if and only if its name is what was typed, less what was erased,
\* and nothing of an earlier, longer line or of an erased end (the 0 of a backspace
\* misses the character) gets into it; and nothing is written behind the array
\* (test_processes.c:95-106, 138).  Nothing but the user bounds i: this holds until a
\* line does not fit the array with its 0, which is then written behind it, where
\* prompt and i lie (test_processes.c:84-88).
RunsWhatWasTyped ==
  ~long => ~overrun /\ ran = IF Text(entered) \in Commands THEN Text(entered) ELSE <<>>
============================================================================
