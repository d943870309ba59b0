------------------------------ MODULE Library ------------------------------
(***************************************************************************)
(* Any call of printf (Format), any call of a memory helper (Memory), and  *)
(* the shell's line editing (Shell), which relies on streq.  The three     *)
(* share no state: a behaviour is one of either.                           *)
(***************************************************************************)
EXTENDS Format, Memory, Shell

VARIABLE task  \* which of the three

libvars == <<fmtvars, memvars, shellvars, task>>

\* A printf of an empty format, a comparison of empty blocks, an empty line.
FmtIdle ==
  /\ str = <<>> /\ arg = 0 /\ at = 1 /\ pc = "returned"
  /\ x = 0 /\ base = 0 /\ frames = <<>> /\ out = <<>> /\ flushed = TRUE

MemIdle ==
  /\ mem = [c \in Cells |-> 0] /\ before = mem
  /\ op = "memseq" /\ src = 0 /\ dst = 0 /\ size = 0
  /\ pos = 0 /\ result = 1 /\ running = FALSE

ShellIdle ==
  /\ command = [k \in 0 .. MaxLine |-> NUL]
  /\ i = 0 /\ ran = <<>> /\ typed = <<>> /\ entered = <<>>
  /\ overrun = FALSE /\ long = FALSE

LibInit ==
  \/ task = "printf" /\ FmtInit /\ MemIdle /\ ShellIdle
  \/ task = "memory" /\ MemInit /\ FmtIdle /\ ShellIdle
  \/ task = "shell" /\ ShellInit /\ FmtIdle /\ MemIdle

LibNext ==
  /\ \/ task = "printf" /\ FmtNext /\ UNCHANGED <<memvars, shellvars>>
     \/ task = "memory" /\ MemNext /\ UNCHANGED <<fmtvars, shellvars>>
     \/ task = "shell" /\ ShellNext /\ UNCHANGED <<fmtvars, memvars>>
  /\ UNCHANGED task

LibSpec == LibInit /\ [][LibNext]_libvars
============================================================================
