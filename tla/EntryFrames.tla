----------------------------- MODULE EntryFrames -----------------------------
(***************************************************************************)
(* The way into the kernel and back, word by word: what the processor and  *)
(* the stubs of isr.s and irq.s push, what struct regs makes of it,        *)
(* store_registers and switch_context writing into it, and what the        *)
(* return pops.  Module Kernel takes the registers of an interrupted       *)
(* process to be saved and restored; this module shows it.                 *)
(*                                                                         *)
(* A register holds <<p, name, v>>: what process p put there, in one of    *)
(* two versions.  The stack is a sequence, its top first, as a pointer to  *)
(* it sees the memory.  Handlers do not nest (module Interrupts).          *)
(***************************************************************************)
EXTENDS Descriptors, Sequences, SequencesExt

CONSTANTS
  Procs,     \* processes
  Vectors,   \* interrupt numbers that happen
  BootCs     \* what the boot loader may leave in cs: load_gdt reloads the other selectors

\* Addresses have 32 bits, and the stubs are different pieces of code.
ASSUME EntryFramesAssumption ==
  /\ Vectors \subseteq (0 .. 47) \cup {128}
  /\ BootCs \subseteq {8 * n : n \in 1 .. 4}
  /\ "kernel" \notin Procs
  /\ TssEntry \in Nat /\ TssEntry \div 65536 < 65536
  /\ \A n \in Vectors : Stub(n) \in Nat /\ Stub(n) \div 65536 < 65536
  /\ \A n, k \in Vectors : Stub(n) = Stub(k) => n = k

VARIABLES
  regs,    \* the processor's registers
  stack,   \* the stack the kernel runs on
  pc,      \* "run", "stub", "handler", "fault", "return", or "lost": a fault on iret
  vector,  \* the interrupt being served
  cur,     \* the process that runs, "kernel" for kernel_main's last loop
  table,   \* registers in the process table
  last     \* history: registers of each process when it was last interrupted

efvars == <<regs, stack, pc, vector, cur, table, last>>

General == {"edi", "esi", "ebp", "ebx", "edx", "ecx", "eax"}
Stored == General \cup {"eip", "eflags", "useresp"}
Segments == {"ds", "es", "fs", "gs"}
Versions == {0, 1}

\* What process p can have in its registers.
Context(p, v) == [f \in Stored |-> <<p, f, v>>]

\* kernel_main's own words on the stack when it is interrupted.
KernelWords == <<"k1", "k2", "k3">>

-----------------------------------------------------------------------------
(* The way in. *)

\* Exceptions for which an i486 pushes an error code.
ErrorVectors == {8, 17} \cup 10 .. 14

Ring == IF cur = "kernel" THEN 0 ELSE 3

\* Through the gate: from ring 3 the processor takes ss and esp of the TSS, an
\* empty stack, and pushes the process's; then eflags, cs, eip and an error code.
Interrupted(n) ==
  LET outer == IF Ring = 3 THEN <<regs["useresp"], regs["ss"]>> ELSE stack
      code == IF n \in ErrorVectors THEN << <<"cpu", "err", 0>> >> ELSE <<>>
  IN code \o <<regs["eip"], regs["cs"], regs["eflags"]>> \o outer

Interrupt(n) ==
  LET gate == idt_row(n)
  IN /\ pc = "run"
     /\ n < 32 => Ring = 3                          \* kernel_main's loop does not fault
     /\ n = 128 => Ring = 3 /\ GateDpl(gate) = 3
     /\ IsPresent(gate) /\ IsCode(RowOf(gate.sel)) /\ DplOf(RowOf(gate.sel)) = 0
     /\ \E k \in Vectors : OffsetOf(gate) = Stub(k) /\ vector' = k
     /\ stack' = Interrupted(n)
     /\ last' = IF Ring = 3 THEN [last EXCEPT ![cur] = [f \in Stored |-> regs[f]]] ELSE last
     /\ pc' = "stub"
     /\ UNCHANGED <<regs, cur, table>>

\* Mutation: every stub pushes two words.
StubWords_always(n) == <<n, 0>>

\* What a stub pushes itself: for vectors 10 to 14 the processor pushed the code.
StubWords(n) == IF n \in 10 .. 14 THEN <<n>> ELSE <<n, 0>>

Push(names, s) == Reverse([k \in DOMAIN names |-> regs[names[k]]]) \o s

SegmentPushes == <<"ds", "es", "fs", "gs">>

\* The stub, pusha and the segments; esp is pushed by pusha and never used.
EnterKernel ==
  /\ pc = "stub"
  /\ LET pusha == <<"eax", "ecx", "edx", "ebx", "esp", "ebp", "esi", "edi">>
     IN stack' = Push(SegmentPushes, Push(pusha, StubWords(vector) \o stack))
  /\ regs' = [f \in DOMAIN regs |-> IF f \in Segments THEN KERNEL_DATA_SEL ELSE regs[f]]
  /\ pc' = IF vector < 32 THEN "fault" ELSE "handler"
  /\ UNCHANGED <<vector, cur, table, last>>

-----------------------------------------------------------------------------
(* The handler. *)

struct_regs == <<"gs", "fs", "es", "ds", "edi", "esi", "ebp", "esp", "ebx", "edx", "ecx", "eax",
                 "int_no", "err_code", "eip", "cs", "eflags", "useresp", "ss">>

\* Where a field of struct regs is on the stack; r->f.
Slot(f) == CHOOSE k \in DOMAIN struct_regs : struct_regs[k] = f
Field(f) == stack[Slot(f)]

\* Mutation: ebp is not stored.
store_registers_no_ebp == [f \in Stored |-> IF f = "ebp" THEN table[cur][f] ELSE Field(f)]

store_registers == [f \in Stored |-> Field(f)]

\* What switch_context leaves in field f.
SwitchedField(f, new) ==
  CASE f \in Stored               -> new[f]
    [] f \in Segments \cup {"ss"} -> USER_DATA_SEL
    [] f = "cs"                   -> USER_CODE_SEL
    [] OTHER                      -> Field(f)

\* schedule: it stores the registers of a process, not kernel_main's.
schedule ==
  \E p \in Procs :
    /\ table' = IF cur \in Procs THEN [table EXCEPT ![cur] = store_registers] ELSE table
    /\ cur' = p
    /\ stack' = [k \in DOMAIN stack |-> IF k <= Len(struct_regs)
                                        THEN SwitchedField(struct_regs[k], table'[p]) ELSE stack[k]]
    /\ UNCHANGED last

\* lspci and lsproc answer in eax.
Answer ==
  /\ stack' = [stack EXCEPT ![Slot("eax")] = <<cur, "eax", "answer">>]
  /\ last' = [last EXCEPT ![cur]["eax"] = <<cur, "eax", "answer">>]
  /\ UNCHANGED <<cur, table>>

\* The timer and yielding system calls switch, others answer or do nothing.
irq_handler ==
  /\ pc = "handler"
  /\ \/ Field("int_no") \in {32, 128} /\ schedule
     \/ Field("int_no") = 128 /\ Answer
     \/ Field("int_no") # 32 /\ UNCHANGED <<stack, last, cur, table>>
  /\ pc' = "return"
  /\ UNCHANGED <<regs, vector>>

-----------------------------------------------------------------------------
(* The way back: pops, popal, addl $8 and iret, which goes on popping esp and ss *)
(* when it returns to ring 3.                                                    *)

Popped == <<"gs", "fs", "es", "ds", "edi", "esi", "ebp", "skip", "ebx", "edx", "ecx", "eax">>

\* Mutation: without the addl.
FrameStart_no_addl == Len(Popped) + 1

FrameStart == Len(Popped) + 3

Return ==
  LET frame == SubSeq(stack, FrameStart, Len(stack))
      toUser == Rpl(frame[2]) = 3
      popped(f) == CASE \E k \in DOMAIN Popped : Popped[k] = f ->
                          stack[CHOOSE k \in DOMAIN Popped : Popped[k] = f]
                     [] f = "eip"                  -> frame[1]
                     [] f = "cs"                   -> frame[2]
                     [] f = "eflags"               -> frame[3]
                     [] f = "useresp" /\ toUser    -> frame[4]
                     [] f = "ss" /\ toUser         -> frame[5]
                     [] OTHER                      -> regs[f]
  IN /\ pc = "return"
     /\ regs' = [f \in DOMAIN regs |-> popped(f)]
     /\ stack' = SubSeq(frame, IF toUser THEN 6 ELSE 4, Len(frame))
     /\ pc' = IF IsCode(RowOf(frame[2])) THEN "run" ELSE "lost"
     /\ UNCHANGED <<vector, cur, table, last>>

\* A process computes.
Instruction(p) ==
  /\ pc = "run" /\ cur = p
  /\ \E v \in Versions : regs' = [f \in DOMAIN regs |-> IF f \in Stored THEN Context(p, v)[f] ELSE regs[f]]
  /\ UNCHANGED <<stack, pc, vector, cur, table, last>>

EFInit ==
  /\ table = [p \in Procs |-> Context(p, 0)] /\ last = table
  /\ cur = "kernel" /\ stack = KernelWords /\ pc = "run" /\ vector = 32
  /\ \E cs \in BootCs :
       regs = [f \in Stored \cup Segments \cup {"cs", "ss", "esp"} |->
                 IF f \in Stored THEN <<"kernel", f, 0>> ELSE IF f = "cs" THEN cs ELSE KERNEL_DATA_SEL]

EFNext ==
  \/ \E n \in Vectors : Interrupt(n)
  \/ EnterKernel \/ irq_handler \/ Return
  \/ \E p \in Procs : Instruction(p)

EFSpec == EFInit /\ [][EFNext]_efvars

-----------------------------------------------------------------------------
(* Properties. *)

Fits(f) == Field(f) = last[cur][f]

\* A process goes on with the registers it was interrupted with, or starts with its
\* initial ones, except for an answer in eax: the words the processor and the
\* stubs push fit struct regs (asm.h:5-10), and switch_context replaces the right
\* ones, whatever switches and interrupts came between (scheduler.c:25-57).
ResumesAsInterrupted ==
  [][pc = "return" /\ cur \in Procs => \A f \in Stored : regs'[f] = last[cur][f]]_efvars

\* A process runs on flat segments of ring 3, code in cs and data in the others:
\* the selectors 27 and 35 and the rows of init_gdt they name; and the TSS is where
\* its row says, for the stack of the next interrupt (gdt.c:80-121).
ProcessSegments ==
  pc = "run" /\ cur \in Procs =>
    /\ IsCode(RowOf(regs["cs"]))
    /\ \A f \in Segments \cup {"ss"} : IsData(RowOf(regs[f]))
    /\ \A f \in Segments \cup {"ss", "cs"} :
         IsFlat(RowOf(regs[f])) /\ DplOf(RowOf(regs[f])) = 3 /\ Rpl(regs[f]) = 3
    /\ IsTss(gdt[5]) /\ BaseOf(gdt[5]) = TssEntry

\* kernel_main's last loop survives the interrupts before the first switch: its
\* words on the stack, over which switch_context writes the esp and ss of the first
\* process (scheduler.c:48-55), are intact as long as it runs; and iret finds a
\* code segment again unless the boot loader's cs is another than row 1 (gdt.c:48).
LoopResumes ==
  cur = "kernel" =>
    /\ pc = "run" => stack = KernelWords /\ \A f \in Stored : regs[f] = <<"kernel", f, 0>>
    /\ pc = "lost" => regs["cs"] \in BootCs \ {KERNEL_CODE_SEL}

\* What fault_handler and irq_handler read is what was interrupted, for vectors
\* with an error code and without (isr.s:34-219), but for two: isr8 and isr17 push
\* a second code, every field behind it is one word off, and the EIP that a report
\* of theirs names (kernel.c:86) is the processor's code.
FrameFits ==
  pc \in {"handler", "fault"} /\ cur \in Procs /\ vector \notin {8, 17} =>
    Field("int_no") = vector /\ Fits("eip") /\ \A f \in Stored : Fits(f)
=============================================================================
