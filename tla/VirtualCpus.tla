---------------------------- MODULE VirtualCpus ----------------------------
(***************************************************************************)
(* What multitasking promises the programs that run on RAZZLE: every live  *)
(* process has a processor of its own.  Its registers change only by its   *)
(* own instructions, by the count its lspci or lsproc is answered with and *)
(* by the one character a getc delivers; a process that called getc stays  *)
(* stopped until a character is typed, and one character releases every    *)
(* process that waits for one.  There is no scheduler, timer or process    *)
(* table here; module Kernel implements this specification with one        *)
(* processor that is switched between processes.                           *)
(***************************************************************************)
EXTENDS Integers, FiniteSets

CONSTANTS
  Pids,      \* slots a process can live in
  Code,      \* entry points and other values of the copied registers
  Chars,     \* characters that can be typed
  NoRegs,    \* the registers of a slot that holds no process
  Instructions,  \* <<registers before, registers after>> of an instruction
  Devices    \* how many devices lspci can list

VARIABLES
  vstate,    \* [Pids -> "unused" | "ready" | "blocked"]
  vregs      \* the register file of each process's own processor

vvars == <<vstate, vregs>>

GetcNumber == 1
ExitNumber == 2
LspciNumber == 3
LsprocNumber == 4

VInit ==
  /\ vstate = [p \in Pids |-> "unused"]
  /\ vregs = [p \in Pids |-> NoRegs]

\* A process comes into being with cleared registers at its entry point.
Launch(p, entry) ==
  /\ vstate[p] = "unused"
  /\ vstate' = [vstate EXCEPT ![p] = "ready"]
  /\ vregs' = [vregs EXCEPT ![p] = [eax |-> 0, ecx |-> 0, eip |-> entry]]

\* p executes one of its instructions.
Execute(p) ==
  /\ vstate[p] = "ready"
  /\ \E i \in Instructions : vregs[p] = i[1] /\ vregs' = [vregs EXCEPT ![p] = i[2]]
  /\ UNCHANGED vstate

\* The length p asks for, or all there are if there are fewer.
AtMost(p, available) == IF vregs[p].ecx < available THEN vregs[p].ecx ELSE available

\* p asks for a list and finds the number of its entries in eax.
List(p) ==
  /\ vstate[p] = "ready"
  /\ \/ /\ vregs[p].eax = LspciNumber
        /\ vregs' = [vregs EXCEPT ![p].eax = AtMost(p, Devices)]
     \/ /\ vregs[p].eax = LsprocNumber
        /\ vregs' = [vregs EXCEPT ![p].eax =
                       AtMost(p, Cardinality({q \in Pids : vstate[q] # "unused"}))]
  /\ UNCHANGED vstate

\* p asks for a character and stops.
Wait(p) ==
  /\ vstate[p] = "ready"
  /\ vregs[p].eax = GetcNumber
  /\ vstate' = [vstate EXCEPT ![p] = "blocked"]
  /\ UNCHANGED vregs

\* A character arrives: everyone who waits receives it, nobody else notices.
Deliver(c) ==
  /\ \E p \in Pids : vstate[p] = "blocked"
  /\ vstate' = [p \in Pids |-> IF vstate[p] = "blocked" THEN "ready" ELSE vstate[p]]
  /\ vregs' = [p \in Pids |-> IF vstate[p] = "blocked"
                                THEN [vregs[p] EXCEPT !.eax = c]
                                ELSE vregs[p]]

\* p ends.
Leave(p) ==
  /\ vstate[p] = "ready"
  /\ vregs[p].eax = ExitNumber
  /\ vstate' = [vstate EXCEPT ![p] = "unused"]
  /\ vregs' = [vregs EXCEPT ![p] = NoRegs]

VNext ==
  \/ \E p \in Pids, entry \in Code : Launch(p, entry)
  \/ \E p \in Pids : Execute(p) \/ List(p) \/ Wait(p) \/ Leave(p)
  \/ \E c \in Chars : Deliver(c)

VSpec == VInit /\ [][VNext]_vvars
=============================================================================
