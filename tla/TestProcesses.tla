--------------------------- MODULE TestProcesses ---------------------------
(***************************************************************************)
(* The two programs kernel_main starts, test_razzle and the shell          *)
(* test_dazzle, running on module Kernel with the spin locks they share.   *)
(* eip is the program counter; trap[p] says that p has loaded eax and is   *)
(* at its int $0x80, eip being the address it returns to.  A program can   *)
(* be preempted between any two steps, inside its critical sections too.   *)
(***************************************************************************)
EXTENDS Kernel

CONSTANTS
  WORD,       \* values of a uint32_t (2^32)
  LINE_MAX    \* the longest line anybody types, below command[2048]

(***************************************************************************)
(* Program counters.  A call of printf has two: PRINT(k) acquires lock and *)
(* prints, PRINT(k) + 1 releases it and continues at AfterPrint(k).        *)
(***************************************************************************)
RAZZLE == 1           \* sl_acquire(&lock2)
RZ_CLEAR == 2         \* counter = 0
RZ_RELEASE_1 == 3
RZ_ACQUIRE == 4
RZ_COUNT == 5         \* counter++
RZ_RELEASE == 6
RZ_YIELD == 7

DAZZLE == 20          \* printf of the first prompt
DZ_GETC == 8
DZ_ACQUIRE == 9
DZ_SWITCH == 10       \* switch (c)
DZ_COMMAND == 11      \* the comparisons with the command names
DZ_LSPCI == 12        \* after lspci
DZ_LSPROC == 13       \* after lsproc
DZ_OUTPUT == 14       \* ecx more calls of printf
DZ_RELEASE == 15
DZ_YIELD == 16
DZ_ECHO == 22
DZ_NEWLINE == 24
DZ_LINE == 26
DZ_PROMPT == 28

Prints == {DAZZLE, DZ_ECHO, DZ_NEWLINE, DZ_LINE, DZ_PROMPT}

AfterPrint(l) == CASE l = DAZZLE     -> DZ_GETC
                   [] l = DZ_ECHO    -> DZ_RELEASE
                   [] l = DZ_NEWLINE -> DZ_COMMAND
                   [] l = DZ_LINE    -> DZ_OUTPUT
                   [] l = DZ_PROMPT  -> DZ_RELEASE

Labels == (RAZZLE .. DZ_YIELD) \cup Prints \cup {l + 1 : l \in Prints}

ASSUME TestProcessesAssumption ==
  /\ Programs = <<RAZZLE, DAZZLE>> /\ Background = {RAZZLE}
  /\ Labels \subseteq Code
  /\ WORD \in Nat \ {0}
  /\ LINE_MAX \in Nat

VARIABLES
  locks,      \* lock of printf and lock2 of the programs
  counter,    \* the counter test_razzle maintains
  line,       \* i of test_dazzle, the characters in command
  trap,       \* [Pids -> BOOLEAN], see above
  ran         \* the running process has executed since it was dispatched

uservars == <<locks, counter, line, trap, ran>>
tpvars == <<vars, uservars>>
kernelvars == <<mode, started, tablevars, current_pid, ps2_waiters>>

-----------------------------------------------------------------------------
(* Instructions. *)

At(l) == mode = "user" /\ cpu.eip = l /\ ~trap[current_pid]

Goto(l) == cpu' = [cpu EXCEPT !.eip = l]

\* Mutation: bts without the jc that looks at the bit.
sl_acquire_blindly(k, next) == locks' = [locks EXCEPT ![k] = 1] /\ Goto(next)

\* One round of retry_lock: bts, and jc back when the bit was set.
sl_acquire(k, next) ==
  IF locks[k] = 0
  THEN locks' = [locks EXCEPT ![k] = 1] /\ Goto(next)
  ELSE UNCHANGED <<locks, cpu>>

sl_release(k, next) == locks' = [locks EXCEPT ![k] = 0] /\ Goto(next)

\* INVOKE_SYSCALL up to its int: number n, argument in ecx, return to next.
Load(n, ecx, next) ==
  /\ cpu' = [eax |-> n, ecx |-> ecx, eip |-> next]
  /\ trap' = [trap EXCEPT ![current_pid] = TRUE]

-----------------------------------------------------------------------------
(* test_razzle. *)

test_razzle ==
  \/ /\ At(RAZZLE) /\ sl_acquire("lock2", RZ_CLEAR)
     /\ UNCHANGED <<counter, line, trap>>
  \/ /\ At(RZ_CLEAR) /\ counter' = 0 /\ Goto(RZ_RELEASE_1)
     /\ UNCHANGED <<locks, line, trap>>
  \/ /\ At(RZ_RELEASE_1) /\ sl_release("lock2", RZ_ACQUIRE)
     /\ UNCHANGED <<counter, line, trap>>
  \/ /\ At(RZ_ACQUIRE) /\ sl_acquire("lock2", RZ_COUNT)
     /\ UNCHANGED <<counter, line, trap>>
  \/ /\ At(RZ_COUNT) /\ counter' = (counter + 1) % WORD /\ Goto(RZ_RELEASE)
     /\ UNCHANGED <<locks, line, trap>>
  \/ /\ At(RZ_RELEASE) /\ sl_release("lock2", RZ_YIELD)
     /\ UNCHANGED <<counter, line, trap>>
  \/ /\ At(RZ_YIELD) /\ Load(SYSCALL_yield, cpu.ecx, RZ_ACQUIRE)
     /\ UNCHANGED <<locks, counter, line>>

-----------------------------------------------------------------------------
(* test_dazzle. *)

\* A call of printf: acquire lock and print, then release it.
printf ==
  \E l \in Prints :
    /\ \/ At(l) /\ sl_acquire("lock", l + 1)
       \/ At(l + 1) /\ sl_release("lock", AfterPrint(l))
    /\ UNCHANGED <<counter, line, trap>>

BACKSPACE == 8
NEWLINE == 10

\* Mutation: a backspace on an empty line leaves without sl_release.
DazzleSwitchReturning ==
  /\ At(DZ_SWITCH)
  /\ CASE cpu.eax = BACKSPACE /\ line = 0 -> Goto(DZ_YIELD) /\ UNCHANGED line
       [] cpu.eax = BACKSPACE /\ line > 0 -> Goto(DZ_ECHO) /\ line' = line - 1
       [] cpu.eax = NEWLINE -> Goto(DZ_NEWLINE) /\ line' = 0
       [] OTHER -> Goto(DZ_ECHO) /\ line' = line + 1
  /\ UNCHANGED <<locks, counter, trap>>

\* switch (c), c being what getc left in eax.  line is the shell's own, so its
\* update is taken together with the choice.
DazzleSwitch ==
  /\ At(DZ_SWITCH)
  /\ CASE cpu.eax = BACKSPACE /\ line = 0 -> Goto(DZ_RELEASE) /\ UNCHANGED line
       [] cpu.eax = BACKSPACE /\ line > 0 -> Goto(DZ_ECHO) /\ line' = line - 1
       [] cpu.eax = NEWLINE -> Goto(DZ_NEWLINE) /\ line' = 0
       [] OTHER -> Goto(DZ_ECHO) /\ line' = line + 1
  /\ UNCHANGED <<locks, counter, trap>>

\* The command the line names: lspci, lsproc and shutdown invoke the kernel,
\* help prints eight lines and the others one.
DazzleCommand ==
  /\ At(DZ_COMMAND)
  /\ \/ Load(SYSCALL_lspci, 7, DZ_LSPCI)
     \/ Load(SYSCALL_lsproc, 7, DZ_LSPROC)
     \/ Load(SYSCALL_powerctl, 1, DZ_OUTPUT)
     \/ /\ \E n \in {1, 8} : cpu' = [cpu EXCEPT !.ecx = n, !.eip = DZ_OUTPUT]
        /\ UNCHANGED trap
  /\ UNCHANGED <<locks, counter, line>>

\* sh_lspci prints four times per device and sh_lsproc three times per process.
DazzleListing ==
  /\ \/ At(DZ_LSPCI) /\ cpu' = [cpu EXCEPT !.ecx = 4 * cpu.eax, !.eip = DZ_OUTPUT]
     \/ At(DZ_LSPROC) /\ cpu' = [cpu EXCEPT !.ecx = 3 * cpu.eax, !.eip = DZ_OUTPUT]
  /\ UNCHANGED <<locks, counter, line, trap>>

DazzleOutput ==
  /\ At(DZ_OUTPUT)
  /\ IF cpu.ecx = 0 THEN Goto(DZ_PROMPT)
     ELSE cpu' = [cpu EXCEPT !.ecx = cpu.ecx - 1, !.eip = DZ_LINE]
  /\ UNCHANGED <<locks, counter, line, trap>>

test_dazzle ==
  \/ printf
  \/ /\ At(DZ_GETC) /\ Load(SYSCALL_getc, cpu.ecx, DZ_ACQUIRE)
     /\ UNCHANGED <<locks, counter, line>>
  \/ /\ At(DZ_ACQUIRE) /\ sl_acquire("lock2", DZ_SWITCH)
     /\ UNCHANGED <<counter, line, trap>>
  \/ DazzleSwitch
  \/ DazzleCommand
  \/ DazzleListing
  \/ DazzleOutput
  \/ /\ At(DZ_RELEASE) /\ sl_release("lock2", DZ_YIELD)
     /\ UNCHANGED <<counter, line, trap>>
  \/ /\ At(DZ_YIELD) /\ Load(SYSCALL_yield, cpu.ecx, DZ_GETC)
     /\ UNCHANGED <<locks, counter, line>>

-----------------------------------------------------------------------------
(* The system. *)

Execute == (test_razzle \/ test_dazzle) /\ ran' = TRUE /\ UNCHANGED kernelvars

\* The int $0x80 of the running process.
Syscall ==
  /\ mode = "user" /\ trap[current_pid]
  /\ trap' = [trap EXCEPT ![current_pid] = FALSE]
  /\ \/ (syscall_yield \/ syscall_getc) /\ ran' = FALSE
     \/ (syscall_lspci \/ syscall_lsproc \/ syscall_powerctl) /\ ran' = TRUE
  /\ UNCHANGED <<locks, counter, line>>

\* The timer's period is long enough for a dispatched process to execute.
Tick ==
  /\ mode = "user" => ran
  /\ irq_pit
  /\ ran' = FALSE
  /\ UNCHANGED <<locks, counter, line, trap>>

\* Nobody types into a full line.
Type ==
  /\ \/ irq_ps2
     \/ irq_com1
  /\ line < LINE_MAX \/ \A p \in Pids : registers'[p].eax \in
                          {registers[p].eax, BACKSPACE, NEWLINE}
  /\ UNCHANGED uservars

Boot ==
  /\ init_process_table \/ init_ps2 \/ start_process \/ interrupt_enable
  /\ UNCHANGED uservars

TPInit ==
  /\ Init
  /\ locks = [k \in {"lock", "lock2"} |-> 0]
  /\ counter = 0
  /\ line = 0
  /\ trap = [p \in Pids |-> FALSE]
  /\ ran = FALSE

TPNext == Boot \/ Execute \/ Syscall \/ Tick \/ Type

TPSpec == TPInit /\ [][TPNext]_tpvars

-----------------------------------------------------------------------------
(* Properties. *)

\* The register file of slot p.
FileOf(p) == IF p = current_pid THEN cpu ELSE registers[p]

\* The counters between the acquisition and the release of each lock.
Inside(k) ==
  IF k = "lock" THEN {l + 1 : l \in Prints}
  ELSE {RZ_CLEAR, RZ_RELEASE_1, RZ_COUNT, RZ_RELEASE} \cup (DZ_SWITCH .. DZ_RELEASE)
         \cup {l + n : l \in Prints \ {DAZZLE}, n \in {0, 1}}

\* Mutual exclusion, and no lock is left behind: a lock is taken exactly while
\* one process, running or preempted, is inside its critical section.
LocksHeld ==
  \A k \in {"lock", "lock2"} :
    LET holders == {p \in Pids : task_state[p] # TASKSTATE_unused /\ FileOf(p).eip \in Inside(k)}
    IN  Cardinality(holders) = locks[k]

\* Whatever preempts it and wherever, the shell finishes what it does and waits
\* for the next key, unless powerctl switches the machine off
\* or a program faults.
ShellReturns ==
  \A p \in Pids :
    (task_state[p] = TASKSTATE_ready /\ task[p].process_name = DAZZLE)
      ~> (task_state[p] = TASKSTATE_blocked \/ mode \in {"off", "panic"})

\* The counter keeps counting, shell or no shell, until the machine stops.
CounterCounts ==
  \A v \in 0 .. WORD - 1 : []<>(counter = v \/ mode \in {"off", "panic"})
=============================================================================
