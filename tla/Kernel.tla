------------------------------- MODULE Kernel -------------------------------
(***************************************************************************)
(* The process side of the kernel: kernel_main's start-up, the process     *)
(* table and the round-robin scheduler, the system calls, and the keyboard *)
(* and serial interrupts that end a getc.                                  *)
(*                                                                         *)
(* Every gate of the IDT is an interrupt gate and every stub begins with   *)
(* cli (irq.s), so a handler runs from trap to iret with no other handler  *)
(* in between: one action is one handler.  Between handlers the running    *)
(* program executes instructions (action Instruction).                     *)
(*                                                                         *)
(* process_table is kept as three functions of the slot: task_state (the   *)
(* field state), registers, and task (the descriptive fields).  A struct   *)
(* regs is [eax, ecx, eip]: eax carries the system call number and the     *)
(* result, both read as signed, ecx the length argument, and eip stands    *)
(* for itself and for all the other registers, which the scheduler only    *)
(* copies.                                                                 *)
(***************************************************************************)
EXTENDS Integers, Sequences, FiniteSets

CONSTANTS
  MAX_PROCESSES,       \* slots of process_table (128) and of ps2_waiters
  BOOT_PID,            \* current_pid before the first switch (129)
  ADDRESS_SPACE_SIZE,  \* bytes of memory of a process (1000000)
  Code,                \* values of eip, the null address 0 among them
  Programs,            \* entry points kernel_main starts, in order
  Background,          \* programs that never invoke getc or exit (test_razzle)
  Instructions,        \* <<registers before, registers after>> of an instruction
  KeyChars,            \* what keycode_to_char yields, 0 for no character
  SerialBytes,         \* bytes received on COM1
  PciDevicesCount      \* pci_devices_count after enumeration

Pids == 0 .. MAX_PROCESSES - 1

Regs == [eax : Int, ecx : Nat, eip : Code]

ASSUME KernelAssumption ==
  /\ MAX_PROCESSES \in Nat \ {0}
  /\ BOOT_PID \in Nat /\ BOOT_PID >= MAX_PROCESSES
  /\ ADDRESS_SPACE_SIZE \in Nat
  /\ Code \subseteq Nat /\ 0 \in Code
  /\ Programs \in Seq(Code) /\ Len(Programs) <= MAX_PROCESSES
  /\ Instructions \subseteq Regs \X Regs
  /\ KeyChars \subseteq Nat
  /\ SerialBytes \subseteq 0 .. 255
  /\ PciDevicesCount \in Nat

VARIABLES
  mode,          \* where the processor is: see Modes
  started,       \* start_process calls kernel_main has made
  task_state,    \* process_table[p].state
  registers,     \* process_table[p].registers
  task,          \* process_table[p].pid, address_base, allocd_addr, process_name
  current_pid,
  ps2_waiters,   \* [alloc, pid] records
  cpu            \* the machine registers; in a handler, the trap frame r

tablevars == <<task_state, registers, task>>
vars == <<mode, started, task_state, registers, task, current_pid, ps2_waiters, cpu>>

TASKSTATE_unused  == "unused"
TASKSTATE_ready   == "ready"
TASKSTATE_blocked == "blocked"
TaskStates == {TASKSTATE_unused, TASKSTATE_ready, TASKSTATE_blocked}

SYSCALL_yield    == 0
SYSCALL_getc     == 1
SYSCALL_exit     == 2
SYSCALL_lspci    == 3
SYSCALL_lsproc   == 4
SYSCALL_powerctl == 5

(***************************************************************************)
(* "init_process_table", "init_ps2" and "start_process" are steps of       *)
(* kernel_main with interrupts off; "idle" is its final loop, interrupts   *)
(* on; "user" is a process in ring 3; "spin" is the search of get_next_pid *)
(* that finds nothing, with interrupts off; "panic" is the loop that ends  *)
(* fault_handler; "off" is a machine powerctl switched off.                *)
(***************************************************************************)
Modes == {"init_process_table", "init_ps2", "start_process",
          "idle", "user", "spin", "panic", "off"}

InterruptsEnabled == mode \in {"idle", "user"}

-----------------------------------------------------------------------------
(* The scheduler. *)

\* Mutation: the search always begins at slot 0.
get_next_pid_from_0(st, start, state) ==
  CHOOSE p \in Pids : st[p] = state /\ \A q \in 0 .. p - 1 : st[q] # state

\* get_next_pid: the first slot in the given state, searching upwards from
\* start and around the end of the table.  Only meaningful when there is one;
\* otherwise the loop does not end.
get_next_pid(st, start, state) ==
  LET i == start % MAX_PROCESSES
      k == CHOOSE n \in Pids :
             /\ st[(i + n) % MAX_PROCESSES] = state
             /\ \A m \in 0 .. n - 1 : st[(i + m) % MAX_PROCESSES] # state
  IN  (i + k) % MAX_PROCESSES

initialize_registers(entrypoint) == [eax |-> 0, ecx |-> 0, eip |-> entrypoint]

\* Mutation: the interrupted registers are not stored.
NothingStored == registers

\* process_table after store_registers(current_pid, r).  As in C, an index behind
\* the table is written all the same.
store_registers ==
  [p \in Pids \cup {current_pid} |-> IF p = current_pid THEN cpu ELSE registers[p]]

\* Mutation: schedule stores whatever current_pid is.
StoredAnywhere == store_registers

\* The condition under which schedule stores.
StoredRegisters == IF current_pid < MAX_PROCESSES THEN store_registers ELSE registers

\* Mutation: the search gives up before it is back at the current slot.
schedule_others(st) ==
  /\ task_state' = st
  /\ registers' = StoredRegisters
  /\ IF \E p \in Pids \ {current_pid} : st[p] = TASKSTATE_ready
     THEN /\ current_pid' = get_next_pid(st, (current_pid + 1) % MAX_PROCESSES,
                                         TASKSTATE_ready)
          /\ cpu' = StoredRegisters[current_pid']
          /\ mode' = "user"
     ELSE /\ mode' = "spin"
          /\ UNCHANGED <<current_pid, cpu>>

\* schedule(r), called with process_table[..].state = st.
schedule(st) ==
  /\ task_state' = st
  /\ registers' = StoredRegisters
  /\ IF \E p \in Pids : st[p] = TASKSTATE_ready
     THEN /\ current_pid' = get_next_pid(st, (current_pid + 1) % MAX_PROCESSES,
                                         TASKSTATE_ready)
          /\ cpu' = StoredRegisters[current_pid']
          /\ mode' = "user"
     ELSE /\ mode' = "spin"
          /\ UNCHANGED <<current_pid, cpu>>

-----------------------------------------------------------------------------
(* kernel_main, from init_process_table to interrupt_enable. *)

init_process_table ==
  /\ mode = "init_process_table"
  /\ task_state' = [p \in Pids |-> TASKSTATE_unused]
  /\ current_pid' = BOOT_PID
  /\ mode' = "init_ps2"
  /\ UNCHANGED <<started, registers, task, ps2_waiters, cpu>>

init_ps2 ==
  /\ mode = "init_ps2"
  /\ ps2_waiters' = [i \in Pids |-> [ps2_waiters[i] EXCEPT !.alloc = 0]]
  /\ mode' = "start_process"
  /\ UNCHANGED <<started, task_state, registers, task, current_pid, cpu>>

\* The descriptive fields start_process fills in, balloc_pid(16, pid) included.
NewTask(p, program) ==
  [pid          |-> p,
   address_base |-> ADDRESS_SPACE_SIZE * (p + 6),
   allocd_addr  |-> ADDRESS_SPACE_SIZE * (p + 6) + 16,
   process_name |-> program]

start_process ==
  /\ mode = "start_process" /\ started < Len(Programs)
  /\ LET program == Programs[started + 1]
         pid     == get_next_pid(task_state, 0, TASKSTATE_unused)
     IN  IF \E p \in Pids : task_state[p] = TASKSTATE_unused
         THEN /\ task_state' = [task_state EXCEPT ![pid] = TASKSTATE_ready]
              /\ task' = [task EXCEPT ![pid] = NewTask(pid, program)]
              /\ registers' = [registers EXCEPT ![pid] = initialize_registers(program)]
              /\ started' = started + 1
              /\ UNCHANGED mode
         ELSE /\ mode' = "spin"
              /\ UNCHANGED <<tablevars, started>>
  /\ UNCHANGED <<current_pid, ps2_waiters, cpu>>

interrupt_enable ==
  /\ mode = "start_process" /\ started = Len(Programs)
  /\ mode' = "idle"
  /\ UNCHANGED <<started, tablevars, current_pid, ps2_waiters, cpu>>

-----------------------------------------------------------------------------
(* The running program. *)

\* An instruction of the running process that traps nowhere.
Instruction ==
  /\ mode = "user"
  /\ \E i \in Instructions : cpu = i[1] /\ cpu' = i[2]
  /\ UNCHANGED <<mode, started, tablevars, current_pid, ps2_waiters>>

\* An instruction that faults: fault_handler reports and loops for good.
fault_handler ==
  /\ mode = "user"
  /\ mode' = "panic"
  /\ UNCHANGED <<started, tablevars, current_pid, ps2_waiters, cpu>>

-----------------------------------------------------------------------------
(* System calls: int 0x80 with the number in eax.  Any other number changes *)
(* nothing.                                                                 *)

\* The program the running process executes lets it invoke call n.
Invokes(n) ==
  /\ mode = "user"
  /\ cpu.eax = n
  /\ task[current_pid].process_name \in Background => n \notin {SYSCALL_getc, SYSCALL_exit}

syscall_yield ==
  /\ Invokes(SYSCALL_yield)
  /\ schedule(task_state)
  /\ UNCHANGED <<started, task, ps2_waiters>>

\* The slots of ps2_waiters the loop of getc would take.
FreeWaiters == {i \in Pids : ps2_waiters[i].alloc = 0}

\* Mutation: getc takes the first waiter, allocated or not.
FirstWaiter == 0

FirstFreeWaiter == CHOOSE i \in FreeWaiters : \A j \in FreeWaiters : i <= j

syscall_getc ==
  /\ Invokes(SYSCALL_getc)
  /\ ps2_waiters' = IF FreeWaiters = {}
                    THEN ps2_waiters
                    ELSE [ps2_waiters EXCEPT ![FirstFreeWaiter] =
                            [alloc |-> 1, pid |-> current_pid]]
  /\ schedule([task_state EXCEPT ![current_pid] = TASKSTATE_blocked])
  /\ UNCHANGED <<started, task>>

\* Mutation: exit returns to its caller.
syscall_exit_returning ==
  /\ Invokes(SYSCALL_exit)
  /\ task_state' = [task_state EXCEPT ![current_pid] = TASKSTATE_unused]
  /\ UNCHANGED <<mode, started, registers, task, current_pid, ps2_waiters, cpu>>

syscall_exit ==
  /\ Invokes(SYSCALL_exit)
  /\ schedule([task_state EXCEPT ![current_pid] = TASKSTATE_unused])
  /\ UNCHANGED <<started, task, ps2_waiters>>

\* lspci and lsproc fill the caller's buffer and answer with the number of
\* entries written: at most ecx, and at most as many as there are.
Written(available) == IF cpu.ecx < available THEN cpu.ecx ELSE available

LiveProcesses == {p \in Pids : task_state[p] # TASKSTATE_unused}

syscall_lspci ==
  /\ Invokes(SYSCALL_lspci)
  /\ cpu' = [cpu EXCEPT !.eax = Written(PciDevicesCount)]
  /\ UNCHANGED <<mode, started, tablevars, current_pid, ps2_waiters>>

syscall_lsproc ==
  /\ Invokes(SYSCALL_lsproc)
  /\ cpu' = [cpu EXCEPT !.eax = Written(Cardinality(LiveProcesses))]
  /\ UNCHANGED <<mode, started, tablevars, current_pid, ps2_waiters>>

\* powerctl writes the power ports of several hypervisors; on a machine that
\* has none of them the call returns.
syscall_powerctl ==
  /\ Invokes(SYSCALL_powerctl)
  /\ mode' \in {"user", "off"}
  /\ UNCHANGED <<started, tablevars, current_pid, ps2_waiters, cpu>>

-----------------------------------------------------------------------------
(* Hardware interrupts. *)

\* Timer.  From the idle loop the interrupted registers are kernel_main's own;
\* they are not stored and kernel_main never runs again.
irq_pit ==
  /\ InterruptsEnabled
  /\ schedule(task_state)
  /\ UNCHANGED <<started, task, ps2_waiters>>

\* The processes an allocated waiter names.
WaitingPids == {ps2_waiters[i].pid : i \in {j \in Pids : ps2_waiters[j].alloc # 0}}

handle_keypress_char(c) ==
  IF c = 0
  THEN UNCHANGED <<task_state, registers, ps2_waiters>>
  ELSE /\ registers' = [p \in Pids |-> IF p \in WaitingPids
                                         THEN [registers[p] EXCEPT !.eax = c]
                                         ELSE registers[p]]
       /\ task_state' = [p \in Pids |-> IF p \in WaitingPids
                                          THEN TASKSTATE_ready ELSE task_state[p]]
       /\ ps2_waiters' = [i \in Pids |-> [ps2_waiters[i] EXCEPT !.alloc = 0]]

irq_ps2 ==
  /\ InterruptsEnabled
  /\ \E c \in KeyChars : handle_keypress_char(c)
  /\ UNCHANGED <<mode, started, task, current_pid, cpu>>

\* Carriage return becomes newline and DEL becomes backspace; char is signed,
\* so a byte above 127 reaches eax with its sign extended.
SerialChar(b) == CASE b = 13  -> 10
                   [] b = 127 -> 8
                   [] b > 127 -> b - 256
                   [] OTHER   -> b

irq_com1 ==
  /\ InterruptsEnabled
  /\ \E b \in SerialBytes : handle_keypress_char(SerialChar(b))
  /\ UNCHANGED <<mode, started, task, current_pid, cpu>>

-----------------------------------------------------------------------------
\* The state the loader leaves: .bss is zero (TASKSTATE_unused is 0).
Init ==
  /\ mode = "init_process_table"
  /\ started = 0
  /\ task_state = [p \in Pids |-> TASKSTATE_unused]
  /\ registers = [p \in Pids |-> initialize_registers(0)]
  /\ task = [p \in Pids |-> [pid |-> 0, address_base |-> 0, allocd_addr |-> 0,
                             process_name |-> 0]]
  /\ current_pid = 0
  /\ ps2_waiters = [i \in Pids |-> [alloc |-> 0, pid |-> 0]]
  /\ cpu = initialize_registers(0)

Next ==
  \/ init_process_table \/ init_ps2 \/ start_process \/ interrupt_enable
  \/ Instruction \/ fault_handler
  \/ syscall_yield \/ syscall_getc \/ syscall_exit
  \/ syscall_lspci \/ syscall_lsproc \/ syscall_powerctl
  \/ irq_pit \/ irq_ps2 \/ irq_com1

Spec == Init /\ [][Next]_vars

(***************************************************************************)
(* Fairness.  The PIT keeps ticking for as long as interrupts are enabled: *)
(* every handler but one that spins or panics sends the EOI and returns.   *)
(* Nothing is assumed of the programs or of whoever types.                 *)
(***************************************************************************)
FairSpec == Spec /\ WF_vars(irq_pit)

-----------------------------------------------------------------------------
(* Properties. *)

\* The type invariant.  registers keeps the domain Pids: schedule never stores
\* behind process_table, though current_pid is 129 until the first switch.
TypeOK ==
  /\ mode \in Modes
  /\ started \in 0 .. Len(Programs)
  /\ task_state \in [Pids -> TaskStates]
  /\ registers \in [Pids -> Regs]
  /\ task \in [Pids -> [pid : Pids, address_base : Nat, allocd_addr : Nat,
                        process_name : Code]]
  /\ current_pid \in Pids \cup {BOOT_PID}
  /\ ps2_waiters \in [Pids -> [alloc : {0, 1}, pid : Pids]]
  /\ cpu \in Regs

Booting == mode \in {"init_process_table", "init_ps2", "start_process"}

Allocated(i) == ps2_waiters[i].alloc # 0

\* No lost wake-up: a process is blocked exactly when one, and only one,
\* allocated entry of ps2_waiters names it.  getc takes no entry when it finds
\* none free (syscall.c:97-103); the process would then be blocked for ever.
BlockedHasWaiter ==
  /\ \A p \in Pids : task_state[p] = TASKSTATE_blocked <=>
                       \E i \in Pids : Allocated(i) /\ ps2_waiters[i].pid = p
  /\ \A i, j \in Pids : /\ Allocated(i) /\ Allocated(j)
                        /\ ps2_waiters[i].pid = ps2_waiters[j].pid
                        => i = j

\* Whoever executes in ring 3 is a ready process of the table: exit and getc
\* never return to their caller, and a wake-up never hits the running process.
RunningIsReady ==
  /\ mode = "user" => current_pid \in Pids /\ task_state[current_pid] = TASKSTATE_ready
  /\ mode = "idle" => current_pid = BOOT_PID

\* While a started program neither waits for input nor ends, as test_razzle
\* does not, the kernel never stops in get_next_pid.
BackgroundPreventsSpin ==
  (\E k \in 1 .. Len(Programs) : Programs[k] \in Background) => mode # "spin"

\* Starvation freedom: a ready process gets the processor, unless the machine
\* stops.
ReadyRuns ==
  \A p \in Pids :
    (task_state[p] = TASKSTATE_ready /\ InterruptsEnabled)
      ~> ((mode = "user" /\ current_pid = p) \/ ~InterruptsEnabled)

-----------------------------------------------------------------------------
(***************************************************************************)
(* The refinement.  The registers of the current process are in the        *)
(* processor, those of every other live process in the table.              *)
(***************************************************************************)
TypedChars == {c \in KeyChars \cup {SerialChar(b) : b \in SerialBytes} : c # 0}

OwnRegisters == [p \in Pids |->
  IF task_state[p] = TASKSTATE_unused THEN initialize_registers(0)
  ELSE IF p = current_pid THEN cpu
  ELSE registers[p]]

VirtualCpu == INSTANCE VirtualCpus WITH
  vstate <- task_state, vregs <- OwnRegisters,
  Chars <- TypedChars, NoRegs <- initialize_registers(0), Devices <- PciDevicesCount

\* Time sharing is invisible: switching, preemption and wake-ups give every
\* process the registers it would have on a processor of its own.  A switch is
\* a step of nobody's processor, so it leaves the registers of all of them
\* (scheduler.c:72-80) as they are.
ImplementsVirtualCpus == VirtualCpu!VSpec
=============================================================================
