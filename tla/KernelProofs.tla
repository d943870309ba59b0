---------------------------- MODULE KernelProofs ----------------------------
(***************************************************************************)
(* Proofs about modules Kernel and RoundRobin, for a process table of any  *)
(* size, any list of programs and any program behaviour, and about the     *)
(* real programs and fault_handler on them (TestProcesses and Panic):      *)
(* mutual exclusion under preemption, and what a panic prints.  TPInv adds *)
(* to the invariant of the kernel what a process can have in its registers *)
(* at each label, which shows that its registers keep their types;         *)
(* ReportInv says how far the report has come.                             *)
(***************************************************************************)
EXTENDS RoundRobin, Panic, TLAPS, FiniteSetTheorems, SequenceTheorems

-----------------------------------------------------------------------------
(* Arithmetic and least elements. *)

\* Every non-empty set of naturals has a least element (what a loop that
\* counts upwards finds).
LEMMA LeastElement ==
  ASSUME NEW T \in SUBSET Nat, T # {}
  PROVE  \E x \in T : \A y \in T : x <= y
<1>1. \E x \in T : \A y \in T : ~ (<<y, x>> \in OpToRel(<, Nat))
  BY WFMin, NatLessThanWellFounded, Zenon
<1>2. PICK x \in T : \A y \in T : ~ (<<y, x>> \in OpToRel(<, Nat))
  BY <1>1, Zenon
<1>3. \A y \in T : ~ (y < x)
  BY <1>2, Zenon DEF OpToRel
<1>4. QED
  BY <1>3

\* The size of the table.
LEMMA TableSize == MAX_PROCESSES \in Nat \ {0}
  BY KernelAssumption

\* The slot the scan of get_next_pid looks at in its n-th iteration.
LEMMA WrapAround ==
  ASSUME NEW i \in Pids, NEW n \in Pids
  PROVE  (i + n) % MAX_PROCESSES =
           IF i + n < MAX_PROCESSES THEN i + n ELSE i + n - MAX_PROCESSES
  BY TableSize DEF Pids

\* Where the scan starts.
LEMMA StartInTable ==
  ASSUME NEW start \in Nat
  PROVE  start % MAX_PROCESSES \in Pids
  BY TableSize DEF Pids

\* The scan from start finds the state in its k-th iteration, not earlier.
FoundAt(st, start, state, k) ==
  /\ get_next_pid(st, start, state) = ((start % MAX_PROCESSES) + k) % MAX_PROCESSES
  /\ st[((start % MAX_PROCESSES) + k) % MAX_PROCESSES] = state
  /\ \A m \in 0 .. k - 1 : st[((start % MAX_PROCESSES) + m) % MAX_PROCESSES] # state

\* get_next_pid (scheduler.c:19-24) returns a slot of the wanted state if there
\* is one, and every slot it skipped on the way is in another state.
LEMMA NextPidFirst ==
  ASSUME NEW st, NEW start \in Nat, NEW state,
         \E p \in Pids : st[p] = state
  PROVE  \E k \in Pids : FoundAt(st, start, state, k)
<1> DEFINE i == start % MAX_PROCESSES
           Hit(n) == st[(i + n) % MAX_PROCESSES] = state
           First(n) == Hit(n) /\ \A m \in 0 .. n - 1 : ~Hit(m)
           T == {n \in Pids : Hit(n)}
<1>1. i \in Pids
  BY StartInTable
<1>2. T # {}
  <2>1. PICK p \in Pids : st[p] = state
    OBVIOUS
  <2>2. PICK n \in Pids : (i + n) % MAX_PROCESSES = p
    <3> HIDE DEF i
    <3> DEFINE d == IF p >= i THEN p - i ELSE p - i + MAX_PROCESSES
    <3>1. d \in Pids /\ i + d = IF p >= i THEN p ELSE p + MAX_PROCESSES
      BY <1>1, TableSize DEF Pids
    <3> HIDE DEF d
    <3>2. (i + d) % MAX_PROCESSES =
            IF i + d < MAX_PROCESSES THEN i + d ELSE i + d - MAX_PROCESSES
      BY <1>1, <3>1, WrapAround
    <3>3. (i + d) % MAX_PROCESSES = p
      BY <1>1, <3>1, <3>2, TableSize DEF Pids
    <3>4. QED
      BY <3>1, <3>3
  <2>3. QED
    BY <2>1, <2>2
<1>3. PICK n \in T : \A m \in T : n <= m
  <2>1. T \in SUBSET Nat
    BY TableSize DEF Pids
  <2>2. QED
    BY <1>2, <2>1, LeastElement, Zenon
<1>4. n \in Pids /\ First(n)
  <2>1. \A m \in 0 .. n - 1 : m \in Pids /\ ~(n <= m)
    BY TableSize DEF Pids
  <2>2. QED
    BY <1>3, <2>1, Zenon
<1> DEFINE k == CHOOSE x \in Pids : First(x)
<1>5. k \in Pids /\ First(k)
  BY <1>4, Zenon
<1>6. get_next_pid(st, start, state) = (i + k) % MAX_PROCESSES
  BY Zenon DEF get_next_pid
<1>7. FoundAt(st, start, state, k)
  BY <1>5, <1>6, Zenon DEF FoundAt
<1>8. QED
  BY <1>5, <1>7, Zenon

\* The part of NextPidFirst most proofs need.
LEMMA NextPidType ==
  ASSUME NEW st, NEW start \in Nat, NEW state,
         \E p \in Pids : st[p] = state
  PROVE  /\ get_next_pid(st, start, state) \in Pids
         /\ st[get_next_pid(st, start, state)] = state
<1>1. PICK k \in Pids : FoundAt(st, start, state, k)
  BY NextPidFirst, Zenon
<1>2. (start % MAX_PROCESSES) + k \in Nat
  BY StartInTable, TableSize DEF Pids
<1>3. ((start % MAX_PROCESSES) + k) % MAX_PROCESSES \in Pids
  BY <1>2, StartInTable
<1>4. QED
  BY <1>1, <1>3, Zenon DEF FoundAt

-----------------------------------------------------------------------------
(* The inductive invariant. *)

\* kernel_main fills the table from slot 0 upwards while nobody runs yet.
BootOrder ==
  /\ mode \in {"init_process_table", "init_ps2"} => started = 0
  /\ mode \in {"init_ps2", "start_process"} => current_pid = BOOT_PID
  /\ Booting => /\ \A i \in Pids : ~Allocated(i)
                /\ \A p \in Pids : task_state[p] = IF p < started
                                                     THEN TASKSTATE_ready
                                                     ELSE TASKSTATE_unused
  /\ ~Booting => started = Len(Programs)

\* The k-th program lives in slot k - 1, and a background program stays ready.
BackgroundReady ==
  \A k \in 1 .. started :
    /\ task[k - 1].process_name = Programs[k]
    /\ Programs[k] \in Background => task_state[k - 1] = TASKSTATE_ready

\* get_next_pid searches without end only if nobody is ready.
SpinOnlyWhenNothingReady ==
  mode = "spin" => \A p \in Pids : task_state[p] # TASKSTATE_ready

\* The invariants of module Kernel need each other and the three above.
IInv ==
  /\ TypeOK
  /\ BlockedHasWaiter
  /\ RunningIsReady
  /\ SpinOnlyWhenNothingReady
  /\ BootOrder
  /\ BackgroundReady

\* The constants, in the form the proofs use them.
LEMMA Constants ==
  /\ BOOT_PID \in Nat /\ BOOT_PID \notin Pids
  /\ Code \subseteq Nat /\ 0 \in Code
  /\ Len(Programs) \in Nat /\ Len(Programs) <= MAX_PROCESSES
  /\ \A k \in 1 .. Len(Programs) : Programs[k] \in Code
  BY KernelAssumption DEF Pids

\* Only a slot of the table passes the test in schedule.
LEMMA InTable ==
  ASSUME TypeOK
  PROVE  current_pid < MAX_PROCESSES <=> current_pid \in Pids
<1>1. current_pid \in Pids \cup {BOOT_PID}
  BY DEF TypeOK
<1>2. BOOT_PID \in Nat /\ ~(BOOT_PID < MAX_PROCESSES)
  BY TableSize, KernelAssumption
<1>3. QED
  BY <1>1, <1>2, TableSize DEF Pids

\* So the registers are never stored behind the table.
LEMMA StoredType ==
  ASSUME TypeOK
  PROVE  /\ StoredRegisters \in [Pids -> Regs]
         /\ \A p \in Pids : StoredRegisters[p] = IF p = current_pid THEN cpu ELSE registers[p]
<1>1. registers \in [Pids -> Regs] /\ cpu \in Regs
  BY DEF TypeOK
<1>2. CASE current_pid \in Pids
  <2>1. Pids \cup {current_pid} = Pids
    BY <1>2
  <2>2. StoredRegisters = [p \in Pids |-> IF p = current_pid THEN cpu ELSE registers[p]]
    BY <1>2, <2>1, InTable DEF StoredRegisters, store_registers
  <2>3. QED
    BY <1>1, <2>2
<1>3. CASE current_pid \notin Pids
  BY <1>1, <1>3, InTable DEF StoredRegisters
<1>4. QED
  BY <1>2, <1>3

\* schedule (scheduler.c:72-81) keeps the types, and whoever it picks is ready;
\* it gets stuck only when nobody is.
LEMMA ScheduleStep ==
  ASSUME TypeOK, NEW st \in [Pids -> TaskStates], schedule(st)
  PROVE  /\ task_state' = st
         /\ registers' \in [Pids -> Regs]
         /\ current_pid' \in Pids \cup {BOOT_PID}
         /\ cpu' \in Regs
         /\ mode' \in {"user", "spin"}
         /\ mode' = "user" => /\ current_pid' \in Pids
                              /\ st[current_pid'] = TASKSTATE_ready
         /\ mode' = "spin" => \A p \in Pids : st[p] # TASKSTATE_ready
<1>1. StoredRegisters \in [Pids -> Regs]
  BY StoredType
<1>2. CASE \E p \in Pids : st[p] = TASKSTATE_ready
  <2>1. (current_pid + 1) % MAX_PROCESSES \in Nat
    BY TableSize, Constants DEF TypeOK, Pids
  <2> DEFINE n == get_next_pid(st, (current_pid + 1) % MAX_PROCESSES, TASKSTATE_ready)
  <2>2. n \in Pids /\ st[n] = TASKSTATE_ready
    BY <1>2, <2>1, NextPidType, Zenon
  <2>3. current_pid' = n /\ mode' = "user" /\ task_state' = st
        /\ registers' = StoredRegisters /\ cpu' = StoredRegisters[n]
    BY <1>2 DEF schedule
  <2> HIDE DEF n
  <2>4. QED
    BY <1>1, <2>2, <2>3
<1>3. CASE ~ \E p \in Pids : st[p] = TASKSTATE_ready
  BY <1>1, <1>3 DEF schedule, TypeOK
<1>4. QED
  BY <1>2, <1>3

\* Freeing a waiter keeps its type.
LEMMA ClearedWaiter ==
  ASSUME NEW w \in [alloc : {0, 1}, pid : Pids]
  PROVE  /\ [w EXCEPT !.alloc = 0] \in [alloc : {0, 1}, pid : Pids]
         /\ [w EXCEPT !.alloc = 0].alloc = 0
  OBVIOUS

\* A result in eax keeps the type of a register file.
LEMMA AnsweredRegs ==
  ASSUME NEW r \in Regs, NEW c \in Int
  PROVE  [r EXCEPT !.eax = c] \in Regs
  BY DEF Regs

\* The initial state.
LEMMA InitIInv == Init => IInv
<1> SUFFICES ASSUME Init PROVE IInv
  OBVIOUS
<1>1. 0 \in Pids
  BY TableSize DEF Pids
<1>2. TypeOK
  BY <1>1, Constants DEF Init, TypeOK, Modes, TaskStates, TASKSTATE_unused,
     initialize_registers, Regs
<1>3. BlockedHasWaiter /\ RunningIsReady /\ SpinOnlyWhenNothingReady
  BY DEF Init, BlockedHasWaiter, RunningIsReady, SpinOnlyWhenNothingReady, Allocated,
     TASKSTATE_unused, TASKSTATE_blocked
<1>4. BootOrder /\ BackgroundReady
  BY TableSize DEF Init, BootOrder, BackgroundReady, Booting, Allocated, Pids
<1>5. QED
  BY <1>2, <1>3, <1>4 DEF IInv

\* kernel_main's three kinds of step.
LEMMA BootStep ==
  ASSUME IInv, init_process_table \/ init_ps2 \/ start_process \/ interrupt_enable
  PROVE  IInv'
<1> USE DEF IInv
<1>1. CASE init_process_table
  <2> USE <1>1 DEF init_process_table
  <2>1. TypeOK'
    BY DEF TypeOK, Modes, TaskStates, TASKSTATE_unused
  <2>2. BlockedHasWaiter' /\ RunningIsReady' /\ SpinOnlyWhenNothingReady'
    BY DEF BlockedHasWaiter, RunningIsReady, SpinOnlyWhenNothingReady, BootOrder,
       Booting, Allocated, TASKSTATE_unused, TASKSTATE_blocked
  <2>3. started = 0 /\ \A p \in Pids : ~(p < started)
    BY TableSize DEF BootOrder, Pids
  <2>4. BootOrder' /\ BackgroundReady'
    BY <2>3 DEF BootOrder, BackgroundReady, Booting, Allocated
  <2>5. QED
    BY <2>1, <2>2, <2>4
<1>2. CASE init_ps2
  <2> USE <1>2 DEF init_ps2
  <2>1. TypeOK'
    <3>1. \A i \in Pids : [ps2_waiters[i] EXCEPT !.alloc = 0] \in [alloc : {0, 1}, pid : Pids]
      BY ClearedWaiter DEF TypeOK
    <3>2. QED
      BY <3>1 DEF TypeOK, Modes
  <2>2. \A i \in Pids : ps2_waiters'[i].alloc = 0
    BY DEF TypeOK
  <2>3. BlockedHasWaiter' /\ RunningIsReady' /\ SpinOnlyWhenNothingReady'
    BY <2>2 DEF BlockedHasWaiter, RunningIsReady, SpinOnlyWhenNothingReady, BootOrder,
       Booting, Allocated, TASKSTATE_unused, TASKSTATE_ready, TASKSTATE_blocked
  <2>4. BootOrder' /\ BackgroundReady'
    BY <2>2, TableSize DEF BootOrder, BackgroundReady, Booting, Allocated, Pids
  <2>5. QED
    BY <2>1, <2>3, <2>4
<1>3. CASE start_process
  <2> DEFINE chosen == get_next_pid(task_state, 0, TASKSTATE_unused)
             program == Programs[started + 1]
  <2>1. /\ mode = "start_process" /\ started < Len(Programs) /\ started \in Nat
        /\ current_pid = BOOT_PID
        /\ \A i \in Pids : ~Allocated(i)
        /\ \A p \in Pids : task_state[p] = IF p < started THEN TASKSTATE_ready
                                                          ELSE TASKSTATE_unused
    BY <1>3, Constants DEF start_process, TypeOK, BootOrder, Booting
  <2>2. started \in Pids /\ task_state[started] = TASKSTATE_unused
    BY <2>1, TableSize, Constants DEF Pids
  <2>3. chosen = started
    <3>1. chosen \in Pids /\ task_state[chosen] = TASKSTATE_unused
      BY <2>2, NextPidType, Zenon
    <3>2. PICK k \in Pids : FoundAt(task_state, 0, TASKSTATE_unused, k)
      BY <2>2, NextPidFirst, Zenon
    <3>3. 0 % MAX_PROCESSES = 0 /\ \A m \in Pids : m % MAX_PROCESSES = m
      BY TableSize DEF Pids
    <3>4. \A m \in 0 .. k - 1 : m \in Pids /\ 0 + m = m
      BY TableSize DEF Pids
    <3>5. 0 + k = k
      BY TableSize DEF Pids
    <3>6. chosen = k /\ \A m \in 0 .. k - 1 : task_state[m] # TASKSTATE_unused
      BY <3>2, <3>3, <3>4, <3>5, ZenonT(40) DEF FoundAt
    <3> HIDE DEF chosen
    <3>7. QED
      BY <2>1, <2>2, <3>1, <3>6, TableSize DEF Pids, TASKSTATE_ready, TASKSTATE_unused
  <2>4. /\ task_state' = [task_state EXCEPT ![started] = TASKSTATE_ready]
        /\ task' = [task EXCEPT ![started] = NewTask(started, program)]
        /\ registers' = [registers EXCEPT ![started] = initialize_registers(program)]
        /\ started' = started + 1
        /\ UNCHANGED <<mode, current_pid, ps2_waiters, cpu>>
    BY <1>3, <2>2, <2>3, Zenon DEF start_process
  <2> HIDE DEF chosen
  <2>5. program \in Code
    BY <2>1, Constants
  <2> HIDE DEF program
  <2>6. TypeOK'
    <3>1. NewTask(started, program) \in [pid : Pids, address_base : Nat,
                                         allocd_addr : Nat, process_name : Code]
      <4>1. ADDRESS_SPACE_SIZE * (started + 6) \in Nat
        BY <2>1, KernelAssumption
      <4>2. QED
        BY <2>2, <2>5, <4>1 DEF NewTask
    <3>2. initialize_registers(program) \in Regs
      BY <2>5 DEF initialize_registers, Regs
    <3>3. QED
      BY <2>1, <2>2, <2>4, <3>1, <3>2, Constants DEF TypeOK, TaskStates
  <2>7. BlockedHasWaiter' /\ RunningIsReady' /\ SpinOnlyWhenNothingReady'
    BY <2>1, <2>2, <2>4 DEF BlockedHasWaiter, RunningIsReady, SpinOnlyWhenNothingReady,
       TypeOK, Allocated, TASKSTATE_unused, TASKSTATE_ready, TASKSTATE_blocked
  <2>8. BootOrder'
    <3>1. \A p \in Pids : task_state'[p] = IF p < started + 1 THEN TASKSTATE_ready
                                                               ELSE TASKSTATE_unused
      <4> SUFFICES ASSUME NEW p \in Pids
                   PROVE  task_state'[p] = IF p < started + 1 THEN TASKSTATE_ready
                                                              ELSE TASKSTATE_unused
        OBVIOUS
      <4>1. p \in Nat
        BY TableSize DEF Pids
      <4>2. CASE p = started
        BY <2>1, <2>2, <2>4, <4>2 DEF TypeOK
      <4>3. CASE p # started
        BY <2>1, <2>2, <2>4, <4>1, <4>3 DEF TypeOK
      <4>4. QED
        BY <4>2, <4>3
    <3>2. QED
      BY <2>1, <2>4, <3>1 DEF BootOrder, Booting, Allocated
  <2>9. BackgroundReady'
    <3>1. task'[started].process_name = program /\ task_state'[started] = TASKSTATE_ready
      BY <2>2, <2>4 DEF TypeOK, NewTask
    <3>2. \A p \in Pids : p # started => task'[p] = task[p] /\ task_state'[p] = task_state[p]
      BY <2>2, <2>4 DEF TypeOK
    <3>3. SUFFICES ASSUME NEW k \in 1 .. started'
                   PROVE  /\ task'[k - 1].process_name = Programs[k]
                          /\ Programs[k] \in Background => task_state'[k - 1] = TASKSTATE_ready
      BY DEF BackgroundReady
    <3>4. CASE k = started + 1
      BY <2>1, <3>1, <3>4 DEF program
    <3>5. CASE k \in 1 .. started
      BY <2>1, <2>2, <3>2, <3>5, TableSize DEF BackgroundReady, Pids
    <3>6. QED
      BY <2>1, <2>4, <3>4, <3>5
  <2>10. QED
    BY <2>6, <2>7, <2>8, <2>9
<1>4. CASE interrupt_enable
  <2> USE <1>4 DEF interrupt_enable, tablevars
  <2>1. TypeOK'
    BY DEF TypeOK, Modes
  <2>2. BlockedHasWaiter' /\ RunningIsReady' /\ SpinOnlyWhenNothingReady'
    BY DEF BlockedHasWaiter, RunningIsReady, SpinOnlyWhenNothingReady, Allocated, BootOrder
  <2>3. BootOrder' /\ BackgroundReady'
    BY DEF BootOrder, BackgroundReady, Booting, Allocated
  <2>4. QED
    BY <2>1, <2>2, <2>3
<1>5. QED
  BY <1>1, <1>2, <1>3, <1>4

\* What a handler that ends in schedule preserves whatever table st it leaves,
\* as long as st keeps the background programs ready.
LEMMA Rescheduled ==
  ASSUME IInv, ~Booting, NEW st \in [Pids -> TaskStates], schedule(st),
         UNCHANGED <<started, task>>,
         ps2_waiters' \in [Pids -> [alloc : {0, 1}, pid : Pids]],
         \A k \in 1 .. started : Programs[k] \in Background => st[k - 1] = TASKSTATE_ready
  PROVE  /\ TypeOK' /\ RunningIsReady' /\ SpinOnlyWhenNothingReady'
         /\ BootOrder' /\ BackgroundReady'
<1>1. TypeOK
  BY DEF IInv
<1>2. /\ task_state' = st
      /\ registers' \in [Pids -> Regs]
      /\ current_pid' \in Pids \cup {BOOT_PID}
      /\ cpu' \in Regs
      /\ mode' \in {"user", "spin"}
      /\ mode' = "user" => /\ current_pid' \in Pids
                           /\ st[current_pid'] = TASKSTATE_ready
      /\ mode' = "spin" => \A p \in Pids : st[p] # TASKSTATE_ready
  BY <1>1, ScheduleStep
<1>3. TypeOK'
  BY <1>1, <1>2 DEF TypeOK, Modes
<1>4. RunningIsReady' /\ SpinOnlyWhenNothingReady'
  BY <1>2 DEF RunningIsReady, SpinOnlyWhenNothingReady
<1>5. BootOrder'
  BY <1>2 DEF IInv, BootOrder, Booting
<1>6. BackgroundReady'
  BY <1>2 DEF IInv, BackgroundReady
<1>7. QED
  BY <1>3, <1>4, <1>5, <1>6

\* The timer and yield.
LEMMA SwitchStep ==
  ASSUME IInv, irq_pit \/ syscall_yield
  PROVE  IInv'
<1>1. /\ ~Booting /\ schedule(task_state) /\ UNCHANGED <<started, task, ps2_waiters>>
  BY DEF irq_pit, syscall_yield, InterruptsEnabled, Invokes, Booting
<1>2. /\ TypeOK' /\ RunningIsReady' /\ SpinOnlyWhenNothingReady'
      /\ BootOrder' /\ BackgroundReady'
  <2>1. /\ task_state \in [Pids -> TaskStates]
        /\ ps2_waiters' \in [Pids -> [alloc : {0, 1}, pid : Pids]]
        /\ \A k \in 1 .. started : Programs[k] \in Background
                                     => task_state[k - 1] = TASKSTATE_ready
    BY <1>1 DEF IInv, TypeOK, BackgroundReady
  <2>2. QED
    BY <1>1, <2>1, Rescheduled
<1>3. BlockedHasWaiter'
  BY <1>1 DEF IInv, BlockedHasWaiter, Allocated, schedule
<1>4. QED
  BY <1>2, <1>3 DEF IInv

\* The program in the slot of the running process; only a background program
\* must stay ready, and it is not one that getc or exit is invoked from.
LEMMA ForegroundLeaves ==
  ASSUME IInv, Invokes(SYSCALL_getc) \/ Invokes(SYSCALL_exit)
  PROVE  /\ current_pid \in Pids /\ task_state[current_pid] = TASKSTATE_ready
         /\ \A k \in 1 .. started : Programs[k] \in Background =>
              k - 1 # current_pid /\ k - 1 \in Pids /\ task_state[k - 1] = TASKSTATE_ready
<1>1. mode = "user" /\ task[current_pid].process_name \notin Background
  BY DEF Invokes, SYSCALL_getc, SYSCALL_exit
<1>2. current_pid \in Pids /\ task_state[current_pid] = TASKSTATE_ready
  BY <1>1 DEF IInv, RunningIsReady
<1>3. \A k \in 1 .. started : k - 1 \in Pids
  BY TableSize, Constants DEF IInv, TypeOK, Pids
<1>4. QED
  BY <1>1, <1>2, <1>3 DEF IInv, BackgroundReady

LEMMA ExitStep ==
  ASSUME IInv, syscall_exit
  PROVE  IInv'
<1> DEFINE st == [task_state EXCEPT ![current_pid] = TASKSTATE_unused]
<1>1. /\ ~Booting /\ schedule(st) /\ UNCHANGED <<started, task, ps2_waiters>>
      /\ Invokes(SYSCALL_exit)
  BY DEF syscall_exit, Invokes, Booting
<1>2. /\ current_pid \in Pids /\ task_state[current_pid] = TASKSTATE_ready
      /\ \A k \in 1 .. started : Programs[k] \in Background =>
           k - 1 # current_pid /\ k - 1 \in Pids /\ task_state[k - 1] = TASKSTATE_ready
  BY <1>1, ForegroundLeaves
<1>3. st \in [Pids -> TaskStates]
  BY DEF IInv, TypeOK, TaskStates
<1>4. \A p \in Pids : st[p] = IF p = current_pid THEN TASKSTATE_unused ELSE task_state[p]
  BY DEF IInv, TypeOK
<1>5. \A k \in 1 .. started : Programs[k] \in Background => st[k - 1] = TASKSTATE_ready
  BY <1>2, <1>4
<1>6. task_state' = st
  BY <1>1 DEF schedule
<1> HIDE DEF st
<1>7. ps2_waiters' \in [Pids -> [alloc : {0, 1}, pid : Pids]]
  BY <1>1 DEF IInv, TypeOK
<1>8. /\ TypeOK' /\ RunningIsReady' /\ SpinOnlyWhenNothingReady'
      /\ BootOrder' /\ BackgroundReady'
  BY <1>1, <1>3, <1>5, <1>7, Rescheduled
<1>9. BlockedHasWaiter'
  BY <1>1, <1>2, <1>4, <1>6
     DEF IInv, BlockedHasWaiter, Allocated, TASKSTATE_unused, TASKSTATE_ready, TASKSTATE_blocked
<1>10. QED
  BY <1>8, <1>9 DEF IInv

\* The table is finite.
LEMMA TableFinite ==
  IsFiniteSet(Pids) /\ Cardinality(Pids) = MAX_PROCESSES
  BY TableSize, FS_Interval DEF Pids

\* getc (syscall.c:97-103) always finds a free waiter: the caller holds none, and
\* ps2_waiters has as many entries as there are processes.
LEMMA WaiterFree ==
  ASSUME TypeOK, BlockedHasWaiter, current_pid \in Pids,
         task_state[current_pid] = TASKSTATE_ready
  PROVE  FirstFreeWaiter \in FreeWaiters
<1>1. FreeWaiters # {}
  <2>1. SUFFICES ASSUME FreeWaiters = {} PROVE FALSE
    OBVIOUS
  <2>2. \A i \in Pids : Allocated(i)
    BY <2>1 DEF FreeWaiters, Allocated
  <2> DEFINE T == Pids \ {current_pid}
             f == [i \in Pids |-> ps2_waiters[i].pid]
  <2>3. \A i \in Pids : ps2_waiters[i].pid \in T
    BY <2>2 DEF TypeOK, BlockedHasWaiter, TASKSTATE_ready, TASKSTATE_blocked
  <2>4. f \in [Pids -> T]
    BY <2>3
  <2>5. IsFiniteSet(T) /\ Cardinality(T) = MAX_PROCESSES - 1
    BY TableFinite, FS_RemoveElement
  <2>6. Cardinality(T) < Cardinality(Pids)
    BY <2>5, TableFinite, TableSize
  <2>7. \E x, y \in Pids : x # y /\ f[x] = f[y]
    <3> HIDE DEF f, T
    <3>1. QED
      BY <2>4, <2>5, <2>6, TableFinite, FS_PigeonHole, Zenon
  <2>8. QED
    BY <2>2, <2>7 DEF BlockedHasWaiter
<1>2. FreeWaiters \in SUBSET Nat
  BY TableSize DEF FreeWaiters, Pids
<1>3. \E i \in FreeWaiters : \A j \in FreeWaiters : i <= j
  BY <1>1, <1>2, LeastElement, Zenon
<1>4. QED
  BY <1>3, Zenon DEF FirstFreeWaiter

LEMMA GetcStep ==
  ASSUME IInv, syscall_getc
  PROVE  IInv'
<1> DEFINE st == [task_state EXCEPT ![current_pid] = TASKSTATE_blocked]
           w  == FirstFreeWaiter
<1>1. ~Booting /\ schedule(st) /\ UNCHANGED <<started, task>> /\ Invokes(SYSCALL_getc)
  BY DEF syscall_getc, Invokes, Booting
<1>2. /\ current_pid \in Pids /\ task_state[current_pid] = TASKSTATE_ready
      /\ \A k \in 1 .. started : Programs[k] \in Background =>
           k - 1 # current_pid /\ k - 1 \in Pids /\ task_state[k - 1] = TASKSTATE_ready
  BY <1>1, ForegroundLeaves
<1>3. st \in [Pids -> TaskStates]
  BY DEF IInv, TypeOK, TaskStates
<1>4. \A p \in Pids : st[p] = IF p = current_pid THEN TASKSTATE_blocked ELSE task_state[p]
  BY DEF IInv, TypeOK
<1>5. \A k \in 1 .. started : Programs[k] \in Background => st[k - 1] = TASKSTATE_ready
  BY <1>2, <1>4
<1>6. task_state' = st
  BY <1>1 DEF schedule
<1> HIDE DEF st
<1>7. w \in FreeWaiters
  BY <1>2, WaiterFree DEF IInv
<1>8. /\ w \in Pids /\ ~Allocated(w)
      /\ ps2_waiters' = [ps2_waiters EXCEPT ![w] = [alloc |-> 1, pid |-> current_pid]]
  BY <1>7 DEF syscall_getc, FreeWaiters, Allocated
<1> HIDE DEF w
<1>9. ps2_waiters' \in [Pids -> [alloc : {0, 1}, pid : Pids]]
  BY <1>2, <1>8 DEF IInv, TypeOK
<1>10. /\ TypeOK' /\ RunningIsReady' /\ SpinOnlyWhenNothingReady'
       /\ BootOrder' /\ BackgroundReady'
  BY <1>1, <1>3, <1>5, <1>9, Rescheduled
<1>11. BlockedHasWaiter'
  <2>1. /\ ps2_waiters'[w].alloc # 0 /\ ps2_waiters'[w].pid = current_pid
        /\ \A i \in Pids : i # w => ps2_waiters'[i] = ps2_waiters[i]
    BY <1>8 DEF IInv, TypeOK
  <2>2. \A i \in Pids : Allocated(i) => ps2_waiters[i].pid # current_pid
    BY <1>2 DEF IInv, BlockedHasWaiter, TASKSTATE_ready, TASKSTATE_blocked
  <2>3. \A i \in Pids : Allocated(i)' <=> (i = w \/ Allocated(i))
    BY <2>1 DEF Allocated
  <2>4. \A p \in Pids : (task_state[p] = TASKSTATE_blocked)' <=>
                          \E i \in Pids : (Allocated(i) /\ ps2_waiters[i].pid = p)'
    BY <1>4, <1>6, <1>8, <2>1, <2>3 DEF IInv, BlockedHasWaiter
  <2>5. \A i, j \in Pids : /\ Allocated(i)' /\ Allocated(j)'
                           /\ ps2_waiters'[i].pid = ps2_waiters'[j].pid
                           => i = j
    BY <1>8, <2>1, <2>2, <2>3 DEF IInv, BlockedHasWaiter
  <2>6. QED
    BY <2>4, <2>5 DEF BlockedHasWaiter
<1>12. QED
  BY <1>10, <1>11 DEF IInv

\* The processes an allocated waiter names are the blocked ones.
LEMMA WaitingAreBlocked ==
  ASSUME TypeOK, BlockedHasWaiter
  PROVE  \A p \in Pids : p \in WaitingPids <=> task_state[p] = TASKSTATE_blocked
  BY DEF TypeOK, BlockedHasWaiter, WaitingPids, Allocated

\* A character, or a key that is none, wherever it comes from.
LEMMA KeypressStep ==
  ASSUME IInv, NEW c \in Int, handle_keypress_char(c), InterruptsEnabled,
         UNCHANGED <<mode, started, task, current_pid, cpu>>
  PROVE  IInv'
<1>1. CASE c = 0
  <2>1. UNCHANGED vars
    BY <1>1 DEF handle_keypress_char, vars
  <2>2. QED
    BY <2>1 DEF vars, IInv, TypeOK, BlockedHasWaiter, RunningIsReady, Allocated,
       SpinOnlyWhenNothingReady, BootOrder, BackgroundReady, Booting
<1>2. CASE c # 0
  <2>1. /\ registers' = [p \in Pids |-> IF p \in WaitingPids
                                          THEN [registers[p] EXCEPT !.eax = c]
                                          ELSE registers[p]]
        /\ task_state' = [p \in Pids |-> IF p \in WaitingPids
                                           THEN TASKSTATE_ready ELSE task_state[p]]
        /\ ps2_waiters' = [i \in Pids |-> [ps2_waiters[i] EXCEPT !.alloc = 0]]
    BY <1>2 DEF handle_keypress_char
  <2>2. \A i \in Pids : /\ ps2_waiters'[i] \in [alloc : {0, 1}, pid : Pids]
                        /\ ~Allocated(i)'
    BY <2>1, ClearedWaiter DEF IInv, TypeOK, Allocated
  <2>3. \A p \in Pids : task_state'[p] = IF task_state[p] = TASKSTATE_blocked
                                           THEN TASKSTATE_ready ELSE task_state[p]
    BY <2>1, WaitingAreBlocked DEF IInv
  <2>4. TypeOK'
    <3>1. \A p \in Pids : registers'[p] \in Regs
      BY <2>1, AnsweredRegs DEF IInv, TypeOK
    <3>2. registers' \in [Pids -> Regs]
      BY <2>1, <3>1
    <3>3. task_state' \in [Pids -> TaskStates]
      BY <2>1 DEF IInv, TypeOK, TaskStates
    <3>4. ps2_waiters' \in [Pids -> [alloc : {0, 1}, pid : Pids]]
      BY <2>1, <2>2
    <3>5. QED
      BY <3>2, <3>3, <3>4 DEF IInv, TypeOK
  <2>5. BlockedHasWaiter'
    BY <2>2, <2>3 DEF BlockedHasWaiter, TASKSTATE_ready, TASKSTATE_blocked
  <2>6. RunningIsReady' /\ SpinOnlyWhenNothingReady'
    BY <2>3 DEF IInv, RunningIsReady, SpinOnlyWhenNothingReady, InterruptsEnabled
  <2>7. BootOrder'
    BY DEF IInv, BootOrder, Booting, InterruptsEnabled
  <2>8. BackgroundReady'
    <3>1. \A k \in 1 .. started : k - 1 \in Pids
      BY TableSize, Constants DEF IInv, TypeOK, Pids
    <3>2. QED
      BY <2>3, <3>1 DEF IInv, BackgroundReady, TASKSTATE_ready, TASKSTATE_blocked
  <2>9. QED
    BY <2>4, <2>5, <2>6, <2>7, <2>8 DEF IInv
<1>3. QED
  BY <1>1, <1>2

\* Steps that touch no more than the registers in the processor and stop, or do
\* not stop, the machine.
LEMMA LocalStep ==
  ASSUME IInv, mode = "user", mode' \in {"user", "panic", "off"}, cpu' \in Regs,
         UNCHANGED <<started, tablevars, current_pid, ps2_waiters>>
  PROVE  IInv'
  BY DEF IInv, TypeOK, Modes, BlockedHasWaiter, RunningIsReady, Allocated,
     SpinOnlyWhenNothingReady, BootOrder, BackgroundReady, Booting, tablevars

\* The count lspci and lsproc answer with is a natural number.
LEMMA WrittenType ==
  ASSUME TypeOK, NEW available \in Nat
  PROVE  [cpu EXCEPT !.eax = Written(available)] \in Regs
<1>1. Written(available) \in Nat
  BY DEF Written, TypeOK, Regs
<1>2. QED
  BY <1>1, AnsweredRegs DEF TypeOK

LEMMA LiveCount ==
  Cardinality(LiveProcesses) \in Nat
<1>1. LiveProcesses \in SUBSET Pids
  BY DEF LiveProcesses
<1>2. QED
  BY <1>1, TableFinite, FS_Subset, FS_CardinalityType

\* What a received byte becomes.
LEMMA SerialCharType ==
  ASSUME NEW b \in SerialBytes
  PROVE  SerialChar(b) \in Int
<1>1. b \in Int
  BY KernelAssumption
<1>2. QED
  BY <1>1 DEF SerialChar

\* Every step of the kernel preserves the invariant.
LEMMA NextIInv ==
  IInv /\ [Next]_vars => IInv'
<1> SUFFICES ASSUME IInv, [Next]_vars PROVE IInv'
  OBVIOUS
<1>0. TypeOK
  BY DEF IInv
<1>1. CASE init_process_table \/ init_ps2 \/ start_process \/ interrupt_enable
  BY <1>1, BootStep
<1>2. CASE Instruction
  <2>1. cpu' \in Regs
    <3>1. PICK i \in Regs \X Regs : cpu' = i[2]
      BY <1>2, KernelAssumption DEF Instruction
    <3>2. QED
      BY <3>1
  <2>2. QED
    BY <1>2, <2>1, LocalStep DEF Instruction
<1>3. CASE fault_handler
  BY <1>0, <1>3, LocalStep DEF fault_handler, TypeOK
<1>4. CASE syscall_yield
  BY <1>4, SwitchStep
<1>5. CASE syscall_getc
  BY <1>5, GetcStep
<1>6. CASE syscall_exit
  BY <1>6, ExitStep
<1>7. CASE syscall_lspci
  <2>1. PciDevicesCount \in Nat
    BY KernelAssumption
  <2>2. cpu' \in Regs
    BY <1>0, <1>7, <2>1, WrittenType DEF syscall_lspci
  <2>3. QED
    BY <1>7, <2>2, LocalStep DEF syscall_lspci, Invokes
<1>8. CASE syscall_lsproc
  <2>1. cpu' \in Regs
    BY <1>0, <1>8, LiveCount, WrittenType DEF syscall_lsproc
  <2>2. QED
    BY <1>8, <2>1, LocalStep DEF syscall_lsproc, Invokes
<1>9. CASE syscall_powerctl
  BY <1>0, <1>9, LocalStep DEF syscall_powerctl, Invokes, TypeOK
<1>10. CASE irq_pit
  BY <1>10, SwitchStep
<1>11. CASE irq_ps2
  BY <1>11, KeypressStep, KernelAssumption DEF irq_ps2
<1>12. CASE irq_com1
  BY <1>12, SerialCharType, KeypressStep DEF irq_com1
<1>13. CASE UNCHANGED vars
  BY <1>13 DEF vars, IInv, TypeOK, BlockedHasWaiter, RunningIsReady, Allocated,
     SpinOnlyWhenNothingReady, BootOrder, BackgroundReady, Booting
<1>14. QED
  BY <1>1, <1>2, <1>3, <1>4, <1>5, <1>6, <1>7, <1>8, <1>9, <1>10, <1>11, <1>12, <1>13
     DEF Next

LEMMA Inductive == Spec => []IInv
  BY InitIInv, NextIInv, PTL DEF Spec

-----------------------------------------------------------------------------
(* The theorems. *)

\* Every variable keeps its type.
THEOREM Typing == Spec => []TypeOK
<1>1. IInv => TypeOK
  BY DEF IInv
<1>2. QED
  BY <1>1, Inductive, PTL

\* No lost wake-up: whoever getc (syscall.c:97-103) blocks is in exactly one
\* allocated waiter, so the next character releases it.
THEOREM NoLostWakeup == Spec => []BlockedHasWaiter
<1>1. IInv => BlockedHasWaiter
  BY DEF IInv
<1>2. QED
  BY <1>1, Inductive, PTL

\* The processor is only ever given to a ready process (scheduler.c:72-81).
THEOREM DispatchedReady == Spec => []RunningIsReady
<1>1. IInv => RunningIsReady
  BY DEF IInv
<1>2. QED
  BY <1>1, Inductive, PTL

\* One program that neither waits nor ends keeps the kernel out of the endless
\* search of get_next_pid (scheduler.c:19-24).
THEOREM BackgroundKeepsRunning == Spec => []BackgroundPreventsSpin
<1>1. IInv => BackgroundPreventsSpin
  <2>1. SUFFICES ASSUME IInv, NEW k \in 1 .. Len(Programs), Programs[k] \in Background,
                        mode = "spin"
                 PROVE  FALSE
    BY DEF BackgroundPreventsSpin
  <2>2. started = Len(Programs)
    BY <2>1 DEF IInv, BootOrder, Booting
  <2>3. k - 1 \in Pids
    BY TableSize, Constants DEF Pids
  <2>4. QED
    BY <2>1, <2>2, <2>3 DEF IInv, BackgroundReady, SpinOnlyWhenNothingReady
<1>2. QED
  BY <1>1, Inductive, PTL

-----------------------------------------------------------------------------
(* The refinement: Kernel implements VirtualCpus.  No context switch,      *)
(* preemption or wake-up changes or mixes up the registers of a process.   *)

\* Where the registers of slot p are while a process lives in it.
LiveRegisters(p) == IF p = current_pid THEN cpu ELSE registers[p]

LEMMA OwnRegistersOf ==
  ASSUME NEW p \in Pids
  PROVE  OwnRegisters[p] = IF task_state[p] = TASKSTATE_unused
                           THEN initialize_registers(0) ELSE LiveRegisters(p)
  BY DEF OwnRegisters, LiveRegisters

LEMMA OwnRegistersNext ==
  ASSUME NEW p \in Pids
  PROVE  OwnRegisters'[p] = IF task_state'[p] = TASKSTATE_unused
                            THEN initialize_registers(0) ELSE LiveRegisters(p)'
  BY DEF OwnRegisters, LiveRegisters

\* Two assignments of registers to slots that agree on every slot are equal.
LEMMA SameRegisters ==
  ASSUME \A p \in Pids : OwnRegisters'[p] = OwnRegisters[p]
  PROVE  OwnRegisters' = OwnRegisters
  BY DEF OwnRegisters

\* store_registers and load_registers around a switch (scheduler.c:72-81) move
\* register files and lose none, whether or not a next process is found.
LEMMA SwitchKeepsRegisters ==
  ASSUME IInv, NEW st \in [Pids -> TaskStates], schedule(st)
  PROVE  \A p \in Pids : LiveRegisters(p)' = LiveRegisters(p)
<1>1. \A p \in Pids : StoredRegisters[p] = LiveRegisters(p)
  BY StoredType DEF LiveRegisters, IInv
<1>2. registers' = StoredRegisters
  BY DEF schedule
<1>3. \/ cpu' = StoredRegisters[current_pid']
      \/ UNCHANGED <<current_pid, cpu>>
  BY DEF schedule
<1>4. QED
  BY <1>1, <1>2, <1>3 DEF LiveRegisters

\* Initial states map to initial states.
LEMMA InitRefines == Init => VirtualCpu!VInit
  BY DEF Init, VirtualCpu!VInit, OwnRegisters, TASKSTATE_unused

\* Timer and yield are invisible.
LEMMA SwitchRefines ==
  ASSUME IInv, schedule(task_state)
  PROVE  UNCHANGED <<task_state, OwnRegisters>>
<1>1. task_state \in [Pids -> TaskStates] /\ task_state' = task_state
  BY DEF IInv, TypeOK, schedule
<1>2. \A p \in Pids : OwnRegisters'[p] = OwnRegisters[p]
  BY <1>1, SwitchKeepsRegisters, OwnRegistersOf, OwnRegistersNext
<1>3. QED
  BY <1>1, <1>2, SameRegisters

\* start_process gives a process a virtual processor.
LEMMA StartRefines ==
  ASSUME IInv, start_process
  PROVE  \E p \in Pids, entry \in Code : VirtualCpu!Launch(p, entry)
<1> DEFINE chosen == get_next_pid(task_state, 0, TASKSTATE_unused)
           program == Programs[started + 1]
<1>1. started < Len(Programs) /\ started \in Nat /\ current_pid = BOOT_PID
  BY Constants DEF start_process, IInv, TypeOK, BootOrder
<1>2. \E p \in Pids : task_state[p] = TASKSTATE_unused
  <2>1. started \in Pids
    BY <1>1, TableSize, Constants DEF Pids
  <2>2. task_state[started] = TASKSTATE_unused
    BY <1>1, <2>1 DEF start_process, IInv, BootOrder, Booting
  <2>3. QED
    BY <2>1, <2>2
<1>3. chosen \in Pids /\ task_state[chosen] = TASKSTATE_unused
  BY <1>2, NextPidType, Zenon
<1>4. program \in Code
  BY <1>1, Constants
<1>5. /\ task_state' = [task_state EXCEPT ![chosen] = TASKSTATE_ready]
      /\ registers' = [registers EXCEPT ![chosen] = initialize_registers(program)]
      /\ UNCHANGED <<current_pid, cpu>>
  BY <1>2, Zenon DEF start_process
<1> HIDE DEF chosen, program
<1>6. \A p \in Pids : OwnRegisters'[p] = IF p = chosen THEN initialize_registers(program)
                                                   ELSE OwnRegisters[p]
  BY <1>1, <1>3, <1>5, Constants, OwnRegistersOf, OwnRegistersNext
     DEF LiveRegisters, IInv, TypeOK, TASKSTATE_unused, TASKSTATE_ready
<1>7. OwnRegisters' = [OwnRegisters EXCEPT ![chosen] = initialize_registers(program)]
  BY <1>3, <1>6 DEF OwnRegisters
<1>8. VirtualCpu!Launch(chosen, program)
  BY <1>3, <1>5, <1>7
     DEF VirtualCpu!Launch, initialize_registers, TASKSTATE_unused, TASKSTATE_ready
<1>9. QED
  BY <1>3, <1>4, <1>8

\* An instruction, or a call that answers in eax, changes the registers of the
\* running process only.
LEMMA LocalRegisters ==
  ASSUME IInv, mode = "user", UNCHANGED <<task_state, registers, current_pid>>
  PROVE  /\ current_pid \in Pids /\ task_state[current_pid] = TASKSTATE_ready
         /\ OwnRegisters[current_pid] = cpu
         /\ OwnRegisters' = [OwnRegisters EXCEPT ![current_pid] = cpu']
<1>1. current_pid \in Pids /\ task_state[current_pid] = TASKSTATE_ready
  BY DEF IInv, RunningIsReady
<1>2. \A p \in Pids : OwnRegisters'[p] = IF p = current_pid THEN cpu' ELSE OwnRegisters[p]
  BY <1>1, OwnRegistersOf, OwnRegistersNext
     DEF LiveRegisters, TASKSTATE_unused, TASKSTATE_ready
<1>3. OwnRegisters' = [OwnRegisters EXCEPT ![current_pid] = cpu']
  BY <1>1, <1>2 DEF OwnRegisters
<1>4. OwnRegisters[current_pid] = cpu
  BY <1>1, OwnRegistersOf DEF LiveRegisters, TASKSTATE_unused, TASKSTATE_ready
<1>5. QED
  BY <1>1, <1>3, <1>4

\* An instruction is one of the process's own processor.
LEMMA InstructionRefines ==
  ASSUME IInv, Instruction
  PROVE  \E p \in Pids : VirtualCpu!Execute(p)
<1>1. mode = "user" /\ UNCHANGED <<task_state, registers, current_pid>>
  BY DEF Instruction, tablevars
<1>2. PICK i \in Instructions : cpu = i[1] /\ cpu' = i[2]
  BY DEF Instruction
<1>3. VirtualCpu!Execute(current_pid)
  BY <1>1, <1>2, LocalRegisters DEF VirtualCpu!Execute, TASKSTATE_ready
<1>4. QED
  BY <1>1, <1>3, LocalRegisters

LEMMA SameCount ==
  ASSUME NEW S
  PROVE  VirtualCpu!Cardinality(S) = Cardinality(S)
  BY Zenon DEF VirtualCpu!Cardinality, Cardinality

\* lspci and lsproc answer the caller with the count, and change nothing else.
LEMMA ListRefines ==
  ASSUME IInv, syscall_lspci \/ syscall_lsproc
  PROVE  \E p \in Pids : VirtualCpu!List(p)
<1>1. mode = "user" /\ UNCHANGED <<task_state, registers, current_pid>>
  BY DEF syscall_lspci, syscall_lsproc, Invokes, tablevars
<1>2. /\ current_pid \in Pids /\ task_state[current_pid] = TASKSTATE_ready
      /\ OwnRegisters[current_pid] = cpu
      /\ OwnRegisters' = [OwnRegisters EXCEPT ![current_pid] = cpu']
  BY <1>1, LocalRegisters
<1>3. \A n : /\ VirtualCpu!AtMost(current_pid, n) = Written(n)
             /\ cpu' = [cpu EXCEPT !.eax = Written(n)] =>
                  OwnRegisters' = [OwnRegisters EXCEPT ![current_pid].eax = Written(n)]
  BY <1>2 DEF VirtualCpu!AtMost, Written
<1>4. LiveProcesses = {q \in Pids : task_state[q] # "unused"}
  BY DEF LiveProcesses, TASKSTATE_unused
<1>5. CASE syscall_lspci
  <2>1. /\ OwnRegisters[current_pid].eax = 3
        /\ OwnRegisters' = [OwnRegisters EXCEPT ![current_pid].eax =
                              VirtualCpu!AtMost(current_pid, PciDevicesCount)]
    BY <1>2, <1>3, <1>5 DEF syscall_lspci, Invokes, SYSCALL_lspci
  <2>2. QED
    BY <1>1, <1>2, <2>1 DEF VirtualCpu!List, VirtualCpu!LspciNumber, TASKSTATE_ready
<1>6. CASE syscall_lsproc
  <2>1. /\ OwnRegisters[current_pid].eax = 4
        /\ OwnRegisters' = [OwnRegisters EXCEPT ![current_pid].eax =
              VirtualCpu!AtMost(current_pid, Cardinality({q \in Pids : task_state[q] # "unused"}))]
    BY <1>2, <1>3, <1>4, <1>6 DEF syscall_lsproc, Invokes, SYSCALL_lsproc
  <2>2. QED
    BY <1>1, <1>2, <2>1, SameCount DEF VirtualCpu!List, VirtualCpu!LsprocNumber, TASKSTATE_ready
<1>7. QED
  BY <1>5, <1>6

\* getc stops the caller's virtual processor and leaves its registers alone.
LEMMA GetcRefines ==
  ASSUME IInv, syscall_getc
  PROVE  \E p \in Pids : VirtualCpu!Wait(p)
<1> DEFINE st == [task_state EXCEPT ![current_pid] = TASKSTATE_blocked]
<1>1. /\ current_pid \in Pids /\ task_state[current_pid] = TASKSTATE_ready
      /\ cpu.eax = SYSCALL_getc
  BY DEF IInv, RunningIsReady, syscall_getc, Invokes
<1>2. st \in [Pids -> TaskStates] /\ schedule(st) /\ task_state' = st
  BY DEF IInv, TypeOK, TaskStates, syscall_getc, schedule
<1>3. \A p \in Pids : st[p] = TASKSTATE_unused <=> task_state[p] = TASKSTATE_unused
  BY <1>1 DEF IInv, TypeOK, TASKSTATE_unused, TASKSTATE_ready, TASKSTATE_blocked
<1>4. OwnRegisters[current_pid] = cpu
  BY <1>1, OwnRegistersOf DEF LiveRegisters, TASKSTATE_unused, TASKSTATE_ready
<1>5. UNCHANGED OwnRegisters
  <2> HIDE DEF st
  <2>1. \A p \in Pids : OwnRegisters'[p] = OwnRegisters[p]
    BY <1>2, <1>3, SwitchKeepsRegisters, OwnRegistersOf, OwnRegistersNext
  <2>2. QED
    BY <2>1, SameRegisters
<1>6. VirtualCpu!Wait(current_pid)
  BY <1>1, <1>2, <1>4, <1>5 DEF VirtualCpu!Wait, VirtualCpu!GetcNumber, SYSCALL_getc,
     TASKSTATE_ready, TASKSTATE_blocked
<1>7. QED
  BY <1>1, <1>6

\* exit ends the caller's virtual processor and no other.
LEMMA ExitRefines ==
  ASSUME IInv, syscall_exit
  PROVE  \E p \in Pids : VirtualCpu!Leave(p)
<1> DEFINE st == [task_state EXCEPT ![current_pid] = TASKSTATE_unused]
<1>1. /\ current_pid \in Pids /\ task_state[current_pid] = TASKSTATE_ready
      /\ cpu.eax = SYSCALL_exit
  BY DEF IInv, RunningIsReady, syscall_exit, Invokes
<1>2. st \in [Pids -> TaskStates] /\ schedule(st) /\ task_state' = st
  BY DEF IInv, TypeOK, TaskStates, syscall_exit, schedule
<1>3. \A p \in Pids : st[p] = IF p = current_pid THEN TASKSTATE_unused ELSE task_state[p]
  BY DEF IInv, TypeOK
<1>4. OwnRegisters[current_pid] = cpu
  BY <1>1, OwnRegistersOf DEF LiveRegisters, TASKSTATE_unused, TASKSTATE_ready
<1>5. OwnRegisters' = [OwnRegisters EXCEPT ![current_pid] = initialize_registers(0)]
  <2> HIDE DEF st
  <2>1. \A p \in Pids : OwnRegisters'[p] = IF p = current_pid THEN initialize_registers(0)
                                                             ELSE OwnRegisters[p]
    BY <1>2, <1>3, SwitchKeepsRegisters, OwnRegistersOf, OwnRegistersNext
  <2>2. QED
    BY <1>1, <2>1 DEF OwnRegisters
<1>6. VirtualCpu!Leave(current_pid)
  BY <1>1, <1>2, <1>4, <1>5 DEF VirtualCpu!Leave, VirtualCpu!ExitNumber, SYSCALL_exit,
     TASKSTATE_ready, TASKSTATE_unused
<1>7. QED
  BY <1>1, <1>6

\* A character reaches every virtual processor that waits, and no other; with
\* nobody waiting, or for a key that is no character, nothing happens.
LEMMA KeypressRefines ==
  ASSUME IInv, InterruptsEnabled, NEW c \in Int, c # 0 => c \in TypedChars,
         handle_keypress_char(c), UNCHANGED <<current_pid, cpu>>
  PROVE  \/ \E ch \in TypedChars : VirtualCpu!Deliver(ch)
         \/ UNCHANGED <<task_state, OwnRegisters>>
<1>1. CASE c = 0
  BY <1>1 DEF handle_keypress_char, OwnRegisters
<1>2. CASE c # 0
  <2>1. /\ registers' = [p \in Pids |-> IF p \in WaitingPids
                                          THEN [registers[p] EXCEPT !.eax = c]
                                          ELSE registers[p]]
        /\ task_state' = [p \in Pids |-> IF p \in WaitingPids
                                           THEN TASKSTATE_ready ELSE task_state[p]]
    BY <1>2 DEF handle_keypress_char
  <2>2. \A p \in Pids : p \in WaitingPids <=> task_state[p] = TASKSTATE_blocked
    BY WaitingAreBlocked DEF IInv
  <2>3. \A p \in Pids : task_state[p] = TASKSTATE_blocked => p # current_pid
    BY Constants DEF IInv, RunningIsReady, InterruptsEnabled, TASKSTATE_ready, TASKSTATE_blocked
  <2>4. task_state' = [p \in Pids |-> IF task_state[p] = TASKSTATE_blocked
                                        THEN TASKSTATE_ready ELSE task_state[p]]
    BY <2>1, <2>2
  <2>5. \A p \in Pids : OwnRegisters'[p] = IF task_state[p] = TASKSTATE_blocked
                                             THEN [OwnRegisters[p] EXCEPT !.eax = c]
                                             ELSE OwnRegisters[p]
    <3> SUFFICES ASSUME NEW p \in Pids
                 PROVE  OwnRegisters'[p] = IF task_state[p] = TASKSTATE_blocked
                                             THEN [OwnRegisters[p] EXCEPT !.eax = c]
                                             ELSE OwnRegisters[p]
      OBVIOUS
    <3>1. CASE task_state[p] = TASKSTATE_blocked
      <4>1. /\ OwnRegisters[p] = registers[p]
            /\ OwnRegisters'[p] = registers'[p]
        BY <2>3, <2>4, <3>1, OwnRegistersOf, OwnRegistersNext
           DEF LiveRegisters, TASKSTATE_unused, TASKSTATE_ready, TASKSTATE_blocked
      <4>2. registers'[p] = [registers[p] EXCEPT !.eax = c]
        BY <2>1, <2>2, <3>1
      <4>3. QED
        BY <3>1, <4>1, <4>2
    <3>2. CASE task_state[p] # TASKSTATE_blocked
      <4>1. registers'[p] = registers[p] /\ task_state'[p] = task_state[p]
        BY <2>1, <2>2, <3>2
      <4>2. QED
        BY <3>2, <4>1, OwnRegistersOf, OwnRegistersNext DEF LiveRegisters
    <3>3. QED
      BY <3>1, <3>2
  <2>6. CASE \E p \in Pids : task_state[p] = TASKSTATE_blocked
    <3>1. OwnRegisters' = [p \in Pids |-> IF task_state[p] = TASKSTATE_blocked
                                            THEN [OwnRegisters[p] EXCEPT !.eax = c]
                                            ELSE OwnRegisters[p]]
      BY <2>5 DEF OwnRegisters
    <3>2. VirtualCpu!Deliver(c)
      BY <2>4, <2>6, <3>1 DEF VirtualCpu!Deliver, TASKSTATE_ready, TASKSTATE_blocked
    <3>3. QED
      BY <1>2, <3>2
  <2>7. CASE ~ \E p \in Pids : task_state[p] = TASKSTATE_blocked
    <3>1. task_state' = task_state
      BY <2>4, <2>7 DEF IInv, TypeOK
    <3>2. OwnRegisters' = OwnRegisters
      BY <2>5, <2>7, SameRegisters
    <3>3. QED
      BY <3>1, <3>2
  <2>8. QED
    BY <2>6, <2>7
<1>3. QED
  BY <1>1, <1>2

\* The steps of kernel_main that start nothing.
LEMMA QuietRefines ==
  ASSUME IInv,
         \/ init_process_table \/ init_ps2 \/ interrupt_enable
         \/ fault_handler \/ syscall_powerctl \/ UNCHANGED vars
  PROVE  UNCHANGED <<task_state, OwnRegisters>>
<1>1. CASE init_process_table
  <2>1. \A p \in Pids : task_state[p] = TASKSTATE_unused
    BY <1>1, TableSize DEF init_process_table, IInv, BootOrder, Booting, Pids
  <2>2. task_state' = task_state
    BY <1>1, <2>1 DEF init_process_table, IInv, TypeOK
  <2>3. \A p \in Pids : OwnRegisters'[p] = OwnRegisters[p]
    BY <2>1, <2>2, OwnRegistersOf, OwnRegistersNext
  <2>4. QED
    BY <2>2, <2>3, SameRegisters
<1>2. CASE ~init_process_table
  <2>1. UNCHANGED <<task_state, registers, current_pid, cpu>>
    BY <1>2 DEF init_ps2, interrupt_enable, fault_handler, syscall_powerctl, tablevars, vars
  <2>2. QED
    BY <2>1 DEF OwnRegisters
<1>3. QED
  BY <1>1, <1>2

\* Every step maps to a step of the abstract specification or to none.
LEMMA NextRefines ==
  IInv /\ [Next]_vars => [VirtualCpu!VNext]_<<task_state, OwnRegisters>>
<1> SUFFICES ASSUME IInv, [Next]_vars
             PROVE  VirtualCpu!VNext \/ UNCHANGED <<task_state, OwnRegisters>>
  OBVIOUS
<1>0. TypeOK
  BY DEF IInv
<1>1. CASE \/ init_process_table \/ init_ps2 \/ interrupt_enable
           \/ fault_handler \/ syscall_powerctl \/ UNCHANGED vars
  BY <1>1, QuietRefines
<1>2. CASE start_process
  BY <1>2, StartRefines DEF VirtualCpu!VNext
<1>3. CASE Instruction \/ syscall_lspci \/ syscall_lsproc
  BY <1>3, InstructionRefines, ListRefines DEF VirtualCpu!VNext
<1>4. CASE syscall_yield \/ irq_pit
  BY <1>4, SwitchRefines DEF syscall_yield, irq_pit
<1>5. CASE syscall_getc
  BY <1>5, GetcRefines DEF VirtualCpu!VNext
<1>6. CASE syscall_exit
  BY <1>6, ExitRefines DEF VirtualCpu!VNext
<1>7. CASE irq_ps2
  <2>1. PICK c \in KeyChars : handle_keypress_char(c)
    BY <1>7 DEF irq_ps2
  <2>2. c \in Int /\ (c # 0 => c \in TypedChars)
    BY KernelAssumption DEF TypedChars
  <2>3. \/ \E ch \in TypedChars : VirtualCpu!Deliver(ch)
        \/ UNCHANGED <<task_state, OwnRegisters>>
    BY <1>7, <2>1, <2>2, KeypressRefines DEF irq_ps2
  <2>4. QED
    BY <2>3 DEF VirtualCpu!VNext
<1>8. CASE irq_com1
  <2>1. PICK b \in SerialBytes : handle_keypress_char(SerialChar(b))
    BY <1>8 DEF irq_com1
  <2>2. SerialChar(b) \in Int /\ (SerialChar(b) # 0 => SerialChar(b) \in TypedChars)
    BY SerialCharType DEF TypedChars
  <2>3. \/ \E ch \in TypedChars : VirtualCpu!Deliver(ch)
        \/ UNCHANGED <<task_state, OwnRegisters>>
    BY <1>8, <2>1, <2>2, KeypressRefines DEF irq_com1
  <2>4. QED
    BY <2>3 DEF VirtualCpu!VNext
<1>9. QED
  BY <1>1, <1>2, <1>3, <1>4, <1>5, <1>6, <1>7, <1>8 DEF Next

\* Time sharing is invisible (scheduler.c, syscall.c, ps2.c, serial.c together):
\* the kernel gives every process the registers, the blocking and the wake-ups
\* it would have on a processor of its own.
THEOREM TimeSharingIsInvisible == Spec => ImplementsVirtualCpus
<1>1. Init => VirtualCpu!VInit
  BY InitRefines
<1>2. IInv /\ [Next]_vars => [VirtualCpu!VNext]_(VirtualCpu!vvars)
  BY NextRefines DEF VirtualCpu!vvars
<1>3. QED
  BY <1>1, <1>2, Inductive, PTL DEF Spec, ImplementsVirtualCpus, VirtualCpu!VSpec

-----------------------------------------------------------------------------
(* How often a ready process is passed over. *)

\* Slots the search from slot c on looks at before slot p.
Ahead(c, p) == IF p > c THEN p - c - 1 ELSE p - c - 1 + MAX_PROCESSES

\* Every pass brings the search closer to p.  Nobody is passed before the first
\* switch, and whoever is not ready is not passed.
PassedApproaches ==
  /\ passed \in [Pids -> Nat]
  /\ \A p \in Pids : passed[p] <= MAX_PROCESSES - 1
  /\ \A p \in Pids : task_state[p] # TASKSTATE_ready => passed[p] = 0
  /\ Booting \/ mode = "idle" => \A p \in Pids : passed[p] = 0
  /\ mode = "user" => \A p \in Pids : task_state[p] = TASKSTATE_ready
                        => passed[p] + Ahead(current_pid, p) <= MAX_PROCESSES - 1

RRInv == IInv /\ PassedApproaches

-----------------------------------------------------------------------------
\* Distances are below the size of the table, and only a slot itself is the
\* whole table ahead of it.
LEMMA AheadType ==
  ASSUME NEW c \in Pids, NEW p \in Pids
  PROVE  /\ Ahead(c, p) \in Pids
         /\ p # c => Ahead(c, p) <= MAX_PROCESSES - 2
  BY TableSize DEF Ahead, Pids

\* Where the search after slot c begins.
LEMMA SearchStart ==
  ASSUME NEW c \in Pids
  PROVE  /\ (c + 1) % MAX_PROCESSES = IF c + 1 < MAX_PROCESSES THEN c + 1 ELSE 0
         /\ (c + 1) % MAX_PROCESSES \in Pids
         /\ ((c + 1) % MAX_PROCESSES) % MAX_PROCESSES = (c + 1) % MAX_PROCESSES
<1>1. (c + 1) % MAX_PROCESSES = IF c + 1 < MAX_PROCESSES THEN c + 1 ELSE 0
  BY TableSize DEF Pids
<1>2. (c + 1) % MAX_PROCESSES \in Pids
  BY <1>1, TableSize DEF Pids
<1>3. \A x \in Pids : x % MAX_PROCESSES = x
  BY TableSize DEF Pids
<1>4. QED
  BY <1>1, <1>2, <1>3

\* The search after slot c looks at slot p in iteration Ahead(c, p).
LEMMA SearchReaches ==
  ASSUME NEW c \in Pids, NEW p \in Pids
  PROVE  (((c + 1) % MAX_PROCESSES) + Ahead(c, p)) % MAX_PROCESSES = p
<1> DEFINE s == (c + 1) % MAX_PROCESSES
           d == Ahead(c, p)
<1>1. s = (IF c + 1 < MAX_PROCESSES THEN c + 1 ELSE 0) /\ s \in Pids
  BY SearchStart
<1>2. d \in Pids /\ d = IF p > c THEN p - c - 1 ELSE p - c - 1 + MAX_PROCESSES
  BY AheadType DEF Ahead
<1> HIDE DEF s, d
<1>3. (s + d) % MAX_PROCESSES =
        IF s + d < MAX_PROCESSES THEN s + d ELSE s + d - MAX_PROCESSES
  BY <1>1, <1>2, WrapAround
<1>4. (s + d) % MAX_PROCESSES = p
  BY <1>1, <1>2, <1>3, TableSize DEF Pids
<1>5. QED
  BY <1>4 DEF s, d

\* Stopping k iterations in, before p is reached, takes k + 1 slots off the
\* distance of p.
LEMMA SearchShortens ==
  ASSUME NEW c \in Pids, NEW p \in Pids, NEW k \in Pids, k < Ahead(c, p)
  PROVE  Ahead((((c + 1) % MAX_PROCESSES) + k) % MAX_PROCESSES, p) = Ahead(c, p) - k - 1
<1> DEFINE s == (c + 1) % MAX_PROCESSES
           n == (s + k) % MAX_PROCESSES
<1>1. s = (IF c + 1 < MAX_PROCESSES THEN c + 1 ELSE 0) /\ s \in Pids
  BY SearchStart
<1> HIDE DEF s
<1>2. n = IF s + k < MAX_PROCESSES THEN s + k ELSE s + k - MAX_PROCESSES
  BY <1>1, WrapAround
<1> HIDE DEF n
<1>3. Ahead(n, p) = Ahead(c, p) - k - 1
  BY <1>1, <1>2, TableSize DEF Ahead, Pids
<1>4. QED
  BY <1>3 DEF n, s

-----------------------------------------------------------------------------
\* A step that gives the processor to nobody new.
LEMMA NotPassedStep ==
  ASSUME RRInv, IInv', NotPassed, mode' = "user" => mode = "user",
         UNCHANGED current_pid \/ mode' # "user",
         Booting' \/ mode' = "idle" => Booting \/ mode = "idle"
  PROVE  PassedApproaches'
<1>1. \A p \in Pids : passed'[p] = IF task_state'[p] = TASKSTATE_ready THEN passed[p] ELSE 0
  BY DEF NotPassed
<1>2. passed' \in [Pids -> Nat]
  BY DEF NotPassed, RRInv, PassedApproaches
<1>3. \A p \in Pids : passed'[p] <= MAX_PROCESSES - 1
  BY <1>1, TableSize DEF RRInv, PassedApproaches
<1>4. \A p \in Pids : task_state'[p] # TASKSTATE_ready => passed'[p] = 0
  BY <1>1
<1>5. Booting' \/ mode' = "idle" => \A p \in Pids : passed'[p] = 0
  BY <1>1 DEF RRInv, PassedApproaches
<1>6. ASSUME mode' = "user", NEW p \in Pids, task_state'[p] = TASKSTATE_ready
      PROVE  passed'[p] + Ahead(current_pid', p) <= MAX_PROCESSES - 1
  <2>1. mode = "user" /\ current_pid' = current_pid /\ current_pid \in Pids
    BY <1>6 DEF RRInv, IInv, RunningIsReady
  <2>2. CASE task_state[p] = TASKSTATE_ready
    BY <1>1, <1>6, <2>1, <2>2 DEF RRInv, PassedApproaches
  <2>3. CASE task_state[p] # TASKSTATE_ready
    <3>1. passed'[p] = 0
      BY <1>1, <1>6, <2>3 DEF RRInv, PassedApproaches
    <3>2. Ahead(current_pid, p) \in Pids
      BY <2>1, AheadType
    <3>3. QED
      BY <2>1, <3>1, <3>2, TableSize DEF Pids
  <2>4. QED
    BY <2>2, <2>3
<1>7. QED
  BY <1>2, <1>3, <1>4, <1>5, <1>6 DEF PassedApproaches

\* A switch.
LEMMA SwitchApproaches ==
  ASSUME RRInv, IInv', Switch, PassedOver
  PROVE  PassedApproaches'
<1>1. PICK st : /\ schedule(st)
                /\ \A p \in Pids : st[p] = TASKSTATE_ready => task_state[p] = TASKSTATE_ready
  <2>1. CASE irq_pit \/ syscall_yield
    BY <2>1 DEF irq_pit, syscall_yield
  <2>2. CASE syscall_getc
    <3>1. \A p \in Pids : [task_state EXCEPT ![current_pid] = TASKSTATE_blocked][p]
                            = TASKSTATE_ready => task_state[p] = TASKSTATE_ready
      BY DEF RRInv, IInv, TypeOK, TASKSTATE_ready, TASKSTATE_blocked
    <3>2. QED
      BY <2>2, <3>1 DEF syscall_getc
  <2>3. CASE syscall_exit
    <3>1. \A p \in Pids : [task_state EXCEPT ![current_pid] = TASKSTATE_unused][p]
                            = TASKSTATE_ready => task_state[p] = TASKSTATE_ready
      BY DEF RRInv, IInv, TypeOK, TASKSTATE_ready, TASKSTATE_unused
    <3>2. QED
      BY <2>3, <3>1 DEF syscall_exit
  <2>4. QED
    BY <2>1, <2>2, <2>3 DEF Switch
<1>2. /\ passed \in [Pids -> Nat]
      /\ mode = "idle" => \A p \in Pids : passed[p] = 0
      /\ mode = "user" => \A p \in Pids : task_state[p] = TASKSTATE_ready
                            => passed[p] + Ahead(current_pid, p) <= MAX_PROCESSES - 1
      /\ mode \in {"idle", "user"}
  BY DEF RRInv, PassedApproaches, Switch, irq_pit, syscall_yield, syscall_getc, syscall_exit,
     Invokes, InterruptsEnabled
<1>3. /\ task_state' = st /\ mode' \in {"user", "spin"}
      /\ mode' = "spin" => \A p \in Pids : st[p] # TASKSTATE_ready
      /\ mode' = "user" => current_pid' \in Pids
  <2>1. mode' = "user" => current_pid' \in Pids
    BY DEF IInv, RunningIsReady
  <2>2. QED
    BY <1>1, <2>1 DEF schedule
<1>4. \A p \in Pids : passed'[p] = IF st[p] = TASKSTATE_ready /\ p # current_pid'
                                     THEN passed[p] + 1 ELSE 0
  BY <1>3 DEF PassedOver
<1>5. passed' \in [Pids -> Nat]
  BY <1>2 DEF PassedOver
<1>6. ASSUME mode' = "user", NEW p \in Pids, st[p] = TASKSTATE_ready
      PROVE  passed'[p] + Ahead(current_pid', p) <= MAX_PROCESSES - 1
  <2> DEFINE n == current_pid'
  <2>1. n \in Pids /\ Ahead(n, p) \in Pids /\ (p # n => Ahead(n, p) <= MAX_PROCESSES - 2)
    BY <1>3, <1>6, AheadType
  <2>2. passed[p] \in Nat /\ MAX_PROCESSES \in Nat
    BY <1>2, TableSize
  <2>3. CASE p = n
    BY <1>4, <2>1, <2>2, <2>3 DEF Pids
  <2>4. CASE p # n /\ mode = "idle"
    BY <1>2, <1>4, <1>6, <2>1, <2>2, <2>4 DEF Pids
  <2>5. CASE p # n /\ mode = "user"
    <3>1. current_pid \in Pids
      BY <2>5 DEF RRInv, IInv, RunningIsReady
    <3> DEFINE s == (current_pid + 1) % MAX_PROCESSES
               d == Ahead(current_pid, p)
    <3>2. s \in Pids /\ s \in Nat /\ s % MAX_PROCESSES = s
      BY <3>1, SearchStart, TableSize DEF Pids
    <3>3. d \in Pids /\ (s + d) % MAX_PROCESSES = p
      BY <3>1, AheadType, SearchReaches
    <3>4. \E x \in Pids : st[x] = TASKSTATE_ready
      BY <1>6
    <3>5. PICK k \in Pids : FoundAt(st, s, TASKSTATE_ready, k)
      <4> HIDE DEF s
      <4>1. QED
        BY <3>2, <3>4, NextPidFirst, Zenon
    <3>6. n = get_next_pid(st, s, TASKSTATE_ready)
      BY <1>1, <3>4 DEF schedule
    <3>7. /\ n = (s + k) % MAX_PROCESSES
          /\ \A m \in 0 .. k - 1 : st[(s + m) % MAX_PROCESSES] # TASKSTATE_ready
      <4> HIDE DEF s, n
      <4>1. QED
        BY <3>2, <3>5, <3>6, Zenon DEF FoundAt
    <3>8. k < d
      <4>1. ~(d \in 0 .. k - 1)
        <5> HIDE DEF s, d, n
        <5>1. QED
          BY <1>6, <3>3, <3>7, Zenon
      <4>2. d # k
        BY <2>5, <3>3, <3>7
      <4> HIDE DEF d
      <4>3. QED
        BY <3>3, <4>1, <4>2, TableSize DEF Pids
    <3>9. Ahead(n, p) = d - k - 1
      BY <3>1, <3>7, <3>8, SearchShortens
    <3>10. passed[p] + d <= MAX_PROCESSES - 1
      BY <1>1, <1>2, <1>6, <2>5
    <3>11. passed'[p] = passed[p] + 1
      BY <1>4, <1>6, <2>5
    <3> HIDE DEF d, n, s
    <3>12. passed'[p] + Ahead(n, p) <= MAX_PROCESSES - 1
      BY <2>2, <3>3, <3>9, <3>10, <3>11, TableSize DEF Pids
    <3>13. QED
      BY <3>12 DEF n
  <2>6. QED
    BY <1>2, <2>3, <2>4, <2>5
<1>7. \A p \in Pids : task_state'[p] # TASKSTATE_ready => passed'[p] = 0
  BY <1>3, <1>4
<1>8. \A p \in Pids : passed'[p] <= MAX_PROCESSES - 1
  <2> SUFFICES ASSUME NEW p \in Pids PROVE passed'[p] <= MAX_PROCESSES - 1
    OBVIOUS
  <2>1. CASE mode' = "user" /\ st[p] = TASKSTATE_ready
    <3>1. Ahead(current_pid', p) \in Pids
      BY <1>3, <2>1, AheadType
    <3>2. Ahead(current_pid', p) \in Nat
      BY <3>1, TableSize DEF Pids
    <3>3. QED
      BY <1>5, <1>6, <2>1, <3>2, TableSize
  <2>2. CASE ~(mode' = "user" /\ st[p] = TASKSTATE_ready)
    <3>1. passed'[p] = 0
      BY <1>3, <1>4, <2>2
    <3>2. QED
      BY <3>1, TableSize
  <2>3. QED
    BY <2>1, <2>2
<1>9. ~Booting' /\ mode' # "idle"
  BY <1>3 DEF Booting
<1>10. QED
  BY <1>3, <1>5, <1>6, <1>7, <1>8, <1>9 DEF PassedApproaches

LEMMA InitRRInv == RRInit => RRInv
  BY InitIInv, TableSize DEF RRInit, RRInv, PassedApproaches, Init

\* The history variable does not restrict the kernel.
LEMMA HistoryOnly == RRNext => Next
  BY DEF RRNext, Switch, Next

LEMMA NextRRInv == RRInv /\ [RRNext]_rrvars => RRInv'
<1> SUFFICES ASSUME RRInv, [RRNext]_rrvars PROVE RRInv'
  OBVIOUS
<1>1. IInv'
  <2>1. [Next]_vars
    BY HistoryOnly DEF rrvars
  <2>2. QED
    BY <2>1, NextIInv DEF RRInv
<1>2. CASE Switch /\ PassedOver
  BY <1>1, <1>2, SwitchApproaches DEF RRInv
<1>3. CASE (init_process_table \/ init_ps2 \/ start_process \/ interrupt_enable) /\ NotPassed
  <2>1. mode' # "user" /\ Booting
    BY <1>3 DEF init_process_table, init_ps2, start_process, interrupt_enable, Booting, RRInv,
       IInv, TypeOK, Modes
  <2>2. QED
    BY <1>1, <1>3, <2>1, NotPassedStep DEF RRInv
<1>4. CASE (Instruction \/ fault_handler \/ syscall_lspci \/ syscall_lsproc
            \/ syscall_powerctl) /\ NotPassed
  <2>1. mode = "user" /\ mode' \in {"user", "panic", "off"} /\ UNCHANGED current_pid
    BY <1>4 DEF Instruction, fault_handler, syscall_lspci, syscall_lsproc, syscall_powerctl,
       Invokes
  <2>2. ~Booting' /\ mode' # "idle"
    BY <2>1 DEF Booting
  <2>3. QED
    BY <1>1, <1>4, <2>1, <2>2, NotPassedStep DEF RRInv
<1>5. CASE (irq_ps2 \/ irq_com1) /\ NotPassed
  <2>1. UNCHANGED <<mode, current_pid>>
    BY <1>5 DEF irq_ps2, irq_com1
  <2>2. Booting' <=> Booting
    BY <2>1 DEF Booting
  <2>3. QED
    BY <1>1, <1>5, <2>1, <2>2, NotPassedStep DEF RRInv
<1>6. CASE UNCHANGED rrvars
  BY <1>1, <1>6 DEF rrvars, vars, RRInv, PassedApproaches, Booting
<1>7. QED
  BY <1>2, <1>3, <1>4, <1>5, <1>6 DEF RRNext

\* Bounded overtaking (scheduler.c:72-81): a ready process gets the processor
\* after at most MAX_PROCESSES - 1 turns of others, for any size of the table.
THEOREM OvertakingBounded == RRSpec => []BoundedOvertaking
<1>1. RRInv => BoundedOvertaking
  BY DEF RRInv, PassedApproaches, BoundedOvertaking
<1>2. QED
  BY <1>1, InitRRInv, NextRRInv, PTL DEF RRSpec

-----------------------------------------------------------------------------
(* The invariant of the programs. *)

Live(p) == task_state[p] # TASKSTATE_unused

\* Where a process continues after its int $0x80, and the number it loaded.
Traps == {<<RZ_ACQUIRE, SYSCALL_yield>>, <<DZ_GETC, SYSCALL_yield>>,
          <<DZ_ACQUIRE, SYSCALL_getc>>, <<DZ_LSPCI, SYSCALL_lspci>>,
          <<DZ_LSPROC, SYSCALL_lsproc>>, <<DZ_OUTPUT, SYSCALL_powerctl>>}

\* Registers r, trap t and state s of a live process: it is at a label of its
\* program, is blocked only in getc, and finds a count in eax after a listing.
Consistent(r, t, s) ==
  /\ r.eip \in Labels
  /\ t => <<r.eip, r.eax>> \in Traps
  /\ ~t /\ r.eip \in {DZ_LSPCI, DZ_LSPROC} => r.eax \in Nat
  /\ s = TASKSTATE_blocked => r.eip = DZ_ACQUIRE /\ ~t

Holds(p, k) == Live(p) /\ FileOf(p).eip \in Inside(k)

LockNames == {"lock", "lock2"}

\* Nobody is inside a lock that is free, one process inside a lock that is taken.
LockInv(k) ==
  \/ locks[k] = 0 /\ \A p \in Pids : ~Holds(p, k)
  \/ locks[k] = 1 /\ \E p \in Pids : \A q \in Pids : Holds(q, k) <=> q = p

TPTypes ==
  /\ locks \in [LockNames -> {0, 1}]
  /\ trap \in [Pids -> BOOLEAN]

ProcessesConsistent ==
  \A p \in Pids : IF Live(p) THEN Consistent(FileOf(p), trap[p], task_state[p])
                  ELSE trap[p] = FALSE

TPInv ==
  /\ IInv
  /\ TPTypes
  /\ ProcessesConsistent
  /\ \A k \in LockNames : LockInv(k)

-----------------------------------------------------------------------------
(* Labels. *)

\* The program counters inside printf's lock and inside the programs' lock.
LEMMA InsideLabels ==
  ASSUME NEW l \in Nat
  PROVE  /\ l \in Inside("lock") <=> l \in {21, 23, 25, 27, 29}
         /\ l \in Inside("lock2") <=> l \in {2, 3, 5, 6} \cup (10 .. 15) \cup (22 .. 29)
<1>1. l \in Inside("lock") <=> l \in {21, 23, 25, 27, 29}
  BY DEF Inside, Prints, DAZZLE, DZ_ECHO, DZ_NEWLINE, DZ_LINE, DZ_PROMPT
<1>2. l \in Inside("lock2") <=> l \in {2, 3, 5, 6} \cup (10 .. 15) \cup (22 .. 29)
  BY DEF Inside, Prints, DAZZLE, DZ_ECHO, DZ_NEWLINE, DZ_LINE, DZ_PROMPT, DZ_SWITCH,
     DZ_RELEASE, RZ_CLEAR, RZ_RELEASE_1, RZ_COUNT, RZ_RELEASE
<1> QED
  BY <1>1, <1>2

\* All program counters.
LEMMA LabelRange ==
  \A l : l \in Labels <=> l \in (1 .. 16) \cup (20 .. 29)
<1>1. \A l \in Int : l \in Labels <=> l \in (1 .. 16) \cup (20 .. 29)
  BY DEF Labels, Prints, DAZZLE, DZ_ECHO, DZ_NEWLINE, DZ_LINE, DZ_PROMPT, RAZZLE, DZ_YIELD
<1>2. \A l : l \in Labels => l \in Int
  BY DEF Labels, Prints, DAZZLE, DZ_ECHO, DZ_NEWLINE, DZ_LINE, DZ_PROMPT, RAZZLE, DZ_YIELD
<1> QED
  BY <1>1, <1>2

-----------------------------------------------------------------------------
(* Steps of the kernel. *)

\* Switching leaves every process the registers it had, in the processor or in
\* the table (store_registers and the restore in schedule).
LEMMA FilesKept ==
  ASSUME TypeOK, NEW st \in [Pids -> TaskStates], schedule(st)
  PROVE  \A p \in Pids : FileOf(p)' = FileOf(p)
<1> DEFINE S == StoredRegisters
<1>1. \A p \in Pids : S[p] = FileOf(p)
  BY StoredType DEF FileOf
<1>2. registers' = S
  BY DEF schedule
<1>3. CASE \E p \in Pids : st[p] = TASKSTATE_ready
  <2>1. cpu' = S[current_pid']
    BY <1>3 DEF schedule
  <2> HIDE DEF S
  <2> QED
    BY <1>1, <1>2, <2>1 DEF FileOf
<1>4. CASE ~ \E p \in Pids : st[p] = TASKSTATE_ready
  <2>1. UNCHANGED <<current_pid, cpu>>
    BY <1>4 DEF schedule
  <2> HIDE DEF S
  <2> QED
    BY <1>1, <1>2, <2>1 DEF FileOf
<1> QED
  BY <1>3, <1>4

\* A step that moves no process and takes no lock keeps the locks as they are.
LEMMA LocksKept ==
  ASSUME NEW k \in LockNames, LockInv(k), locks' = locks,
         \A p \in Pids : Holds(p, k)' <=> Holds(p, k)
  PROVE  LockInv(k)'
  BY DEF LockInv

\* What a step of the running process does to a lock, seen from its counter.
LEMMA LockStep ==
  ASSUME TPInv, NEW k \in LockNames, mode = "user",
         UNCHANGED <<task_state, registers, current_pid>>,
         \/ locks'[k] = locks[k] /\ (cpu.eip \in Inside(k) <=> cpu'.eip \in Inside(k))
         \/ locks[k] = 0 /\ locks'[k] = 1 /\ cpu'.eip \in Inside(k)
         \/ cpu.eip \in Inside(k) /\ locks'[k] = 0 /\ cpu'.eip \notin Inside(k)
  PROVE  LockInv(k)'
<1> DEFINE c == current_pid
<1>1. c \in Pids /\ Live(c) /\ FileOf(c) = cpu /\ FileOf(c)' = cpu'
  BY DEF TPInv, IInv, RunningIsReady, Live, FileOf, TASKSTATE_ready, TASKSTATE_unused
<1>2. \A p \in Pids : p # c => (Holds(p, k)' <=> Holds(p, k))
  BY DEF Holds, Live, FileOf
<1>3. (Holds(c, k) <=> cpu.eip \in Inside(k)) /\ (Holds(c, k)' <=> cpu'.eip \in Inside(k))
  BY <1>1 DEF Holds, Live
<1>4. LockInv(k) /\ c' = c
  BY DEF TPInv
<1> HIDE DEF c
<1>5. CASE locks'[k] = locks[k] /\ (cpu.eip \in Inside(k) <=> cpu'.eip \in Inside(k))
  <2>1. \A p \in Pids : Holds(p, k)' <=> Holds(p, k)
    BY <1>2, <1>3, <1>4, <1>5
  <2> QED
    BY <1>4, <1>5, <2>1 DEF LockInv
<1>6. CASE locks[k] = 0 /\ locks'[k] = 1 /\ cpu'.eip \in Inside(k)
  <2>1. \A p \in Pids : Holds(p, k)' <=> p = c
    BY <1>2, <1>3, <1>4, <1>6 DEF LockInv
  <2> QED
    BY <1>1, <1>6, <2>1 DEF LockInv
<1>7. CASE cpu.eip \in Inside(k) /\ locks'[k] = 0 /\ cpu'.eip \notin Inside(k)
  <2>1. \A p \in Pids : Holds(p, k) <=> p = c
    BY <1>1, <1>3, <1>4, <1>7 DEF LockInv
  <2>2. \A p \in Pids : ~Holds(p, k)'
    BY <1>2, <1>3, <1>4, <1>7, <2>1
  <2> QED
    BY <1>7, <2>2 DEF LockInv
<1> QED
  BY <1>5, <1>6, <1>7

\* A step that ends in schedule: everybody keeps the registers, so only trap and
\* the state of the caller have to be looked at.
LEMMA SwitchKeeps ==
  ASSUME TPInv, IInv', NEW st \in [Pids -> TaskStates], schedule(st),
         UNCHANGED locks, trap' \in [Pids -> BOOLEAN],
         \A p \in Pids : (st[p] = TASKSTATE_unused <=> task_state[p] = TASKSTATE_unused),
         \A p \in Pids : IF Live(p) THEN Consistent(FileOf(p), trap'[p], st[p])
                         ELSE trap'[p] = FALSE
  PROVE  TPInv'
<1>1. \A p \in Pids : FileOf(p)' = FileOf(p)
  BY FilesKept DEF TPInv, IInv
<1>2. task_state' = st
  BY DEF schedule
<1>3. \A p \in Pids : Live(p)' <=> Live(p)
  BY <1>2 DEF Live
<1>4. \A k \in LockNames : LockInv(k)'
  BY <1>1, <1>3, LocksKept DEF TPInv, Holds
<1>5. ProcessesConsistent'
  BY <1>1, <1>2, <1>3 DEF ProcessesConsistent
<1> QED
  BY <1>4, <1>5 DEF TPInv, TPTypes

\* A character changes no program counter, and eax only of those that wait in
\* getc.
LEMMA TypeKeeps ==
  ASSUME TPInv, Type
  PROVE  TPInv'
<1>1. IInv'
  BY NextIInv DEF Type, Next, TPInv
<1>2. PICK c \in Int : handle_keypress_char(c)
  BY SerialCharType, KernelAssumption DEF Type, irq_ps2, irq_com1
<1>3. UNCHANGED <<mode, task, current_pid, cpu, locks, trap>>
  BY DEF Type, irq_ps2, irq_com1, uservars
<1>4. TypeOK /\ BlockedHasWaiter /\ ProcessesConsistent
  BY DEF TPInv, IInv
<1>5. CASE c = 0
  <2>1. UNCHANGED <<task_state, registers>>
    BY <1>2, <1>5 DEF handle_keypress_char
  <2> QED
    BY <1>1, <1>3, <2>1 DEF TPInv, TPTypes, ProcessesConsistent, Live, LockInv, Holds, FileOf
<1>6. CASE c # 0
  <2>1. \A p \in Pids : /\ p \in WaitingPids <=> task_state[p] = TASKSTATE_blocked
                        /\ registers'[p] = IF p \in WaitingPids
                                            THEN [registers[p] EXCEPT !.eax = c] ELSE registers[p]
                        /\ task_state'[p] = IF p \in WaitingPids
                                            THEN TASKSTATE_ready ELSE task_state[p]
    BY <1>2, <1>4, <1>6, WaitingAreBlocked DEF handle_keypress_char
  <2>2. \A p \in Pids : Live(p)' <=> Live(p)
    BY <2>1 DEF Live, TASKSTATE_ready, TASKSTATE_unused, TASKSTATE_blocked
  <2>3. \A p \in Pids : FileOf(p)'.eip = FileOf(p).eip
    <3>1. \A p \in Pids : registers[p] \in Regs
      BY <1>4 DEF TypeOK
    <3>2. \A r \in Regs : [r EXCEPT !.eax = c].eip = r.eip
      BY DEF Regs
    <3>3. \A p \in Pids : registers'[p].eip = registers[p].eip
      BY <2>1, <3>1, <3>2
    <3> QED
      BY <1>3, <3>3 DEF FileOf
  <2>4. \A k \in LockNames : LockInv(k)'
    BY <1>3, <2>2, <2>3, LocksKept DEF TPInv, Holds
  <2>5. ASSUME NEW p \in Pids, Live(p)
        PROVE  Consistent(FileOf(p), trap[p], task_state[p])'
    <3>1. Consistent(FileOf(p), trap[p], task_state[p])
      BY <1>4, <2>5 DEF ProcessesConsistent
    <3>2. CASE p \in WaitingPids
      <4>1. FileOf(p).eip = DZ_ACQUIRE /\ ~trap[p]
        BY <2>1, <3>1, <3>2 DEF Consistent
      <4>2. FileOf(p)'.eip = DZ_ACQUIRE /\ ~trap'[p] /\ task_state'[p] = TASKSTATE_ready
        BY <1>3, <2>1, <2>3, <3>2, <4>1
      <4> QED
        BY <3>1, <4>1, <4>2 DEF Consistent, DZ_ACQUIRE, DZ_LSPCI, DZ_LSPROC, TASKSTATE_ready,
           TASKSTATE_blocked
    <3>3. CASE p \notin WaitingPids
      <4>1. FileOf(p)' = FileOf(p) /\ task_state'[p] = task_state[p] /\ trap'[p] = trap[p]
        BY <1>3, <2>1, <3>3 DEF FileOf
      <4> QED
        BY <3>1, <4>1
    <3> QED
      BY <3>2, <3>3
  <2>6. ProcessesConsistent'
    BY <1>3, <1>4, <2>2, <2>5 DEF ProcessesConsistent
  <2> QED
    BY <1>1, <1>3, <2>4, <2>6 DEF TPInv, TPTypes
<1> QED
  BY <1>5, <1>6

-----------------------------------------------------------------------------
(* Steps of the running program. *)

Plain == Labels \ {DZ_LSPCI, DZ_LSPROC}

\* A program continuing at l is inside the same locks as before.
SameLocks(l) == \A k \in LockNames : cpu.eip \in Inside(k) <=> l \in Inside(k)

SameOtherLock(k, l) == \A j \in LockNames \ {k} : cpu.eip \in Inside(j) <=> l \in Inside(j)

\* What there is to show of a step of the running process, which may
\* stop the machine.
LEMMA MachineStep ==
  ASSUME TPInv, mode = "user", mode' \in {"user", "panic", "off"}, cpu' \in Regs,
         UNCHANGED <<started, tablevars, current_pid, ps2_waiters>>,
         locks' \in [LockNames -> {0, 1}], NEW t \in BOOLEAN,
         trap' = [trap EXCEPT ![current_pid] = t],
         Consistent(cpu', t, TASKSTATE_ready),
         \A k \in LockNames :
           \/ locks'[k] = locks[k] /\ (cpu.eip \in Inside(k) <=> cpu'.eip \in Inside(k))
           \/ locks[k] = 0 /\ locks'[k] = 1 /\ cpu'.eip \in Inside(k)
           \/ cpu.eip \in Inside(k) /\ locks'[k] = 0 /\ cpu'.eip \notin Inside(k)
  PROVE  TPInv'
<1>1. UNCHANGED <<started, task_state, registers, task, current_pid, ps2_waiters>>
  BY DEF tablevars
<1>2. IInv'
  BY <1>1, LocalStep DEF TPInv, tablevars
<1>3. \A k \in LockNames : LockInv(k)'
  BY <1>1, LockStep
<1>4. current_pid \in Pids /\ task_state[current_pid] = TASKSTATE_ready /\ Live(current_pid)
  BY DEF TPInv, IInv, RunningIsReady, Live, TASKSTATE_ready, TASKSTATE_unused
<1>5. trap' \in [Pids -> BOOLEAN] /\ trap'[current_pid] = t
      /\ \A p \in Pids : p # current_pid => trap'[p] = trap[p]
  BY <1>4 DEF TPInv, TPTypes
<1>6. \A p \in Pids : p # current_pid => FileOf(p)' = FileOf(p)
  BY <1>1 DEF FileOf
<1>7. FileOf(current_pid)' = cpu' /\ current_pid' = current_pid
  BY <1>1 DEF FileOf
<1>8. \A p \in Pids : Live(p)' <=> Live(p)
  BY <1>1 DEF Live
<1>9. ProcessesConsistent'
  <2> SUFFICES ASSUME NEW p \in Pids
               PROVE  IF Live(p)' THEN Consistent(FileOf(p)', trap'[p], task_state'[p])
                      ELSE trap'[p] = FALSE
    BY DEF ProcessesConsistent
  <2>1. CASE p = current_pid
    BY <1>1, <1>4, <1>5, <1>7, <1>8, <2>1
  <2>2. CASE p # current_pid
    BY <1>1, <1>5, <1>6, <1>8, <2>2 DEF TPInv, ProcessesConsistent
  <2> QED
    BY <2>1, <2>2
<1> QED
  BY <1>2, <1>3, <1>5, <1>9 DEF TPInv, TPTypes

\* The same for a step that leaves the machine running.
LEMMA RunningStep ==
  ASSUME TPInv, mode = "user", UNCHANGED kernelvars, cpu' \in Regs,
         locks' \in [LockNames -> {0, 1}], NEW t \in BOOLEAN,
         trap' = [trap EXCEPT ![current_pid] = t],
         Consistent(cpu', t, TASKSTATE_ready),
         \A k \in LockNames :
           \/ locks'[k] = locks[k] /\ (cpu.eip \in Inside(k) <=> cpu'.eip \in Inside(k))
           \/ locks[k] = 0 /\ locks'[k] = 1 /\ cpu'.eip \in Inside(k)
           \/ cpu.eip \in Inside(k) /\ locks'[k] = 0 /\ cpu'.eip \notin Inside(k)
  PROVE  TPInv'
<1>1. /\ mode' \in {"user", "panic", "off"}
      /\ UNCHANGED <<started, tablevars, current_pid, ps2_waiters>>
  BY DEF kernelvars
<1> QED
  BY <1>1, MachineStep

\* At a label: who runs, and that it is not in a trap.
LEMMA AtLabel ==
  ASSUME TPInv, NEW l, At(l)
  PROVE  /\ mode = "user" /\ cpu \in Regs /\ cpu.eip = l /\ trap[current_pid] = FALSE
         /\ trap = [trap EXCEPT ![current_pid] = FALSE]
         /\ Consistent(cpu, FALSE, TASKSTATE_ready)
<1>1. mode = "user" /\ cpu \in Regs /\ cpu.eip = l
  BY DEF At, TPInv, IInv, TypeOK
<1>2. current_pid \in Pids /\ Live(current_pid) /\ task_state[current_pid] = TASKSTATE_ready
  BY <1>1 DEF TPInv, IInv, RunningIsReady, Live, TASKSTATE_ready, TASKSTATE_unused
<1>3. trap[current_pid] = FALSE
  BY <1>2 DEF At, TPInv, TPTypes
<1>4. trap = [trap EXCEPT ![current_pid] = FALSE]
  BY <1>2, <1>3 DEF TPInv, TPTypes
<1>5. FileOf(current_pid) = cpu
  BY DEF FileOf
<1>6. Consistent(cpu, FALSE, TASKSTATE_ready)
  BY <1>2, <1>3, <1>5 DEF TPInv, ProcessesConsistent
<1> QED
  BY <1>1, <1>3, <1>4, <1>6

\* Every program counter is an address.
LEMMA LabelsAreCode == Labels \subseteq Code
  BY TestProcessesAssumption

\* An instruction that takes no lock and goes on to l.
LEMMA MoveStep ==
  ASSUME TPInv, NEW a, At(a), UNCHANGED kernelvars, UNCHANGED <<locks, trap>>,
         cpu' \in Regs, NEW l \in Plain, cpu'.eip = l, SameLocks(l)
  PROVE  TPInv'
<1>1. Consistent(cpu', FALSE, TASKSTATE_ready)
  BY DEF Consistent, Plain, TASKSTATE_ready, TASKSTATE_blocked
<1>2. locks' \in [LockNames -> {0, 1}] /\ trap' = [trap EXCEPT ![current_pid] = FALSE]
  BY AtLabel DEF TPInv, TPTypes
<1> QED
  BY <1>1, <1>2, AtLabel, RunningStep DEF SameLocks

\* Goto changes eip only.
LEMMA GotoStep ==
  ASSUME cpu \in Regs, NEW l \in Labels, Goto(l)
  PROVE  cpu' \in Regs /\ cpu'.eip = l
<1>1. l \in Code
  BY LabelsAreCode
<1> QED
  BY <1>1 DEF Goto, Regs

\* A round of sl_acquire: the lock is free and this process enters, or it stays.
LEMMA AcquireStep ==
  ASSUME TPInv, NEW a, At(a), UNCHANGED kernelvars, UNCHANGED trap,
         NEW k \in LockNames, NEW l \in Plain, sl_acquire(k, l), l \in Inside(k),
         SameOtherLock(k, l)
  PROVE  TPInv'
<1>1. locks \in [LockNames -> {0, 1}] /\ trap' = [trap EXCEPT ![current_pid] = FALSE]
  BY AtLabel DEF TPInv, TPTypes
<1>2. CASE locks[k] = 0
  <2>1. locks' = [locks EXCEPT ![k] = 1] /\ Goto(l)
    BY <1>2 DEF sl_acquire
  <2>2. cpu' \in Regs /\ cpu'.eip = l
    BY <2>1, AtLabel, GotoStep DEF Plain
  <2>3. Consistent(cpu', FALSE, TASKSTATE_ready)
    BY <2>2 DEF Consistent, Plain, TASKSTATE_ready, TASKSTATE_blocked
  <2>4. locks' \in [LockNames -> {0, 1}] /\ locks'[k] = 1
        /\ \A j \in LockNames \ {k} : locks'[j] = locks[j]
    BY <1>1, <2>1
  <2> QED
    BY <1>1, <1>2, <2>2, <2>3, <2>4, AtLabel, RunningStep DEF SameOtherLock
<1>3. CASE locks[k] # 0
  <2>1. UNCHANGED <<locks, cpu>>
    BY <1>3 DEF sl_acquire
  <2> QED
    BY <1>1, <2>1, AtLabel, RunningStep
<1> QED
  BY <1>2, <1>3

\* sl_release by whoever is inside.
LEMMA ReleaseStep ==
  ASSUME TPInv, NEW a, At(a), UNCHANGED kernelvars, UNCHANGED trap,
         NEW k \in LockNames, NEW l \in Plain, sl_release(k, l),
         cpu.eip \in Inside(k), l \notin Inside(k),
         SameOtherLock(k, l)
  PROVE  TPInv'
<1>1. locks \in [LockNames -> {0, 1}] /\ trap' = [trap EXCEPT ![current_pid] = FALSE]
  BY AtLabel DEF TPInv, TPTypes
<1>2. locks' = [locks EXCEPT ![k] = 0] /\ Goto(l)
  BY DEF sl_release
<1>3. cpu' \in Regs /\ cpu'.eip = l
  BY <1>2, AtLabel, GotoStep DEF Plain
<1>4. Consistent(cpu', FALSE, TASKSTATE_ready)
  BY <1>3 DEF Consistent, Plain, TASKSTATE_ready, TASKSTATE_blocked
<1>5. locks' \in [LockNames -> {0, 1}] /\ locks'[k] = 0
      /\ \A j \in LockNames \ {k} : locks'[j] = locks[j]
  BY <1>1, <1>2
<1> QED
  BY <1>1, <1>3, <1>4, <1>5, AtLabel, RunningStep DEF SameOtherLock

\* INVOKE_SYSCALL up to its int.
LEMMA LoadStep ==
  ASSUME TPInv, NEW a, At(a), UNCHANGED kernelvars, UNCHANGED locks,
         NEW n \in Int, NEW ecx \in Nat, NEW l \in Labels, Load(n, ecx, l),
         <<l, n>> \in Traps, SameLocks(l)
  PROVE  TPInv'
<1>1. l \in Code
  BY LabelsAreCode
<1>2. cpu' = [eax |-> n, ecx |-> ecx, eip |-> l] /\ trap' = [trap EXCEPT ![current_pid] = TRUE]
  BY DEF Load
<1>3. cpu' \in Regs /\ cpu'.eip = l
  BY <1>1, <1>2 DEF Regs
<1>4. Consistent(cpu', TRUE, TASKSTATE_ready)
  BY <1>2 DEF Consistent, TASKSTATE_ready, TASKSTATE_blocked
<1>5. locks' \in [LockNames -> {0, 1}]
  BY DEF TPInv, TPTypes
<1> QED
  BY <1>2, <1>3, <1>4, <1>5, AtLabel, RunningStep DEF SameLocks

\* Which locks the labels are inside of, in the form the cases below use it.
LEMMA InsideTable ==
  /\ \A l \in {1, 4, 7, 8, 9, 16, 20, 21} : l \notin Inside("lock2")
  /\ \A l \in {2, 3, 5, 6, 10, 11, 12, 13, 14, 15} \cup (22 .. 29) : l \in Inside("lock2")
  /\ \A l \in (1 .. 16) \cup {20, 22, 24, 26, 28} : l \notin Inside("lock")
  /\ \A l \in {21, 23, 25, 27, 29} : l \in Inside("lock")
  /\ \A l \in (1 .. 11) \cup (14 .. 16) \cup (20 .. 29) : l \in Plain
  BY InsideLabels, LabelRange DEF Plain, DZ_LSPCI, DZ_LSPROC

\* test_razzle enters and leaves lock2 twice.
LEMMA RazzleKeeps ==
  ASSUME TPInv, test_razzle, UNCHANGED kernelvars
  PROVE  TPInv'
<1>1. \A l \in {RAZZLE, RZ_ACQUIRE, RZ_YIELD} :
        l \in Plain /\ l \notin Inside("lock") /\ l \notin Inside("lock2")
  BY InsideTable DEF RAZZLE, RZ_ACQUIRE, RZ_YIELD
<1>2. \A l \in {RZ_CLEAR, RZ_RELEASE_1, RZ_COUNT, RZ_RELEASE} :
        l \in Plain /\ l \notin Inside("lock") /\ l \in Inside("lock2")
  BY InsideTable DEF RZ_CLEAR, RZ_RELEASE_1, RZ_COUNT, RZ_RELEASE
<1>3. "lock" \in LockNames /\ "lock2" \in LockNames /\ LockNames \ {"lock2"} = {"lock"}
  BY DEF LockNames
<1>4. CASE At(RAZZLE) /\ sl_acquire("lock2", RZ_CLEAR) /\ UNCHANGED trap
  <2>1. cpu.eip = RAZZLE /\ SameOtherLock("lock2", RZ_CLEAR)
    BY <1>1, <1>2, <1>3, <1>4, AtLabel DEF SameOtherLock
  <2> QED
    BY <1>1, <1>2, <1>3, <1>4, <2>1, AcquireStep
<1>5. CASE At(RZ_CLEAR) /\ Goto(RZ_RELEASE_1) /\ UNCHANGED <<locks, trap>>
  <2>1. cpu \in Regs /\ cpu.eip = RZ_CLEAR /\ SameLocks(RZ_RELEASE_1)
    BY <1>1, <1>2, <1>5, AtLabel DEF SameLocks, LockNames
  <2> QED
    BY <1>1, <1>2, <1>5, <2>1, GotoStep, MoveStep DEF Plain
<1>6. CASE At(RZ_RELEASE_1) /\ sl_release("lock2", RZ_ACQUIRE) /\ UNCHANGED trap
  <2>1. cpu.eip = RZ_RELEASE_1 /\ SameOtherLock("lock2", RZ_ACQUIRE)
    BY <1>1, <1>2, <1>3, <1>6, AtLabel DEF SameOtherLock
  <2> QED
    BY <1>1, <1>2, <1>3, <1>6, <2>1, ReleaseStep
<1>7. CASE At(RZ_ACQUIRE) /\ sl_acquire("lock2", RZ_COUNT) /\ UNCHANGED trap
  <2>1. cpu.eip = RZ_ACQUIRE /\ SameOtherLock("lock2", RZ_COUNT)
    BY <1>1, <1>2, <1>3, <1>7, AtLabel DEF SameOtherLock
  <2> QED
    BY <1>1, <1>2, <1>3, <1>7, <2>1, AcquireStep
<1>8. CASE At(RZ_COUNT) /\ Goto(RZ_RELEASE) /\ UNCHANGED <<locks, trap>>
  <2>1. cpu \in Regs /\ cpu.eip = RZ_COUNT /\ SameLocks(RZ_RELEASE)
    BY <1>1, <1>2, <1>8, AtLabel DEF SameLocks, LockNames
  <2> QED
    BY <1>1, <1>2, <1>8, <2>1, GotoStep, MoveStep DEF Plain
<1>9. CASE At(RZ_RELEASE) /\ sl_release("lock2", RZ_YIELD) /\ UNCHANGED trap
  <2>1. cpu.eip = RZ_RELEASE /\ SameOtherLock("lock2", RZ_YIELD)
    BY <1>1, <1>2, <1>3, <1>9, AtLabel DEF SameOtherLock
  <2> QED
    BY <1>1, <1>2, <1>3, <1>9, <2>1, ReleaseStep
<1>10. CASE At(RZ_YIELD) /\ Load(SYSCALL_yield, cpu.ecx, RZ_ACQUIRE) /\ UNCHANGED locks
  <2>1. cpu \in Regs /\ cpu.eip = RZ_YIELD /\ SameLocks(RZ_ACQUIRE)
    BY <1>1, <1>2, <1>10, AtLabel DEF SameLocks, LockNames
  <2>2. <<RZ_ACQUIRE, SYSCALL_yield>> \in Traps /\ SYSCALL_yield \in Int /\ cpu.ecx \in Nat
    BY <2>1 DEF Traps, SYSCALL_yield, Regs
  <2> QED
    BY <1>1, <1>10, <2>1, <2>2, LoadStep DEF Plain
<1> QED
  BY <1>4, <1>5, <1>6, <1>7, <1>8, <1>9, <1>10 DEF test_razzle

\* A call of printf enters and leaves lock, and stays inside of lock2 or outside.
LEMMA PrintLabels ==
  ASSUME NEW l \in Prints
  PROVE  /\ l + 1 \in Plain /\ l + 1 \in Inside("lock")
         /\ AfterPrint(l) \in Plain /\ AfterPrint(l) \notin Inside("lock")
         /\ l + 1 \in Inside("lock2") <=> l \in Inside("lock2")
         /\ AfterPrint(l) \in Inside("lock2") <=> l + 1 \in Inside("lock2")
<1> DEFINE In2 == {2, 3, 5, 6, 10, 11, 12, 13, 14, 15} \cup (22 .. 29)
<1>1. l \in {20, 22, 24, 26, 28}
  BY DEF Prints, DAZZLE, DZ_ECHO, DZ_NEWLINE, DZ_LINE, DZ_PROMPT
<1>2. AfterPrint(l) = CASE l = 20 -> 8 [] l = 22 -> 15 [] l = 24 -> 11 [] l = 26 -> 14 [] l = 28 -> 15
  BY DEF AfterPrint, DAZZLE, DZ_ECHO, DZ_NEWLINE, DZ_LINE, DZ_PROMPT, DZ_GETC, DZ_RELEASE,
     DZ_COMMAND, DZ_OUTPUT
<1>3. CASE l = 20
  <2>1. l + 1 = 21 /\ AfterPrint(l) = 8
    BY <1>2, <1>3
  <2> QED
    BY <1>3, <2>1, InsideTable
<1>4. CASE l # 20
  <2>1. l \in 22 .. 28 /\ l + 1 \in {23, 25, 27, 29} /\ AfterPrint(l) \in {11, 14, 15}
    BY <1>1, <1>2, <1>4
  <2> QED
    BY <2>1, InsideTable
<1> QED
  BY <1>3, <1>4

\* Both halves of a printf.
LEMMA PrintfKeeps ==
  ASSUME TPInv, printf, UNCHANGED kernelvars
  PROVE  TPInv'
<1>1. "lock" \in LockNames /\ LockNames \ {"lock"} = {"lock2"}
  BY DEF LockNames
<1>2. PICK l \in Prints :
        /\ \/ At(l) /\ sl_acquire("lock", l + 1)
           \/ At(l + 1) /\ sl_release("lock", AfterPrint(l))
        /\ UNCHANGED trap
  BY DEF printf
<1>3. CASE At(l) /\ sl_acquire("lock", l + 1)
  <2>1. SameOtherLock("lock", l + 1)
    BY <1>1, <1>3, AtLabel, PrintLabels, ZenonT(40) DEF SameOtherLock
  <2> QED
    BY <1>1, <1>2, <1>3, <2>1, PrintLabels, AcquireStep
<1>4. CASE At(l + 1) /\ sl_release("lock", AfterPrint(l))
  <2>1. cpu.eip = l + 1
    BY <1>4, AtLabel, Zenon
  <2>2. SameOtherLock("lock", AfterPrint(l))
    BY <1>1, <2>1, PrintLabels DEF SameOtherLock
  <2>3. cpu.eip \in Inside("lock") /\ AfterPrint(l) \notin Inside("lock") /\ AfterPrint(l) \in Plain
    BY <2>1, PrintLabels
  <2> QED
    BY <1>1, <1>2, <1>4, <2>2, <2>3, ReleaseStep, Zenon
<1> QED
  BY <1>2, <1>3, <1>4

\* test_dazzle is inside of lock2 from its acquisition after getc to its release.
LEMMA DazzleKeeps ==
  ASSUME TPInv, test_dazzle, UNCHANGED kernelvars
  PROVE  TPInv'
<1>1. \A l \in {DZ_GETC, DZ_ACQUIRE, DZ_YIELD} :
        l \in Plain /\ l \notin Inside("lock") /\ l \notin Inside("lock2")
  BY InsideTable DEF DZ_GETC, DZ_ACQUIRE, DZ_YIELD
<1>2. \A l \in {DZ_SWITCH, DZ_COMMAND, DZ_OUTPUT, DZ_RELEASE, DZ_ECHO, DZ_NEWLINE, DZ_LINE, DZ_PROMPT} :
        l \in Plain /\ l \notin Inside("lock") /\ l \in Inside("lock2")
  BY InsideTable DEF DZ_SWITCH, DZ_COMMAND, DZ_OUTPUT, DZ_RELEASE, DZ_ECHO, DZ_NEWLINE,
     DZ_LINE, DZ_PROMPT
<1>3. \A l \in {DZ_LSPCI, DZ_LSPROC} : l \in Labels /\ l \notin Inside("lock") /\ l \in Inside("lock2")
  BY InsideTable, LabelRange DEF DZ_LSPCI, DZ_LSPROC
<1>4. "lock" \in LockNames /\ "lock2" \in LockNames /\ LockNames \ {"lock2"} = {"lock"}
      /\ LockNames = {"lock", "lock2"}
  BY DEF LockNames
<1>5. \A l \in Plain : l \in Labels /\ l \in Code
  BY LabelsAreCode DEF Plain
<1>6. CASE printf
  BY <1>6, PrintfKeeps
<1>7. CASE At(DZ_GETC) /\ Load(SYSCALL_getc, cpu.ecx, DZ_ACQUIRE) /\ UNCHANGED locks
  <2>1. cpu \in Regs /\ cpu.eip = DZ_GETC /\ SameLocks(DZ_ACQUIRE)
    BY <1>1, <1>4, <1>7, AtLabel DEF SameLocks
  <2>2. <<DZ_ACQUIRE, SYSCALL_getc>> \in Traps /\ SYSCALL_getc \in Int /\ cpu.ecx \in Nat
    BY <2>1 DEF Traps, SYSCALL_getc, Regs
  <2> QED
    BY <1>1, <1>5, <1>7, <2>1, <2>2, LoadStep
<1>8. CASE At(DZ_ACQUIRE) /\ sl_acquire("lock2", DZ_SWITCH) /\ UNCHANGED trap
  <2>1. cpu.eip = DZ_ACQUIRE /\ SameOtherLock("lock2", DZ_SWITCH)
    BY <1>1, <1>2, <1>4, <1>8, AtLabel DEF SameOtherLock
  <2> QED
    BY <1>1, <1>2, <1>4, <1>8, <2>1, AcquireStep
<1>9. CASE DazzleSwitch
  <2>1. At(DZ_SWITCH) /\ UNCHANGED <<locks, trap>>
    BY <1>9 DEF DazzleSwitch
  <2>2. PICK l \in {DZ_RELEASE, DZ_ECHO, DZ_NEWLINE} : Goto(l)
    BY <1>9 DEF DazzleSwitch
  <2>3. cpu \in Regs /\ cpu.eip = DZ_SWITCH /\ l \in Plain /\ SameLocks(l)
    BY <1>2, <1>4, <2>1, AtLabel DEF SameLocks
  <2> QED
    BY <1>5, <2>1, <2>2, <2>3, GotoStep, MoveStep
<1>10. CASE DazzleCommand
  <2>1. At(DZ_COMMAND) /\ UNCHANGED locks
    BY <1>10 DEF DazzleCommand
  <2>2. cpu \in Regs /\ cpu.eip = DZ_COMMAND
        /\ SameLocks(DZ_LSPCI) /\ SameLocks(DZ_LSPROC) /\ SameLocks(DZ_OUTPUT)
    BY <1>2, <1>3, <1>4, <2>1, AtLabel DEF SameLocks
  <2>3. /\ <<DZ_LSPCI, SYSCALL_lspci>> \in Traps /\ SYSCALL_lspci \in Int
        /\ <<DZ_LSPROC, SYSCALL_lsproc>> \in Traps /\ SYSCALL_lsproc \in Int
        /\ <<DZ_OUTPUT, SYSCALL_powerctl>> \in Traps /\ SYSCALL_powerctl \in Int
    BY DEF Traps, SYSCALL_lspci, SYSCALL_lsproc, SYSCALL_powerctl
  <2>4. CASE Load(SYSCALL_lspci, 7, DZ_LSPCI)
    BY <1>3, <2>1, <2>2, <2>3, <2>4, LoadStep
  <2>5. CASE Load(SYSCALL_lsproc, 7, DZ_LSPROC)
    BY <1>3, <2>1, <2>2, <2>3, <2>5, LoadStep
  <2>6. CASE Load(SYSCALL_powerctl, 1, DZ_OUTPUT)
    BY <1>2, <1>5, <2>1, <2>2, <2>3, <2>6, LoadStep
  <2>7. CASE (\E n \in {1, 8} : cpu' = [cpu EXCEPT !.ecx = n, !.eip = DZ_OUTPUT]) /\ UNCHANGED trap
    <3>1. cpu' \in Regs /\ cpu'.eip = DZ_OUTPUT
      <4>1. PICK n \in Nat : cpu' = [cpu EXCEPT !.ecx = n, !.eip = DZ_OUTPUT]
        BY <2>7
      <4>2. DZ_OUTPUT \in Code
        BY <1>2, <1>5
      <4> QED
        BY <2>2, <4>1, <4>2 DEF Regs
    <3> QED
      BY <1>2, <2>1, <2>2, <2>7, <3>1, MoveStep
  <2> QED
    BY <1>10, <2>4, <2>5, <2>6, <2>7 DEF DazzleCommand
<1>11. CASE DazzleListing
  <2>1. PICK a \in {DZ_LSPCI, DZ_LSPROC}, n \in {3, 4} :
          At(a) /\ cpu' = [cpu EXCEPT !.ecx = n * cpu.eax, !.eip = DZ_OUTPUT]
    BY <1>11 DEF DazzleListing
  <2>2. UNCHANGED <<locks, trap>>
    BY <1>11 DEF DazzleListing
  <2>3. cpu \in Regs /\ cpu.eip = a /\ SameLocks(DZ_OUTPUT)
    BY <1>2, <1>3, <1>4, <2>1, AtLabel DEF SameLocks
  <2>4. cpu.eax \in Nat
    BY <2>1, <2>3, AtLabel DEF Consistent
  <2>5. n * cpu.eax \in Nat
    BY <2>1, <2>4
  <2>6. cpu' \in Regs /\ cpu'.eip = DZ_OUTPUT
    BY <1>2, <1>5, <2>1, <2>3, <2>5 DEF Regs
  <2> QED
    BY <1>2, <2>1, <2>2, <2>3, <2>6, MoveStep
<1>12. CASE DazzleOutput
  <2>1. At(DZ_OUTPUT) /\ UNCHANGED <<locks, trap>>
    BY <1>12 DEF DazzleOutput
  <2>2. cpu \in Regs /\ cpu.eip = DZ_OUTPUT /\ SameLocks(DZ_PROMPT) /\ SameLocks(DZ_LINE)
    BY <1>2, <1>4, <2>1, AtLabel DEF SameLocks
  <2>3. CASE cpu.ecx = 0
    BY <1>2, <1>5, <1>12, <2>1, <2>2, <2>3, GotoStep, MoveStep DEF DazzleOutput
  <2>4. CASE cpu.ecx # 0
    <3>1. cpu' = [cpu EXCEPT !.ecx = cpu.ecx - 1, !.eip = DZ_LINE]
      BY <1>12, <2>4 DEF DazzleOutput
    <3>2. cpu.ecx - 1 \in Nat
      BY <2>2, <2>4 DEF Regs
    <3>3. cpu' \in Regs /\ cpu'.eip = DZ_LINE
      BY <1>2, <1>5, <2>2, <3>1, <3>2 DEF Regs
    <3> QED
      BY <1>2, <2>1, <2>2, <3>3, MoveStep
  <2> QED
    BY <2>3, <2>4
<1>13. CASE At(DZ_RELEASE) /\ sl_release("lock2", DZ_YIELD) /\ UNCHANGED trap
  <2>1. cpu.eip = DZ_RELEASE /\ SameOtherLock("lock2", DZ_YIELD)
    BY <1>1, <1>2, <1>4, <1>13, AtLabel DEF SameOtherLock
  <2> QED
    BY <1>1, <1>2, <1>4, <1>13, <2>1, ReleaseStep
<1>14. CASE At(DZ_YIELD) /\ Load(SYSCALL_yield, cpu.ecx, DZ_GETC) /\ UNCHANGED locks
  <2>1. cpu \in Regs /\ cpu.eip = DZ_YIELD /\ SameLocks(DZ_GETC)
    BY <1>1, <1>4, <1>14, AtLabel DEF SameLocks
  <2>2. <<DZ_GETC, SYSCALL_yield>> \in Traps /\ SYSCALL_yield \in Int /\ cpu.ecx \in Nat
    BY <2>1 DEF Traps, SYSCALL_yield, Regs
  <2> QED
    BY <1>1, <1>5, <1>14, <2>1, <2>2, LoadStep
<1> QED
  BY <1>6, <1>7, <1>8, <1>9, <1>10, <1>11, <1>12, <1>13, <1>14 DEF test_dazzle

\* The programs between two handlers.
LEMMA ExecuteKeeps ==
  ASSUME TPInv, Execute
  PROVE  TPInv'
  BY RazzleKeeps, DazzleKeeps DEF Execute

-----------------------------------------------------------------------------
(* System calls, the timer and the start of the programs. *)

\* The running process at its int $0x80: the number in eax fits the place it
\* returns to, and the return clears the trap.
LEMMA Trapped ==
  ASSUME TPInv, Syscall
  PROVE  /\ mode = "user" /\ current_pid \in Pids /\ Live(current_pid)
         /\ task_state[current_pid] = TASKSTATE_ready
         /\ FileOf(current_pid) = cpu /\ cpu \in Regs /\ cpu.eip \in Labels
         /\ <<cpu.eip, cpu.eax>> \in Traps
         /\ trap' = [trap EXCEPT ![current_pid] = FALSE] /\ trap' \in [Pids -> BOOLEAN]
         /\ \A p \in Pids : trap'[p] = IF p = current_pid THEN FALSE ELSE trap[p]
<1>1. mode = "user" /\ trap[current_pid] /\ trap' = [trap EXCEPT ![current_pid] = FALSE]
  BY DEF Syscall
<1>2. current_pid \in Pids /\ Live(current_pid) /\ task_state[current_pid] = TASKSTATE_ready
  BY <1>1 DEF TPInv, IInv, RunningIsReady, Live, TASKSTATE_ready, TASKSTATE_unused
<1>3. FileOf(current_pid) = cpu /\ cpu \in Regs
  BY DEF FileOf, TPInv, IInv, TypeOK
<1>4. Consistent(cpu, trap[current_pid], TASKSTATE_ready)
  BY <1>2, <1>3 DEF TPInv, ProcessesConsistent
<1>5. trap' \in [Pids -> BOOLEAN]
      /\ \A p \in Pids : trap'[p] = IF p = current_pid THEN FALSE ELSE trap[p]
  BY <1>1, <1>2 DEF TPInv, TPTypes
<1> QED
  BY <1>1, <1>2, <1>3, <1>4, <1>5 DEF Consistent

\* yield and getc switch, the others answer or stop the machine.
LEMMA SyscallKeeps ==
  ASSUME TPInv, Syscall
  PROVE  TPInv'
<1> DEFINE c == current_pid
<1>1. UNCHANGED locks /\ locks' \in [LockNames -> {0, 1}]
  BY DEF Syscall, TPInv, TPTypes
<1>2. TypeOK /\ IInv
  BY DEF TPInv, IInv
<1>3. \A p \in Pids : IF Live(p) THEN Consistent(FileOf(p), trap[p], task_state[p]) ELSE trap[p] = FALSE
  BY DEF TPInv, ProcessesConsistent
<1>4. CASE syscall_yield
  <2>1. cpu.eax = SYSCALL_yield /\ schedule(task_state)
    BY <1>4 DEF syscall_yield, Invokes
  <2>2. IInv' /\ task_state \in [Pids -> TaskStates]
    BY <1>2, <1>4, SwitchStep DEF TypeOK
  <2>3. Consistent(cpu, FALSE, TASKSTATE_ready)
    BY <2>1, Trapped DEF Consistent, SYSCALL_yield, TASKSTATE_ready, TASKSTATE_blocked
  <2>4. \A p \in Pids : IF Live(p) THEN Consistent(FileOf(p), trap'[p], task_state[p])
                        ELSE trap'[p] = FALSE
    BY <1>3, <2>3, Trapped
  <2> QED
    BY <1>1, <2>1, <2>2, <2>4, Trapped, SwitchKeeps
<1>5. CASE syscall_getc
  <2> DEFINE st == [task_state EXCEPT ![c] = TASKSTATE_blocked]
  <2>1. cpu.eax = SYSCALL_getc /\ schedule(st)
    BY <1>5 DEF syscall_getc, Invokes
  <2>2. IInv' /\ st \in [Pids -> TaskStates]
    BY <1>2, <1>5, GetcStep DEF TypeOK, TaskStates
  <2>3. cpu.eip = DZ_ACQUIRE
    BY <2>1, Trapped DEF Traps, SYSCALL_yield, SYSCALL_getc, SYSCALL_lspci, SYSCALL_lsproc,
       SYSCALL_powerctl
  <2>4. Consistent(cpu, FALSE, TASKSTATE_blocked)
    BY <2>3, Trapped DEF Consistent, DZ_ACQUIRE, DZ_LSPCI, DZ_LSPROC
  <2>5. \A p \in Pids : st[p] = IF p = c THEN TASKSTATE_blocked ELSE task_state[p]
    BY <1>2 DEF TypeOK
  <2>6. \A p \in Pids : st[p] = TASKSTATE_unused <=> task_state[p] = TASKSTATE_unused
    BY <2>5, Trapped DEF Live, TASKSTATE_blocked, TASKSTATE_unused
  <2>7. \A p \in Pids : IF Live(p) THEN Consistent(FileOf(p), trap'[p], st[p])
                        ELSE trap'[p] = FALSE
    BY <1>3, <2>4, <2>5, Trapped
  <2> HIDE DEF st
  <2> QED
    BY <1>1, <2>1, <2>2, <2>6, <2>7, Trapped, SwitchKeeps
<1>6. CASE syscall_lspci \/ syscall_lsproc
  <2>1. PICK n \in Nat : cpu' = [cpu EXCEPT !.eax = Written(n)]
    BY <1>6, LiveCount, KernelAssumption DEF syscall_lspci, syscall_lsproc
  <2>2. Written(n) \in Nat
    BY <1>2 DEF Written, TypeOK, Regs
  <2>3. cpu' \in Regs /\ cpu'.eip = cpu.eip /\ cpu'.eax = Written(n)
    BY <2>1, <2>2, Trapped DEF Regs
  <2>4. Consistent(cpu', FALSE, TASKSTATE_ready)
    BY <2>2, <2>3, Trapped DEF Consistent, TASKSTATE_ready, TASKSTATE_blocked
  <2>5. UNCHANGED kernelvars
    BY <1>6 DEF syscall_lspci, syscall_lsproc, kernelvars
  <2> QED
    BY <1>1, <2>3, <2>4, <2>5, Trapped, RunningStep
<1>7. CASE syscall_powerctl
  <2>1. cpu.eax = SYSCALL_powerctl /\ mode' \in {"user", "panic", "off"} /\ cpu' = cpu
        /\ UNCHANGED <<started, tablevars, current_pid, ps2_waiters>>
    BY <1>7 DEF syscall_powerctl, Invokes
  <2>2. Consistent(cpu', FALSE, TASKSTATE_ready)
    BY <2>1, Trapped DEF Consistent, SYSCALL_powerctl, TASKSTATE_ready, TASKSTATE_blocked
  <2> QED
    BY <1>1, <2>1, <2>2, Trapped, MachineStep
<1> QED
  BY <1>4, <1>5, <1>6, <1>7 DEF Syscall

\* The timer preempts whoever runs, inside of a lock too.
LEMMA TickKeeps ==
  ASSUME TPInv, Tick
  PROVE  TPInv'
<1>1. schedule(task_state) /\ UNCHANGED <<locks, trap>>
  BY DEF Tick, irq_pit
<1>2. IInv' /\ task_state \in [Pids -> TaskStates]
  BY SwitchStep DEF Tick, TPInv, IInv, TypeOK
<1>3. trap' \in [Pids -> BOOLEAN]
      /\ \A p \in Pids : IF Live(p) THEN Consistent(FileOf(p), trap'[p], task_state[p])
                         ELSE trap'[p] = FALSE
  BY <1>1 DEF TPInv, TPTypes, ProcessesConsistent
<1> QED
  BY <1>1, <1>2, <1>3, SwitchKeeps

\* A step that changes neither the table nor the processor's registers.
LEMMA TableKept ==
  ASSUME TPInv, IInv', UNCHANGED <<task_state, registers, current_pid, cpu, locks, trap>>
  PROVE  TPInv'
<1>1. \A p \in Pids : FileOf(p)' = FileOf(p) /\ (Live(p)' <=> Live(p))
  BY DEF FileOf, Live
<1>2. \A k \in LockNames : LockInv(k)'
  BY <1>1, LocksKept DEF TPInv, Holds
<1>3. ProcessesConsistent'
  BY <1>1 DEF TPInv, ProcessesConsistent
<1> QED
  BY <1>2, <1>3 DEF TPInv, TPTypes

\* A program starts outside of every lock.
LEMMA BootKeeps ==
  ASSUME TPInv, Boot
  PROVE  TPInv'
<1>1. IInv' /\ IInv /\ UNCHANGED <<locks, trap>>
  BY BootStep DEF Boot, TPInv, uservars
<1>2. CASE init_process_table
  <2>1. \A p \in Pids : ~Live(p) /\ ~Live(p)'
    <3>1. \A p \in Pids : ~(p < started)
      BY <1>1, <1>2, TableSize DEF IInv, BootOrder, init_process_table, Pids
    <3> QED
      BY <1>1, <1>2, <3>1 DEF IInv, BootOrder, Booting, init_process_table, Live
  <2>2. \A k \in LockNames : LockInv(k)'
    BY <1>1, <2>1, LocksKept DEF TPInv, Holds
  <2>3. ProcessesConsistent'
    BY <1>1, <2>1 DEF TPInv, ProcessesConsistent
  <2> QED
    BY <1>1, <2>2, <2>3 DEF TPInv, TPTypes
<1>3. CASE init_ps2 \/ interrupt_enable
  BY <1>1, <1>3, TableKept DEF init_ps2, interrupt_enable, tablevars
<1>4. CASE start_process /\ ~ \E p \in Pids : task_state[p] = TASKSTATE_unused
  BY <1>1, <1>4, TableKept DEF start_process, tablevars
<1>5. CASE start_process /\ \E p \in Pids : task_state[p] = TASKSTATE_unused
  <2> DEFINE m == get_next_pid(task_state, 0, TASKSTATE_unused)
  <2>1. m \in Pids /\ task_state[m] = TASKSTATE_unused
    BY <1>5, NextPidType
  <2>2. started \in Nat /\ started < Len(Programs) /\ mode = "start_process"
    BY <1>1, <1>5, KernelAssumption DEF start_process, IInv, TypeOK
  <2>3. PICK program \in {RAZZLE, DAZZLE} : program = Programs[started + 1]
    <3>1. Programs = <<RAZZLE, DAZZLE>>
      BY TestProcessesAssumption
    <3>2. started + 1 \in {1, 2}
      BY <2>2, <3>1
    <3> QED
      BY <3>1, <3>2
  <2>4. /\ task_state' = [task_state EXCEPT ![m] = TASKSTATE_ready]
        /\ registers' = [registers EXCEPT ![m] = initialize_registers(program)]
        /\ UNCHANGED <<current_pid, cpu>>
    BY <1>5, <2>3 DEF start_process
  <2> HIDE DEF m
  <2>5. PICK n \in Pids :
          /\ task_state[n] = TASKSTATE_unused
          /\ task_state' = [task_state EXCEPT ![n] = TASKSTATE_ready]
          /\ registers' = [registers EXCEPT ![n] = initialize_registers(program)]
          /\ UNCHANGED <<current_pid, cpu>>
    BY <2>1, <2>4
  <2>6. current_pid \notin Pids
    BY <1>1, <2>2, Constants DEF IInv, BootOrder
  <2>7. \A p \in Pids : p # n => /\ FileOf(p)' = FileOf(p) /\ task_state'[p] = task_state[p]
                                 /\ Live(p)' <=> Live(p)
    BY <1>1, <2>6, <2>5 DEF FileOf, Live, IInv, TypeOK
  <2>8. /\ FileOf(n)' = initialize_registers(program) 
        /\ Live(n)' /\ ~Live(n) /\ task_state'[n] = TASKSTATE_ready
    BY <1>1, <2>6, <2>5 DEF FileOf, Live, IInv, TypeOK, TASKSTATE_ready, TASKSTATE_unused
  <2>9. /\ program \in Plain /\ \A k \in LockNames : program \notin Inside(k)
        /\ initialize_registers(program).eip = program
    BY <2>3, InsideTable DEF RAZZLE, DAZZLE, LockNames, initialize_registers
  <2>10. \A k \in LockNames : LockInv(k)'
    <3>1. \A k \in LockNames : ~Holds(n, k)' /\ ~Holds(n, k)
      BY <2>8, <2>9 DEF Holds
    <3>2. \A k \in LockNames : \A p \in Pids : p # n => (Holds(p, k)' <=> Holds(p, k))
      BY <2>7 DEF Holds
    <3> QED
      BY <1>1, <3>1, <3>2, LocksKept DEF TPInv
  <2>11. ProcessesConsistent'
    <3>1. Consistent(FileOf(n)', FALSE, TASKSTATE_ready)
      BY <2>8, <2>9 DEF Consistent, Plain, TASKSTATE_ready, TASKSTATE_blocked
    <3>2. trap'[n] = FALSE
      BY <1>1, <2>8 DEF TPInv, ProcessesConsistent
    <3> QED
      BY <1>1, <2>7, <2>8, <3>1, <3>2 DEF TPInv, ProcessesConsistent
  <2> QED
    BY <1>1, <2>10, <2>11 DEF TPInv, TPTypes
<1> QED
  BY <1>2, <1>3, <1>4, <1>5 DEF Boot

\* Every step of the two programs, the kernel under them and the interrupts.
LEMMA TPNextKeeps ==
  ASSUME TPInv, [TPNext]_tpvars
  PROVE  TPInv'
<1>1. CASE UNCHANGED tpvars
  <2>1. UNCHANGED <<vars, locks, trap>>
    BY <1>1 DEF tpvars, uservars
  <2>2. IInv'
    BY <2>1, NextIInv DEF TPInv
  <2> QED
    BY <2>1, <2>2, TableKept DEF vars
<1> QED
  BY <1>1, BootKeeps, ExecuteKeeps, SyscallKeeps, TickKeeps, TypeKeeps DEF TPNext

\* Nobody lives and nothing is locked at first.
LEMMA TPInitial == TPInit => TPInv
<1> SUFFICES ASSUME TPInit PROVE TPInv
  OBVIOUS
<1>1. IInv /\ \A p \in Pids : ~Live(p)
  BY InitIInv DEF TPInit, Init, Live
<1>2. TPTypes /\ ProcessesConsistent
  BY <1>1 DEF TPInit, TPTypes, ProcessesConsistent, LockNames
<1>3. \A k \in LockNames : LockInv(k)
  BY <1>1 DEF TPInit, LockInv, Holds, LockNames
<1> QED
  BY <1>1, <1>2, <1>3 DEF TPInv

\* A lock is taken exactly while one process is inside.
LEMMA HeldByOne == TPInv => LocksHeld
<1> SUFFICES ASSUME TPInv, NEW k \in {"lock", "lock2"}
             PROVE  Cardinality({p \in Pids : Holds(p, k)}) = locks[k]
  BY DEF LocksHeld, Holds, Live
<1>1. LockInv(k)
  BY DEF TPInv, LockNames
<1>2. CASE locks[k] = 0 /\ \A p \in Pids : ~Holds(p, k)
  <2>1. {p \in Pids : Holds(p, k)} = {}
    BY <1>2
  <2> QED
    BY <1>2, <2>1, FS_EmptySet
<1>3. CASE locks[k] = 1 /\ \E p \in Pids : \A q \in Pids : Holds(q, k) <=> q = p
  <2>1. PICK p \in Pids : {q \in Pids : Holds(q, k)} = {p}
    BY <1>3
  <2> QED
    BY <1>3, <2>1, FS_Singleton
<1> QED
  BY <1>1, <1>2, <1>3 DEF LockInv

\* Mutual exclusion of the two programs' critical sections and of printf, however
\* the timer preempts them (sl_acquire and sl_release, arch/i386/asm/asm.c):
\* nobody else gets in, and every path out of a section releases the lock.
THEOREM MutualExclusion == TPSpec => []LocksHeld
<1>1. TPInv /\ [TPNext]_tpvars => TPInv'
  BY TPNextKeeps
<1> QED
  BY <1>1, TPInitial, HeldByOne, PTL DEF TPSpec

-----------------------------------------------------------------------------
(* The report. *)

\* The first n pids of the table that are live.
Below(n) == {p \in LiveSlots : p < n}

\* A line is a text or the line of a process.
Lines == {"!!! Kernel Panic !!!", Message(int_no), "EIP", "ESPv", "ESP", "", "Process Table"} \cup Nat

TitlePrinted == report[7] = "Process Table"

\* The table printed as far as pid: the live processes below it, in order.
TableInv ==
  /\ Len(report) = 7 + Cardinality(Below(pid))
  /\ TitlePrinted
  /\ \A j \in 8 .. Len(report) : report[j] \in Below(pid)
  /\ \A j, k \in 8 .. Len(report) : j < k => report[j] < report[k]
  /\ \A p \in Below(pid) : \E j \in 8 .. Len(report) : report[j] = p

ReportInv ==
  /\ report \in Seq(Lines) /\ pid \in 0 .. MAX_PROCESSES /\ step \in 0 .. LOOP
  /\ current_pid \in LiveSlots
  /\ step > 0 => locks["lock"] = 0
  /\ \A i \in 1 .. 6 : i <= step => report[i] = Heading[i]
  /\ step <= TITLE => Len(report) = step /\ pid = 0
  /\ step > TITLE => TableInv
  /\ step = LOOP => pid = MAX_PROCESSES

PanicInv ==
  /\ TPInv
  /\ Panicking => ReportInv

\* The live processes below n + 1: those below n, and n if it is live.
LEMMA BelowNext ==
  ASSUME NEW n \in Pids
  PROVE  /\ Below(n + 1) = IF Listed(n) THEN Below(n) \cup {n} ELSE Below(n)
         /\ n \notin Below(n) /\ IsFiniteSet(Below(n)) /\ Cardinality(Below(n)) \in Nat
         /\ Cardinality(Below(n + 1)) = Cardinality(Below(n)) + (IF Listed(n) THEN 1 ELSE 0)
<1>1. LiveSlots \subseteq Pids /\ (n \in LiveSlots <=> Listed(n)) /\ Pids \subseteq Nat
  BY TableSize DEF LiveSlots, Pids, Listed
<1>2. Below(n + 1) = IF Listed(n) THEN Below(n) \cup {n} ELSE Below(n)
  <2>1. \A p \in LiveSlots : p < n + 1 <=> p < n \/ p = n
    BY <1>1
  <2> QED
    BY <1>1, <2>1, Zenon DEF Below
<1>3. n \notin Below(n)
  BY <1>1 DEF Below
<1>4. IsFiniteSet(Below(n)) /\ Cardinality(Below(n)) \in Nat
  <2>1. Below(n) \in SUBSET Pids
    BY <1>1 DEF Below
  <2> QED
    BY <2>1, TableFinite, FS_Subset, FS_CardinalityType
<1>5. Cardinality(Below(n) \cup {n}) = Cardinality(Below(n)) + 1
  BY <1>3, <1>4, FS_AddElement
<1> QED
  BY <1>2, <1>3, <1>4, <1>5

\* A sequence of six.
LEMMA SixLong ==
  ASSUME NEW T, NEW a \in T, NEW b \in T, NEW c \in T, NEW d \in T, NEW e \in T, NEW f \in T
  PROVE  <<a, b, c, d, e, f>> \in Seq(T) /\ Len(<<a, b, c, d, e, f>>) = 6
  OBVIOUS

\* The heading is six lines of text.
LEMMA HeadingLines ==
  Heading \in Seq(Lines) /\ Len(Heading) = 6 /\ \A i \in 1 .. 6 : Heading[i] \in Lines
<1>1. Heading \in Seq(Lines) /\ Len(Heading) = 6
  <2>1. /\ "!!! Kernel Panic !!!" \in Lines /\ Message(int_no) \in Lines /\ "EIP" \in Lines
        /\ "ESPv" \in Lines /\ "ESP" \in Lines /\ "" \in Lines
    BY Zenon DEF Lines
  <2> QED
    BY <2>1, SixLong, Zenon DEF Heading
<1>2. \A i \in 1 .. 6 : Heading[i] \in Lines
  BY <1>1
<1> QED
  BY <1>1, <1>2

\* Nothing of the programs or the kernel runs in a panic, or starts one.
LEMMA NoPanicByItself ==
  ASSUME TPInv, TPNext
  PROVE  ~Panicking /\ ~Panicking'
<1>1. TypeOK
  BY DEF TPInv, IInv
<1>2. CASE Boot
  BY <1>2 DEF Boot, init_process_table, init_ps2, start_process, interrupt_enable, Panicking
<1>3. CASE Execute
  <2>1. mode = "user"
    BY <1>3 DEF Execute, test_razzle, test_dazzle, printf, DazzleSwitch, DazzleCommand,
       DazzleListing, DazzleOutput, At
  <2> QED
    BY <1>3, <2>1 DEF Execute, kernelvars, Panicking
<1>4. CASE Syscall
  <2>1. mode = "user"
    BY <1>4 DEF Syscall
  <2>2. mode' \in {"user", "spin", "off"}
    BY <1>4 DEF Syscall, syscall_yield, syscall_getc, syscall_lspci, syscall_lsproc,
       syscall_powerctl, Invokes, schedule
  <2> QED
    BY <2>1, <2>2 DEF Panicking
<1>5. CASE Tick
  BY <1>5 DEF Tick, irq_pit, InterruptsEnabled, schedule, Panicking
<1>6. CASE Type
  BY <1>6 DEF Type, irq_ps2, irq_com1, InterruptsEnabled, Panicking
<1> QED
  BY <1>2, <1>3, <1>4, <1>5, <1>6 DEF TPNext

\* A fault leaves the programs where they are and begins a report.
LEMMA FaultKeeps ==
  ASSUME PanicInv, Fault
  PROVE  PanicInv'
<1> DEFINE t == trap[current_pid]
<1>1. /\ mode = "user" /\ mode' = "panic" /\ cpu' = cpu
      /\ UNCHANGED <<started, tablevars, current_pid, ps2_waiters>>
      /\ UNCHANGED <<locks, trap, task_state>>
  BY DEF Fault, fault_handler, uservars, tablevars
<1>2. TPInv /\ cpu \in Regs /\ locks' \in [LockNames -> {0, 1}]
  BY <1>1 DEF PanicInv, TPInv, IInv, TypeOK, TPTypes
<1>3. current_pid \in Pids /\ Live(current_pid) /\ task_state[current_pid] = TASKSTATE_ready
  BY <1>1, <1>2 DEF TPInv, IInv, RunningIsReady, Live, TASKSTATE_ready, TASKSTATE_unused
<1>4. t \in BOOLEAN /\ trap' = [trap EXCEPT ![current_pid] = t]
  BY <1>1, <1>2, <1>3 DEF TPInv, TPTypes
<1>5. FileOf(current_pid) = cpu
  BY DEF FileOf
<1>6. Consistent(cpu', t, TASKSTATE_ready)
  BY <1>1, <1>2, <1>3, <1>5 DEF TPInv, ProcessesConsistent
<1> HIDE DEF t
<1>7. TPInv'
  BY <1>1, <1>2, <1>4, <1>6, MachineStep
<1>8. step' = 0 /\ report' = <<>> /\ pid' = 0
  BY DEF Fault
<1>9. current_pid' \in LiveSlots'
  BY <1>1, <1>3 DEF LiveSlots, Live, Pids
<1>10. ReportInv'
  BY <1>8, <1>9, TableSize DEF ReportInv, LOOP, TITLE
<1> QED
  BY <1>7, <1>10 DEF PanicInv

\* The handler touches neither the programs nor the table.
LEMMA HandlerKeeps ==
  ASSUME PanicInv, PrintHeading \/ process_debug
  PROVE  /\ TPInv' /\ ReportInv /\ Panicking /\ pid \in Nat
         /\ LiveSlots' = LiveSlots /\ Heading' = Heading /\ Lines' = Lines
         /\ UNCHANGED <<current_pid, locks>>
         /\ \A n : Below(n)' = Below(n)
<1>1. Panicking /\ UNCHANGED <<vars, locks, trap, int_no>>
  BY DEF PrintHeading, HandlerPrintf, process_debug, uservars, Panicking
<1>2. IInv'
  BY <1>1, NextIInv DEF PanicInv, TPInv
<1>3. TPInv'
  BY <1>1, <1>2, TableKept DEF PanicInv, vars
<1>4. ReportInv /\ pid \in Nat
  BY <1>1, TableSize DEF PanicInv, ReportInv
<1>5. LiveSlots' = LiveSlots /\ Heading' = Heading /\ Lines' = Lines /\ current_pid' = current_pid
  BY <1>1 DEF vars, LiveSlots, Heading, Lines
<1>6. \A n : Below(n)' = Below(n)
  BY <1>5 DEF Below
<1> QED
  BY <1>1, <1>3, <1>4, <1>5, <1>6

\* A line of the heading.
LEMMA HeadingKeeps ==
  ASSUME PanicInv, PrintHeading
  PROVE  PanicInv'
<1> DEFINE x == Heading[step + 1]
<1>1. ReportInv /\ LiveSlots' = LiveSlots /\ Heading' = Heading /\ Lines' = Lines
      /\ UNCHANGED <<current_pid, locks>> /\ TPInv'
  BY HandlerKeeps
<1>2. /\ step < 6 /\ step' = step + 1 /\ report' = Append(report, x) /\ locks["lock"] = 0
      /\ pid' = pid
  BY DEF PrintHeading, HandlerPrintf, TITLE
<1>3. step \in 0 .. 5 /\ x \in Lines /\ report \in Seq(Lines) /\ Len(report) = step /\ pid = 0
  BY <1>1, <1>2, HeadingLines DEF ReportInv, TITLE, LOOP
<1> HIDE DEF x
<1>4. /\ report' \in Seq(Lines) /\ Len(report') = step + 1 /\ report'[step + 1] = x
      /\ \A i \in 1 .. step : report'[i] = report[i]
  BY <1>2, <1>3
<1>5. \A i \in 1 .. 6 : i <= step + 1 => report'[i] = Heading[i]
  <2>1. \A i \in 1 .. 6 : i <= step => report'[i] = Heading[i]
    BY <1>1, <1>3, <1>4 DEF ReportInv
  <2> QED
    BY <1>3, <1>4, <2>1 DEF x
<1>6. ReportInv'
  BY <1>1, <1>2, <1>3, <1>4, <1>5 DEF ReportInv, TITLE, LOOP
<1> QED
  BY <1>1, <1>6 DEF PanicInv

\* The title of process_debug, an iteration of its loop, and its end.
LEMMA TableKeeps ==
  ASSUME PanicInv, process_debug
  PROVE  PanicInv'
<1>1. /\ ReportInv /\ LiveSlots' = LiveSlots /\ Heading' = Heading /\ Lines' = Lines
      /\ UNCHANGED <<current_pid, locks>> /\ TPInv' /\ pid \in Nat
      /\ \A n : Below(n)' = Below(n)
  BY HandlerKeeps
<1>2. report \in Seq(Lines) /\ Len(report) \in Nat
  BY <1>1 DEF ReportInv
<1>3. CASE /\ step = TITLE /\ step' = TABLE
           /\ report' = Append(report, "Process Table") /\ UNCHANGED pid
  <2>1. Len(report) = 6 /\ pid = 0 /\ pid' = 0 /\ step = 6 /\ step' = 7
    <3>1. step = 6 /\ step' = 7 /\ pid' = pid
      BY <1>3, Zenon DEF TITLE, TABLE
    <3> QED
      BY <1>1, <3>1 DEF ReportInv, TITLE
  <2>2. "Process Table" \in Lines
    BY Zenon DEF Lines
  <2>3. PICK x : x = "Process Table"
    BY Zenon
  <2>4. report' = Append(report, x) /\ x \in Lines
    BY <1>3, <2>2, <2>3, Zenon
  <2>5. /\ report' \in Seq(Lines) /\ Len(report') = 7 /\ report'[7] = x
        /\ \A i \in 1 .. 6 : report'[i] = report[i]
    <3>1. /\ Append(report, x) \in Seq(Lines) /\ Len(Append(report, x)) = Len(report) + 1
          /\ \A i \in 1 .. Len(report) : Append(report, x)[i] = report[i]
          /\ Append(report, x)[Len(report) + 1] = x
      BY <1>2, <2>4, AppendProperties
    <3> QED
      BY <2>1, <2>4, <3>1
  <2>6. Below(0) = {} /\ Cardinality(Below(0)) = 0
    <3>1. Below(0) = {}
      BY DEF Below, LiveSlots
    <3> QED
      BY <3>1, FS_EmptySet
  <2>7. Below(pid)' = Below(0)
    BY <1>1, <2>1
  <2>8. TitlePrinted'
    BY <2>3, <2>5, Zenon DEF TitlePrinted
  <2>9. TableInv'
    BY <2>5, <2>6, <2>7, <2>8 DEF TableInv
  <2>10. ReportInv'
    BY <1>1, <2>1, <2>5, <2>9, TableSize DEF ReportInv, TITLE, LOOP
  <2> QED
    BY <1>1, <2>10 DEF PanicInv
<1>4. CASE /\ step = TABLE /\ pid < MAX_PROCESSES
           /\ pid' = pid + 1 /\ UNCHANGED step
           /\ report' = IF Listed(pid) THEN Append(report, pid) ELSE report
  <2>1. TableInv /\ step = 7 /\ step' = 7 /\ pid \in Pids
    BY <1>1, <1>4, TableSize DEF ReportInv, TITLE, TABLE, Pids
  <2>2. PICK n \in Pids : n = pid
    BY <2>1
  <2>3. pid' = n + 1 /\ Below(pid)' = Below(n + 1) /\ n \in Nat
    BY <1>1, <1>4, <2>2, TableSize DEF Pids
  <2>4. /\ Len(report) = 7 + Cardinality(Below(n)) /\ TitlePrinted
        /\ \A j \in 8 .. Len(report) : report[j] \in Below(n)
        /\ \A j, k \in 8 .. Len(report) : j < k => report[j] < report[k]
        /\ \A p \in Below(n) : \E j \in 8 .. Len(report) : report[j] = p
    BY <2>1, <2>2 DEF TableInv
  <2>5. \A p \in Below(n) : p < n
    BY DEF Below
  <2>6. \A i \in 1 .. 6 : report[i] = Heading[i]
    BY <1>1, <2>1 DEF ReportInv
  <2>7. CASE ~Listed(n)
    <3>1. report' = report /\ Below(n + 1) = Below(n) /\ (TitlePrinted => TitlePrinted')
      BY <1>4, <2>2, <2>7, BelowNext DEF TitlePrinted
    <3>2. TableInv'
      BY <2>3, <2>4, <3>1 DEF TableInv
    <3>3. ReportInv'
      BY <1>1, <2>1, <2>3, <2>6, <3>1, <3>2, TableSize DEF ReportInv, TITLE, LOOP, Pids
    <3> QED
      BY <1>1, <3>3 DEF PanicInv
  <2>8. CASE Listed(n)
    <3> DEFINE N == Len(report)
    <3>1. /\ report' = Append(report, n) /\ Below(n + 1) = Below(n) \cup {n}
          /\ Cardinality(Below(n)) \in Nat
          /\ Cardinality(Below(n + 1)) = Cardinality(Below(n)) + 1
      BY <1>4, <2>2, <2>8, BelowNext
    <3>2. n \in Lines
      BY <2>3 DEF Lines
    <3>3. /\ report' \in Seq(Lines) /\ Len(report') = N + 1 /\ report'[N + 1] = n
          /\ \A i \in 1 .. N : report'[i] = report[i]
      BY <1>2, <3>1, <3>2
    <3>4. N \in Nat /\ N >= 7
      BY <2>4, <3>1
    <3> HIDE DEF N
    <3>5. Len(report') = 7 + Cardinality(Below(n + 1))
      BY <2>4, <3>1, <3>3 DEF N
    <3>6. TitlePrinted'
      <4>1. report'[7] = report[7]
        BY <3>3, <3>4
      <4> QED
        BY <2>4, <4>1, Zenon DEF TitlePrinted
    <3>7. \A j \in 8 .. N + 1 : IF j = N + 1 THEN report'[j] = n
                                ELSE j \in 8 .. N /\ report'[j] = report[j]
      BY <3>3, <3>4
    <3>8. \A j \in 8 .. Len(report') : report'[j] \in Below(n + 1)
      BY <2>4, <3>1, <3>3, <3>7 DEF N
    <3>9. \A j, k \in 8 .. Len(report') : j < k => report'[j] < report'[k]
      <4> SUFFICES ASSUME NEW j \in 8 .. N + 1, NEW k \in 8 .. N + 1, j < k
                   PROVE  report'[j] < report'[k]
        BY <3>3
      <4>1. j \in 8 .. N /\ report'[j] = report[j]
        BY <3>4, <3>7
      <4>2. CASE k = N + 1
        BY <2>4, <2>5, <3>7, <4>1, <4>2 DEF N
      <4>3. CASE k # N + 1
        BY <2>4, <3>7, <4>1, <4>3 DEF N
      <4> QED
        BY <4>2, <4>3
    <3>10. \A p \in Below(n + 1) : \E j \in 8 .. Len(report') : report'[j] = p
      <4> SUFFICES ASSUME NEW p \in Below(n + 1)
                   PROVE  \E j \in 8 .. N + 1 : report'[j] = p
        BY <3>3
      <4>1. CASE p = n
        BY <3>3, <3>4, <4>1
      <4>2. CASE p \in Below(n)
        <5>1. PICK j \in 8 .. N : report[j] = p
          BY <2>4, <4>2 DEF N
        <5> QED
          BY <3>3, <3>4, <5>1
      <4> QED
        BY <3>1, <4>1, <4>2
    <3>11. TableInv'
      BY <2>3, <3>5, <3>6, <3>8, <3>9, <3>10 DEF TableInv
    <3>12. \A i \in 1 .. 6 : report'[i] = Heading[i]
      BY <2>6, <3>3, <3>4
    <3>13. ReportInv'
      BY <1>1, <2>1, <2>3, <3>3, <3>11, <3>12, TableSize DEF ReportInv, TITLE, LOOP, Pids
    <3> QED
      BY <1>1, <3>13 DEF PanicInv
  <2> QED
    BY <2>7, <2>8
<1>5. CASE step = TABLE /\ pid = MAX_PROCESSES /\ step' = LOOP /\ UNCHANGED <<pid, report>>
  <2>1. TableInv /\ (TitlePrinted => TitlePrinted')
    <3>1. TableInv
      BY <1>1, <1>5 DEF ReportInv, TITLE, TABLE
    <3> QED
      BY <1>5, <3>1, Zenon DEF TitlePrinted
  <2>2. TableInv'
    BY <1>1, <1>5, <2>1 DEF TableInv
  <2>3. ReportInv'
    BY <1>1, <1>5, <2>2, TableSize DEF ReportInv, TITLE, TABLE, LOOP
  <2> QED
    BY <1>1, <2>3 DEF PanicInv
<1> QED
  BY <1>3, <1>4, <1>5 DEF process_debug

\* The invariant with the handler's steps.
LEMMA PanicInductive == PanicSpec => []PanicInv
<1>1. PanicInit => PanicInv
  BY TPInitial DEF PanicInit, PanicInv, Panicking, TPInit, Init
<1>2. PanicInv /\ [PanicNext]_allvars => PanicInv'
  <2> SUFFICES ASSUME PanicInv, [PanicNext]_allvars PROVE PanicInv'
    OBVIOUS
  <2>1. CASE TPNext /\ UNCHANGED panicvars
    BY <2>1, TPNextKeeps, NoPanicByItself DEF PanicInv
  <2>2. CASE Fault
    BY <2>2, FaultKeeps
  <2>3. CASE PrintHeading
    BY <2>3, HeadingKeeps
  <2>4. CASE process_debug
    BY <2>4, TableKeeps
  <2>5. CASE UNCHANGED allvars
    <3>1. UNCHANGED <<tpvars, panicvars>>
      BY <2>5 DEF allvars
    <3>2. TPInv'
      BY <3>1, TPNextKeeps DEF PanicInv
    <3>3. UNCHANGED <<mode, task_state, current_pid, locks, int_no, step, pid, report>>
      BY <3>1 DEF tpvars, vars, uservars, panicvars
    <3>4. (Panicking => ReportInv) => (Panicking => ReportInv)'
      BY <3>3 DEF Panicking, ReportInv, TableInv, TitlePrinted, Below, LiveSlots, Heading, Lines
    <3> QED
      BY <3>2, <3>4 DEF PanicInv
  <2> QED
    BY <2>1, <2>2, <2>3, <2>4, <2>5 DEF PanicNext
<1> QED
  BY <1>1, <1>2, PTL DEF PanicSpec

-----------------------------------------------------------------------------
(* The theorems about a panic. *)

\* The locks also under a fault: it freezes them as the programs left them.
THEOREM MutualExclusionInPanic == PanicSpec => []LocksHeld
<1>1. PanicInv => LocksHeld
  BY HeldByOne DEF PanicInv
<1> QED
  BY <1>1, PanicInductive, PTL

\* fault_handler prints nothing into the middle of a program's line, because its
\* first printf waits for the lock (kernel/kernel.c:58).
THEOREM ReportUnmixed == PanicSpec => []ReportNotMixed
<1>1. PanicInv => ReportNotMixed
  <2> SUFFICES ASSUME PanicInv, Panicking, report # <<>>, NEW p \in Pids, Live(p)
               PROVE  FileOf(p).eip \notin Inside("lock")
    BY DEF ReportNotMixed, Live
  <2>1. step # 0
    <3>1. report \in Seq(Lines) /\ (step = 0 => Len(report) = 0)
      BY DEF PanicInv, ReportInv, TITLE
    <3> QED
      BY <3>1
  <2>2. locks["lock"] = 0
    BY <2>1 DEF PanicInv, ReportInv
  <2>3. LockInv("lock")
    BY DEF PanicInv, TPInv, LockNames
  <2> QED
    BY <2>2, <2>3 DEF LockInv, Holds
<1> QED
  BY <1>1, PanicInductive, PTL

\* A report that reaches its end holds the heading and then every live process
\* once, in the order of the table, whatever its size (process_debug).
THEOREM ReportIsComplete == PanicSpec => []ReportComplete
<1>1. PanicInv => ReportComplete
  <2> SUFFICES ASSUME PanicInv, Panicking, step = LOOP PROVE ReportComplete
    BY DEF ReportComplete
  <2>1. /\ report \in Seq(Lines) /\ TableInv /\ pid = MAX_PROCESSES /\ current_pid \in LiveSlots
        /\ \A i \in 1 .. 6 : report[i] = Heading[i]
    BY DEF PanicInv, ReportInv, TITLE, LOOP
  <2>2. Below(pid) = LiveSlots
    BY <2>1, TableSize DEF Below, LiveSlots
  <2>3. /\ Len(report) = 7 + Cardinality(LiveSlots)
        /\ TitlePrinted
        /\ \A j \in 8 .. Len(report) : report[j] \in LiveSlots
        /\ \A j, k \in 8 .. Len(report) : j < k => report[j] < report[k]
        /\ \E j \in 8 .. Len(report) : report[j] = current_pid
    BY <2>1, <2>2 DEF TableInv
  <2>4. SubSeq(report, 1, 7) = Append(Heading, "Process Table")
    <3>1. PICK x : x = "Process Table"
      BY Zenon
    <3>2. x \in Lines /\ report[7] = x
      BY <2>3, <3>1, Zenon DEF Lines, TitlePrinted
    <3>3. Cardinality(LiveSlots) \in Nat
      <4>1. LiveSlots \in SUBSET Pids
        BY DEF LiveSlots, Pids
      <4> QED
        BY <4>1, TableFinite, FS_Subset, FS_CardinalityType
    <3>4. /\ SubSeq(report, 1, 7) \in Seq(Lines) /\ Len(SubSeq(report, 1, 7)) = 7
          /\ \A i \in 1 .. 7 : SubSeq(report, 1, 7)[i] = report[i]
      BY <2>1, <2>3, <3>3
    <3>5. /\ Append(Heading, x) \in Seq(Lines) /\ Len(Append(Heading, x)) = 7
          /\ \A i \in 1 .. 6 : Append(Heading, x)[i] = Heading[i]
          /\ Append(Heading, x)[7] = x
      <4>1. PICK h \in Seq(Lines) : h = Heading /\ Len(h) = 6
        BY HeadingLines
      <4>2. /\ Append(h, x) \in Seq(Lines) /\ Len(Append(h, x)) = Len(h) + 1
            /\ \A i \in 1 .. Len(h) : Append(h, x)[i] = h[i]
            /\ Append(h, x)[Len(h) + 1] = x
        BY <3>2
      <4>3. /\ Append(h, x) \in Seq(Lines) /\ Len(Append(h, x)) = 7
            /\ \A i \in 1 .. 6 : Append(h, x)[i] = h[i]
            /\ Append(h, x)[7] = x
        BY <4>1, <4>2
      <4> QED
        BY <4>1, <4>3
    <3>6. \A i \in 1 .. 7 : SubSeq(report, 1, 7)[i] = Append(Heading, x)[i]
      BY <2>1, <3>2, <3>4, <3>5
    <3>7. SubSeq(report, 1, 7) = Append(Heading, x)
      BY <3>4, <3>5, <3>6, SeqEqual
    <3> QED
      BY <3>1, <3>7, Zenon
  <2> QED
    BY <2>3, <2>4, Zenon DEF ReportComplete
<1> QED
  BY <1>1, PanicInductive, PTL

=============================================================================
