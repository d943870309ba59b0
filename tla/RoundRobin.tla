---------------------------- MODULE RoundRobin ----------------------------
(***************************************************************************)
(* How long a ready process waits.  passed[p] is a history variable: the   *)
(* number of calls of schedule that, since p last ran or became ready,     *)
(* gave the processor to somebody else.                                    *)
(***************************************************************************)
EXTENDS Kernel

VARIABLE passed

rrvars == <<vars, passed>>

\* The handlers that end in schedule.
Switch == irq_pit \/ syscall_yield \/ syscall_getc \/ syscall_exit

RRInit == Init /\ passed = [p \in Pids |-> 0]

PassedOver ==
  passed' = [p \in Pids |-> IF task_state'[p] = TASKSTATE_ready /\ p # current_pid'
                              THEN passed[p] + 1 ELSE 0]

NotPassed ==
  passed' = [p \in Pids |-> IF task_state'[p] = TASKSTATE_ready THEN passed[p] ELSE 0]

RRNext ==
  \/ Switch /\ PassedOver
  \/ init_process_table /\ NotPassed
  \/ init_ps2 /\ NotPassed
  \/ start_process /\ NotPassed
  \/ interrupt_enable /\ NotPassed
  \/ Instruction /\ NotPassed
  \/ fault_handler /\ NotPassed
  \/ syscall_lspci /\ NotPassed
  \/ syscall_lsproc /\ NotPassed
  \/ syscall_powerctl /\ NotPassed
  \/ irq_ps2 /\ NotPassed
  \/ irq_com1 /\ NotPassed

RRSpec == RRInit /\ [][RRNext]_rrvars

\* Bounded overtaking: between two turns of a ready process, however processes
\* block, wake, yield and exit meanwhile, no more than MAX_PROCESSES - 1 turns
\* of others fit (scheduler.c:77-78 resumes the search after the current slot).
BoundedOvertaking ==
  \A p \in Pids : passed[p] <= MAX_PROCESSES - 1
=============================================================================
