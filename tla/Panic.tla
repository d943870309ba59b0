------------------------------- MODULE Panic -------------------------------
(***************************************************************************)
(* What becomes of a fault: fault_handler (kernel/kernel.c) and            *)
(* process_debug, run with interrupts off on top of the two programs of    *)
(* module TestProcesses, which may fault, or be preempted by what faults,  *)
(* anywhere.  The handler's first six lines go through printf and its      *)
(* lock, the process table through printf_nolock.                          *)
(***************************************************************************)
EXTENDS TestProcesses

VARIABLES
  int_no,   \* the fault being handled
  step,     \* printfs of fault_handler done; then TITLE and TABLE of process_debug, then LOOP
  pid,      \* i of process_debug
  report,   \* the lines printed
  held      \* history: locks["lock"] when the fault struck

panicvars == <<int_no, step, pid, report, held>>
allvars == <<tpvars, panicvars>>

TITLE == 6
TABLE == 7
LOOP == 8

\* The interrupt numbers with a message of their own, and one without.
Faults == {0, 6, 8, 13, 14}

Message(n) == CASE n = 0  -> "Divide by Zero"
                [] n = 6  -> "Illegal instruction"
                [] n = 8  -> "Double Fault (Ignoring)"
                [] n = 13 -> "General Protection Fault at"
                [] OTHER  -> "Unknown"

Heading == <<"!!! Kernel Panic !!!", Message(int_no), "EIP", "ESPv", "ESP", "">>

\* The running process faults: the stub turns interrupts off, the handler clears
\* the screen.
Fault ==
  /\ fault_handler
  /\ int_no' \in Faults
  /\ step' = 0 /\ report' = <<>> /\ pid' = 0
  /\ held' = locks["lock"]
  /\ UNCHANGED uservars

\* Mutation: printf_nolock.
HandlerPrintf_nolock(l) == report' = Append(report, l) /\ UNCHANGED locks

\* Mutation: printf returns without sl_release.
HandlerPrintf_keeping(l) ==
  /\ locks["lock"] = 0
  /\ report' = Append(report, l)
  /\ locks' = [locks EXCEPT !["lock"] = 1]

\* printf in the handler.  Nothing else runs, so the call is one step; while the
\* lock is taken its sl_acquire spins.
HandlerPrintf(l) ==
  /\ locks["lock"] = 0
  /\ report' = Append(report, l)
  /\ UNCHANGED locks

PrintHeading ==
  /\ mode = "panic" /\ step < TITLE
  /\ HandlerPrintf(Heading[step + 1])
  /\ step' = step + 1
  /\ UNCHANGED <<vars, counter, line, trap, ran, int_no, pid, held>>

\* Mutation: only the processes that are ready are listed.
Listed_ready(p) == task_state[p] = TASKSTATE_ready

Listed(p) == task_state[p] # TASKSTATE_unused

\* process_debug's title or one iteration of its loop, with printf_nolock; then
\* fault_handler loops for good.
process_debug ==
  /\ mode = "panic"
  /\ \/ /\ step = TITLE /\ step' = TABLE
        /\ report' = Append(report, "Process Table") /\ UNCHANGED pid
     \/ /\ step = TABLE /\ pid < MAX_PROCESSES
        /\ pid' = pid + 1 /\ UNCHANGED step
        /\ report' = IF Listed(pid) THEN Append(report, pid) ELSE report
     \/ step = TABLE /\ pid = MAX_PROCESSES /\ step' = LOOP /\ UNCHANGED <<pid, report>>
  /\ UNCHANGED <<vars, uservars, int_no, held>>

PanicInit == TPInit /\ int_no = 0 /\ step = 0 /\ pid = 0 /\ report = <<>> /\ held = 0

PanicNext == (TPNext /\ UNCHANGED panicvars) \/ Fault \/ PrintHeading \/ process_debug

PanicSpec == PanicInit /\ [][PanicNext]_allvars

\* The processor executes the process it was given or the handler, and the timer
\* ticks.
PanicFairSpec ==
  /\ PanicSpec
  /\ WF_allvars(Boot /\ UNCHANGED panicvars) /\ WF_allvars(Execute /\ UNCHANGED panicvars)
  /\ WF_allvars(Syscall /\ UNCHANGED panicvars) /\ WF_allvars(Tick /\ UNCHANGED panicvars)
  /\ WF_allvars(PrintHeading) /\ WF_allvars(process_debug)

-----------------------------------------------------------------------------
(* Properties. *)

Panicking == mode = "panic"
LiveSlots == {p \in 0 .. MAX_PROCESSES - 1 : task_state[p] # TASKSTATE_unused}

\* A report is complete when its end is reached: the heading, then every live
\* process once, lowest pid first, the one that faulted among them.
ReportComplete ==
  Panicking /\ step = LOOP =>
    /\ SubSeq(report, 1, 7) = Append(Heading, "Process Table")
    /\ Len(report) = 7 + Cardinality(LiveSlots)
    /\ current_pid \in {report[k] : k \in 8 .. Len(report)}
    /\ \A j, k \in 8 .. Len(report) : report[j] \in LiveSlots /\ (j < k => report[j] < report[k])

\* No line of the report is put into the middle of one a program was printing:
\* the handler waits for the lock like everybody (kernel.c:58), although its
\* holder never runs again.
ReportNotMixed ==
  Panicking /\ report # <<>> =>
    \A p \in Pids : task_state[p] # TASKSTATE_unused => FileOf(p).eip \notin Inside("lock")

\* A fault outside of printf is reported to the end.  One that strikes while a
\* process, preempted or faulting, holds printf's lock never is.
PanicReported == (Panicking /\ held = 0) ~> (Panicking /\ step = LOOP)
=============================================================================
