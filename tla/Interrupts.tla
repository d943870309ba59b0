----------------------------- MODULE Interrupts -----------------------------
(***************************************************************************)
(* How interrupts reach the kernel: the gates of the IDT, the assembly     *)
(* stubs, irq_handler with its end-of-interrupt commands, and the serial   *)
(* port's receive side.  Module Kernel takes a whole handler as one step;  *)
(* here it is several, and the devices act between them.                   *)
(*                                                                         *)
(* The processor, the two 8259A interrupt controllers (edge triggered,     *)
(* fully nested, non-specific EOI) and the 16550 UART are external, and    *)
(* are modelled as far as the kernel programs them.                        *)
(***************************************************************************)
EXTENDS Integers, Sequences, FiniteSets

CONSTANTS
  Procs,       \* processes
  Lines,       \* request lines in use, of 0 .. 15
  FIFO_BYTES,  \* receive FIFO of the UART (16)
  TRIGGER      \* bytes at which it interrupts (14, from 0xC7)

ASSUME InterruptsAssumption ==
  /\ Lines \subseteq (0 .. 15) \ {2} /\ {0, 4} \subseteq Lines
  /\ TRIGGER \in Nat \ {0} /\ FIFO_BYTES \in Nat /\ TRIGGER <= FIFO_BYTES

VARIABLES
  IF_flag,   \* IF of the processor's EFLAGS
  frames,    \* interrupt frames on the kernel stack: [int_no, eflags, pc]
  cur,       \* the process that runs, Idle before the first switch
  eflags,    \* IF in the saved registers of each process
  irr, isr,  \* requested and in-service lines of both controllers
  raised,    \* lines raised since the processor last caught up
  fifo,      \* bytes in the UART
  timeout,   \* the UART's character timeout is pending
  late,      \* history: a byte came in while TRIGGER bytes already waited
  early      \* history: the UART's line was up when remap_irq set up the controllers

cpuvars == <<IF_flag, frames, cur, eflags>>
picvars == <<irr, isr, raised>>
uartvars == <<fifo, timeout, late, early>>
intvars == <<cpuvars, picvars, uartvars>>

Idle == "idle"
IRQCODE_PIT == 32

\* Mutation: the keyboard's code by mistake.
IRQCODE_COM1_as_KB == 33

IRQCODE_COM1 == 36
IRQCODE_SYSCALL == 128
COM1 == 4

Outside == frames = <<>>
Top == frames[Len(frames)]
Goto(pc) == frames' = [frames EXCEPT ![Len(frames)].pc = pc]

-----------------------------------------------------------------------------
(* The IDT.  A gate's flags: present (128), DPL (96), type 14 for an        *)
(* interrupt gate and 15 for a trap gate.                                   *)

KERNEL_INTERRUPT_FLAG == 128 + 0 + 14
USER_TRAP_FLAG == 128 + 96 + 14

\* Mutation: the gates of hardware interrupts are trap gates.
TrapGates(n) == IF n \in 32 .. 47 THEN 128 + 15 ELSE IF n < 32 THEN KERNEL_INTERRUPT_FLAG
                ELSE IF n = IRQCODE_SYSCALL THEN USER_TRAP_FLAG ELSE 0

\* What init_idt and init_irq leave in the flags of gate n.
idt(n) == CASE n < 48              -> KERNEL_INTERRUPT_FLAG
            [] n = IRQCODE_SYSCALL -> USER_TRAP_FLAG
            [] OTHER               -> 0

IsInterruptGate(flags) == flags % 16 = 14
Dpl(flags) == (flags \div 32) % 4

\* The processor goes through gate n: an interrupt gate clears IF.
Enter(n) ==
  /\ idt(n) >= 128
  /\ frames' = Append(frames, [int_no |-> n, eflags |-> IF_flag, pc |-> "cli"])
  /\ IF_flag' = (IF_flag /\ ~IsInterruptGate(idt(n)))
  /\ UNCHANGED <<cur, eflags>>

-----------------------------------------------------------------------------
(* The devices. *)

Master == 0 .. 7
Slave == 8 .. 15

\* Priority: the follower's lines come in at line 2 of the leader.
Rank(l) == IF l < 2 THEN l ELSE IF l \in Slave THEN l - 6 ELSE l + 7

Deliverable == {l \in irr : /\ \A s \in isr \cap Master : (IF l \in Slave THEN 2 ELSE l) < s
                            /\ l \in Slave => \A s \in isr \cap Slave : l < s}

\* A device other than the UART requests.  Its requests are so far apart that
\* all that is pending at one of them is served before its next.
Raise(l) ==
  /\ l # COM1
  /\ IF Outside /\ irr = {} THEN raised' = {l} ELSE l \notin raised /\ raised' = raised \cup {l}
  /\ irr' = irr \cup {l}
  /\ UNCHANGED <<cpuvars, isr, uartvars>>

\* The UART's line, and the request an edge of it leaves.
Asserted(n, t) == n >= TRIGGER \/ t
Edge(n, t) == irr' = IF Asserted(n, t) /\ ~Asserted(fifo, timeout) THEN irr \cup {COM1} ELSE irr

\* A byte is received; a full FIFO loses it.
Receive ==
  /\ fifo' = IF fifo < FIFO_BYTES THEN fifo + 1 ELSE fifo
  /\ late' = (late \/ fifo >= TRIGGER)
  /\ Edge(fifo', timeout)
  /\ UNCHANGED <<cpuvars, isr, raised, timeout, early>>

\* Bytes below the trigger level have waited for four character times.
CharacterTimeout ==
  /\ fifo > 0 /\ ~timeout
  /\ timeout' = TRUE
  /\ Edge(fifo, TRUE)
  /\ UNCHANGED <<cpuvars, isr, raised, fifo, late, early>>

\* The vectors remap_irq gives the two controllers (0x20 and 0x28); it masks no line.
Vector(l) == IF l \in Slave THEN 40 + (l - 8) ELSE 32 + l

\* The processor acknowledges the request of highest priority.
Accept(l) ==
  /\ IF_flag /\ l \in Deliverable /\ \A k \in Deliverable : Rank(l) <= Rank(k)
  /\ irr' = irr \ {l}
  /\ isr' = isr \cup {l} \cup (IF l \in Slave THEN {2} ELSE {})
  /\ Enter(Vector(l))
  /\ UNCHANGED <<raised, uartvars>>

\* A request that vanished: the leader answers with its line 7, the follower
\* with its line 15 through line 2 of the leader.
Spurious ==
  /\ IF_flag /\ isr = {}
  /\ \/ Enter(Vector(7)) /\ UNCHANGED isr
     \/ Enter(Vector(15)) /\ isr' = {2}
  /\ UNCHANGED <<irr, raised, uartvars>>

-----------------------------------------------------------------------------
(* Programs. *)

\* int $0x80, from ring 3.
SystemCall ==
  /\ Outside /\ cur # Idle
  /\ Dpl(idt(IRQCODE_SYSCALL)) = 3
  /\ Enter(IRQCODE_SYSCALL)
  /\ UNCHANGED <<picvars, uartvars>>

\* An instruction faults.
Fault ==
  /\ Outside /\ cur # Idle
  /\ \E n \in {0, 8, 13} : Enter(n)
  /\ UNCHANGED <<picvars, uartvars>>

-----------------------------------------------------------------------------
(* The stubs and irq_handler. *)

StubCli ==
  /\ ~Outside /\ Top.pc = "cli"
  /\ IF_flag' = FALSE
  /\ Goto("switch")
  /\ UNCHANGED <<cur, eflags, picvars, uartvars>>

\* schedule(r): the frame's EFLAGS are stored and another process's loaded.
Switched ==
  \E p \in Procs :
    /\ cur' = p
    /\ eflags' = IF cur = Idle THEN eflags ELSE [eflags EXCEPT ![cur] = Top.eflags]
    /\ frames' = [frames EXCEPT ![Len(frames)].pc = "eoi", ![Len(frames)].eflags = eflags'[p]]

\* Mutation: the interrupt is acknowledged and the byte left unread.
serial_rx_unread == fifo > 0 /\ UNCHANGED uartvars

\* serial_rx waits for a byte; one is there or the handler does not go on.
serial_rx ==
  /\ fifo > 0
  /\ fifo' = fifo - 1
  /\ timeout' = FALSE
  /\ UNCHANGED <<late, early>>

\* The switch of irq_handler.  fault_handler never returns.
irq_handler ==
  /\ ~Outside /\ Top.pc = "switch" /\ Top.int_no >= 32
  /\ CASE Top.int_no = IRQCODE_PIT -> Switched /\ UNCHANGED <<irr, uartvars>>
       [] Top.int_no = IRQCODE_SYSCALL ->
            /\ Switched \/ (Goto("eoi") /\ UNCHANGED <<cur, eflags>>)
            /\ UNCHANGED <<irr, uartvars>>
       [] Top.int_no = IRQCODE_COM1 ->
            serial_rx /\ Edge(fifo', timeout') /\ Goto("eoi") /\ UNCHANGED <<cur, eflags>>
       [] OTHER -> Goto("eoi") /\ UNCHANGED <<cur, eflags, irr, uartvars>>
  /\ UNCHANGED <<IF_flag, isr, raised>>

\* Non-specific EOI: the line of highest priority goes out of service.
AfterEoi(s) == {l \in s : \E k \in s : k < l}

\* Mutation: the first line of the follower is forgotten.
NeedsFollowerEoi_from_41(n) == n > 40 /\ n < 48

NeedsFollowerEoi(n) == n >= 40 /\ n < 48

\* The EOIs come last, after a system call too.
SendEoi ==
  /\ ~Outside /\ Top.pc = "eoi"
  /\ isr' = AfterEoi(isr \cap Master)
            \cup (IF NeedsFollowerEoi(Top.int_no) THEN AfterEoi(isr \cap Slave) ELSE isr \cap Slave)
  /\ Goto("iret")
  /\ UNCHANGED <<IF_flag, cur, eflags, irr, raised, uartvars>>

Iret ==
  /\ ~Outside /\ Top.pc = "iret"
  /\ IF_flag' = Top.eflags
  /\ frames' = SubSeq(frames, 1, Len(frames) - 1)
  /\ UNCHANGED <<cur, eflags, picvars, uartvars>>

-----------------------------------------------------------------------------
\* initialize_registers sets EFLAG_INTERRUPT.
InitialEflags == [p \in Procs |-> TRUE]

\* kernel_main after interrupt_enable, with whatever requests came during boot.  The
\* UART receives from serial_init on (kernel.c:25), long before remap_irq (irq.c:21)
\* sets up the controllers; that resets their edge detection, so that a line that was
\* already up has left no request.
IntInit ==
  /\ IF_flag = TRUE /\ frames = <<>> /\ cur = Idle /\ eflags = InitialEflags
  /\ fifo \in 0 .. FIFO_BYTES /\ timeout \in {t \in BOOLEAN : t => fifo > 0}
  /\ irr \in {s \in SUBSET Lines : COM1 \in s => Asserted(fifo, timeout)}
  /\ isr = {} /\ raised = irr \ {COM1}
  /\ late = (fifo > TRIGGER) /\ early = (Asserted(fifo, timeout) /\ COM1 \notin irr)

Handler == StubCli \/ irq_handler \/ SendEoi \/ Iret

IntNext ==
  \/ \E l \in Lines : Raise(l) \/ Accept(l)
  \/ Receive \/ CharacterTimeout \/ Spurious
  \/ SystemCall \/ Fault
  \/ Handler

IntSpec == IntInit /\ [][IntNext]_intvars

(***************************************************************************)
(* The processor executes its handlers, acknowledges what it can, and the  *)
(* UART's timer runs.  Strong fairness of Accept: a request is withheld    *)
(* only while a handler runs or another is served first.                   *)
(***************************************************************************)
IntFairSpec ==
  IntSpec /\ WF_intvars(Handler) /\ WF_intvars(CharacterTimeout)
          /\ \A l \in Lines : SF_intvars(Accept(l))

-----------------------------------------------------------------------------
(* Properties. *)

\* A handler runs from its first instruction to its iret without another one
\* starting (the interrupt gates of idt.c, the cli of irq.s): the atomicity
\* module Kernel and the single kernel stack of gdt.c:116 rely on.  And whatever is
\* switched to, interrupts are on again after the iret: a process starts with IF
\* set (scheduler.c:14) and gets its own EFLAGS back.
HandlersDoNotNest == Len(frames) <= 1 /\ (IF_flag <=> Outside)

\* What is in service is exactly what is being handled, spurious interrupts and
\* the superfluous EOI of every system call notwithstanding (irq.c:82-88): no
\* line is left blocked and none is released early.
InServiceIsHandled ==
  isr = IF Outside \/ Top.pc = "iret" THEN {}
        ELSE CASE Top.int_no \in 40 .. 46 -> {2, Top.int_no - 32}
               [] Top.int_no = 47         -> (isr \cap {15}) \cup {2}
               [] Top.int_no = 39         -> isr \cap {7}
               [] Top.int_no \in 32 .. 38 -> {Top.int_no - 32}
               [] OTHER                   -> {}

\* The busy wait of serial_rx (serial.c:32), entered with interrupts off, finds
\* its byte: it never spins.
SerialByteThere == ~Outside /\ Top.int_no = IRQCODE_COM1 /\ Top.pc = "switch" => fifo > 0

Panicking == \E k \in 1 .. Len(frames) : frames[k].int_no < 32

\* Every request is accepted in the end, unless the kernel panics: no handler
\* forgets an EOI its line waits for.
RequestsServed == \A l \in Lines : l \in irr ~> (l \notin irr \/ Panicking)

\* Received bytes are read, though a handler reads one byte only (irq.c:73), on two
\* conditions.  No byte arrives on top of TRIGGER waiting ones: the line then stays
\* asserted after the read, and with no edge there is no next interrupt.  And the line
\* was not yet up, for bytes that came after serial_init, when remap_irq set up the
\* controllers: there is then no edge either, and the port stays silent for good.
SerialServed ==
  fifo > 0 ~> ((~Outside /\ Top.int_no = IRQCODE_COM1) \/ late \/ early \/ Panicking)
=============================================================================
