-------------------------- MODULE InterruptsProofs --------------------------
(***************************************************************************)
(* Proofs about module Interrupts, for any processes, any lines in use and *)
(* a UART with any FIFO and trigger level.                                 *)
(***************************************************************************)
EXTENDS Interrupts, TLAPS

-----------------------------------------------------------------------------
(* The inductive invariant. *)

Vectors == {0, 8, 13} \cup (32 .. 47) \cup {IRQCODE_SYSCALL}

\* Every frame was pushed with interrupts on.
Frame == [int_no : Vectors, eflags : {TRUE}, pc : {"cli", "switch", "eoi", "iret"}]

OneFrame == Outside \/ \E f \in Frame : frames = <<f>>

IntTypes ==
  /\ OneFrame
  /\ cur \in Procs \cup {Idle}
  /\ eflags = [p \in Procs |-> TRUE]
  /\ irr \subseteq Lines /\ isr \subseteq 0 .. 15
  /\ fifo \in Nat /\ timeout \in BOOLEAN

\* The serial line's handler has not read its byte yet.
SerialPending == ~Outside /\ Top.int_no = IRQCODE_COM1 /\ Top.pc \in {"cli", "switch"}

\* The UART's line is up from the edge that leaves a request until the handler
\* reads, so there is no second request before, and a line that is up means bytes.
SerialLine ==
  /\ timeout => fifo > 0
  /\ COM1 \in irr \/ SerialPending => Asserted(fifo, timeout)
  /\ SerialPending => COM1 \notin irr

IntInv ==
  /\ IntTypes
  /\ IF_flag = Outside
  /\ InServiceIsHandled
  /\ SerialLine

-----------------------------------------------------------------------------
(* Frames. *)

\* The only frame is the top one, and Goto changes its pc.
LEMMA TopOfOne ==
  ASSUME NEW f \in Frame, frames = <<f>>
  PROVE  /\ ~Outside /\ Top = f
         /\ \A l : Goto(l) => frames' = <<[f EXCEPT !.pc = l]>>
  BY DEF Outside, Top, Goto

\* A gate that is entered from outside clears IF and leaves one frame.
LEMMA EnterFromOutside ==
  ASSUME IF_flag = TRUE, Outside, NEW n \in Vectors, Enter(n)
  PROVE  /\ frames' = << [int_no |-> n, eflags |-> TRUE, pc |-> "cli"] >>
         /\ [int_no |-> n, eflags |-> TRUE, pc |-> "cli"] \in Frame
         /\ IF_flag' = FALSE /\ UNCHANGED <<cur, eflags>>
<1>1. IsInterruptGate(idt(n))
  BY DEF IsInterruptGate, idt, Vectors, KERNEL_INTERRUPT_FLAG, USER_TRAP_FLAG, IRQCODE_SYSCALL
<1>2. frames' = << [int_no |-> n, eflags |-> TRUE, pc |-> "cli"] >>
  BY DEF Enter, Outside
<1>3. IF_flag' = FALSE
  BY <1>1, Zenon DEF Enter
<1>4. QED
  BY <1>2, <1>3 DEF Enter, Frame

-----------------------------------------------------------------------------
(* One lemma per action. *)

\* Before the first interrupt nothing is in service, whatever was received.
LEMMA InitIntInv == IntInit => IntInv
<1> SUFFICES ASSUME IntInit PROVE IntInv
  OBVIOUS
<1>1. IntTypes
  BY DEF IntInit, IntTypes, OneFrame, Outside, InitialEflags
<1>2. IF_flag = Outside
  BY Zenon DEF IntInit, Outside
<1>3. InServiceIsHandled
  BY DEF IntInit, InServiceIsHandled, Outside
<1>4. SerialLine
  BY DEF IntInit, SerialLine, SerialPending, Outside
<1>5. QED
  BY <1>1, <1>2, <1>3, <1>4 DEF IntInv

\* The devices' own steps leave processor and service alone; what they change is
\* requests and the UART.
LEMMA DeviceStep ==
  ASSUME IntInv, UNCHANGED <<cpuvars, isr>>,
         irr' \subseteq Lines, fifo' \in Nat, timeout' \in BOOLEAN, SerialLine'
  PROVE  IntInv'
<1>1. UNCHANGED <<IF_flag, frames, cur, eflags>>
  BY DEF cpuvars
<1>2. OneFrame'
  BY <1>1 DEF IntInv, IntTypes, OneFrame, Outside
<1>3. IntTypes'
  BY <1>1, <1>2 DEF IntInv, IntTypes
<1>4. (IF_flag = Outside)'
  BY <1>1, Zenon DEF IntInv, Outside
<1>5. InServiceIsHandled'
  BY <1>1 DEF IntInv, InServiceIsHandled, Outside, Top
<1>6. QED
  BY <1>3, <1>4, <1>5 DEF IntInv

LEMMA RaiseStep ==
  ASSUME IntInv, NEW l \in Lines, Raise(l)
  PROVE  IntInv'
<1>1. SerialLine'
  BY DEF Raise, cpuvars, uartvars, IntInv, SerialLine, SerialPending, Outside, Top, Asserted
<1>2. QED
  BY <1>1, DeviceStep DEF Raise, uartvars, IntInv, IntTypes

\* An edge of the UART's line comes from a line that was down, so nothing waits for
\* a byte that is not there.
LEMMA UartStep ==
  ASSUME IntInv, UNCHANGED <<cpuvars, isr>>,
         fifo' \in Nat, fifo' >= fifo, timeout' \in BOOLEAN, timeout => timeout',
         timeout' => fifo' > 0, Edge(fifo', timeout')
  PROVE  IntInv'
<1>1. fifo \in Nat /\ timeout \in BOOLEAN /\ irr \subseteq Lines /\ TRIGGER \in Nat /\ COM1 \in Lines
  BY InterruptsAssumption DEF IntInv, IntTypes, COM1
<1>2. irr' \subseteq Lines
  BY <1>1 DEF Edge
<1>3. Asserted(fifo, timeout) => Asserted(fifo', timeout')
  BY <1>1 DEF Asserted
<1>4. COM1 \in irr' => COM1 \in irr \/ (Asserted(fifo', timeout') /\ ~Asserted(fifo, timeout))
  BY Zenon DEF Edge
<1>5. SerialPending' <=> SerialPending
  BY DEF cpuvars, SerialPending, Outside, Top
<1>6. SerialLine'
  BY <1>3, <1>4, <1>5, Zenon DEF IntInv, SerialLine
<1>7. QED
  BY <1>2, <1>6, DeviceStep

LEMMA ReceiveStep ==
  ASSUME IntInv, Receive
  PROVE  IntInv'
<1>1. fifo \in Nat /\ timeout \in BOOLEAN /\ (timeout => fifo > 0) /\ FIFO_BYTES \in Nat
  BY InterruptsAssumption DEF IntInv, IntTypes, SerialLine
<1>2. fifo' \in Nat /\ fifo' >= fifo /\ timeout' = timeout
  BY <1>1 DEF Receive
<1>3. Edge(fifo', timeout')
  BY <1>2, Zenon DEF Receive
<1>4. QED
  BY <1>1, <1>2, <1>3, UartStep DEF Receive

LEMMA TimeoutStep ==
  ASSUME IntInv, CharacterTimeout
  PROVE  IntInv'
<1>1. fifo \in Nat /\ fifo' = fifo /\ timeout' = TRUE /\ fifo > 0
  BY DEF IntInv, IntTypes, CharacterTimeout
<1>2. Edge(fifo', timeout')
  BY <1>1, Zenon DEF CharacterTimeout
<1>3. QED
  BY <1>1, <1>2, UartStep DEF CharacterTimeout

\* Entering a handler from outside with what it serves in service.
LEMMA EntryStep ==
  ASSUME IntInv, Outside, NEW n \in Vectors, Enter(n),
         irr' \subseteq irr, isr' \subseteq 0 .. 15, UNCHANGED uartvars,
         n = IRQCODE_COM1 => COM1 \in irr /\ COM1 \notin irr',
         isr' = CASE n \in 40 .. 46 -> {2, n - 32}
                  [] n = 47         -> (isr' \cap {15}) \cup {2}
                  [] n = 39         -> isr' \cap {7}
                  [] n \in 32 .. 38 -> {n - 32}
                  [] OTHER          -> {}
  PROVE  IntInv'
<1> DEFINE f == [int_no |-> n, eflags |-> TRUE, pc |-> "cli"]
<1>1. IF_flag = TRUE
  BY Zenon DEF IntInv
<1>2. frames' = <<f>> /\ f \in Frame /\ IF_flag' = FALSE /\ UNCHANGED <<cur, eflags>>
  BY <1>1, EnterFromOutside
<1>3. ~Outside' /\ Top' = f
  BY <1>2 DEF Outside, Top
<1>4. IntTypes'
  BY <1>2 DEF IntInv, IntTypes, OneFrame, uartvars
<1>5. (IF_flag = Outside)'
  BY <1>2 DEF Outside
<1>6. InServiceIsHandled'
  BY <1>3 DEF InServiceIsHandled
<1>7. SerialLine'
  BY <1>3 DEF IntInv, SerialLine, SerialPending, uartvars, Asserted
<1>8. QED
  BY <1>4, <1>5, <1>6, <1>7 DEF IntInv

LEMMA AcceptStep ==
  ASSUME IntInv, NEW l \in Lines, Accept(l)
  PROVE  IntInv'
<1>1. Outside
  BY DEF IntInv, Accept
<1>2. isr = {} /\ l \in irr /\ irr' = irr \ {l} /\ Enter(Vector(l)) /\ UNCHANGED uartvars
  BY <1>1 DEF IntInv, InServiceIsHandled, Accept, Deliverable
<1>3. l \in (0 .. 15) \ {2}
  BY InterruptsAssumption
<1>4. CASE l \in Slave
  <2>1. isr' = {l, 2} /\ l \in 8 .. 15 /\ Vector(l) = l + 32
    BY <1>2, <1>4 DEF Accept, Vector, Slave
  <2> DEFINE n == l + 32
  <2>2. n \in Vectors /\ n # IRQCODE_COM1 /\ n \in 40 .. 47 /\ n - 32 = l /\ isr' \subseteq 0 .. 15
    BY <2>1 DEF Vectors, IRQCODE_COM1
  <2>3. Enter(n)
    BY <1>2, <2>1, Zenon
  <2>4. n = 47 => l = 15
    BY <2>1
  <2> HIDE DEF n
  <2>5. isr' = {2, n - 32} /\ (n = 47 => isr' = (isr' \cap {15}) \cup {2})
    BY <2>1, <2>2, <2>4
  <2>6. QED
    BY <1>1, <1>2, <2>2, <2>3, <2>5, EntryStep
<1>5. CASE l \notin Slave
  <2>1. isr' = {l} /\ l \in 0 .. 7 /\ Vector(l) = l + 32
    BY <1>2, <1>3, <1>5 DEF Accept, Vector, Slave
  <2> DEFINE n == l + 32
  <2>2. n \in Vectors /\ n \in 32 .. 39 /\ n - 32 = l /\ isr' \subseteq 0 .. 15
    BY <2>1 DEF Vectors
  <2>3. n = IRQCODE_COM1 => COM1 \in irr /\ COM1 \notin irr'
    BY <1>2, <2>1 DEF IRQCODE_COM1, COM1
  <2>4. Enter(n)
    BY <1>2, <2>1, Zenon
  <2>5. n = 39 => l = 7
    BY <2>1
  <2> HIDE DEF n
  <2>6. isr' = {n - 32} /\ (n = 39 => isr' = isr' \cap {7})
    BY <2>1, <2>2, <2>5
  <2>7. QED
    BY <1>1, <1>2, <2>2, <2>3, <2>4, <2>6, EntryStep
<1>6. QED
  BY <1>4, <1>5

LEMMA SpuriousStep ==
  ASSUME IntInv, Spurious
  PROVE  IntInv'
<1>1. Outside
  BY DEF IntInv, Spurious
<1>2. isr = {} /\ irr' = irr /\ UNCHANGED uartvars
  BY DEF Spurious
<1>3. CASE Enter(Vector(7)) /\ UNCHANGED isr
  BY <1>1, <1>2, <1>3, EntryStep DEF Vector, Slave, Vectors, IRQCODE_COM1
<1>4. CASE Enter(Vector(15)) /\ isr' = {2}
  BY <1>1, <1>2, <1>4, EntryStep DEF Vector, Slave, Vectors, IRQCODE_COM1
<1>5. QED
  BY <1>3, <1>4 DEF Spurious

\* A system call or a fault is no interrupt of the controllers: nothing is in service.
LEMMA ProgramStep ==
  ASSUME IntInv, SystemCall \/ Fault
  PROVE  IntInv'
<1>1. PICK n \in {0, 8, 13, IRQCODE_SYSCALL} : Enter(n)
  BY DEF SystemCall, Fault
<1>2. Outside /\ UNCHANGED <<irr, isr, uartvars>>
  BY DEF SystemCall, Fault, picvars
<1>3. isr = {}
  BY <1>2 DEF IntInv, InServiceIsHandled
<1>4. QED
  BY <1>1, <1>2, <1>3, EntryStep DEF Vectors, IRQCODE_COM1, IRQCODE_SYSCALL, IntInv, IntTypes

-----------------------------------------------------------------------------
(* The handler. *)

\* A step inside the handler that keeps what is in service.
LEMMA InsideStep ==
  ASSUME IntInv, NEW f \in Frame, frames = <<f>>,
         NEW l \in {"cli", "switch", "eoi", "iret"}, frames' = <<[f EXCEPT !.pc = l]>>,
         f.pc \in {"cli", "switch"}, l # "iret",
         IF_flag' = FALSE, isr' = isr, cur' \in Procs \cup {Idle}, eflags' = eflags,
         irr' \subseteq Lines, fifo' \in Nat, timeout' \in BOOLEAN, SerialLine'
  PROVE  IntInv'
<1> DEFINE g == [f EXCEPT !.pc = l]
<1>1. g \in Frame /\ g.int_no = f.int_no /\ g.pc = l
  BY DEF Frame
<1>2. ~Outside' /\ Top' = g /\ ~Outside /\ Top = f
  BY DEF Outside, Top
<1>3. IntTypes'
  BY <1>1 DEF IntInv, IntTypes, OneFrame
<1>4. (IF_flag = Outside)'
  BY <1>2 DEF Outside
<1>5. InServiceIsHandled'
  BY <1>1, <1>2 DEF IntInv, InServiceIsHandled
<1>6. QED
  BY <1>3, <1>4, <1>5 DEF IntInv

LEMMA StubCliStep ==
  ASSUME IntInv, StubCli
  PROVE  IntInv'
<1>1. PICK f \in Frame : frames = <<f>>
  BY DEF IntInv, IntTypes, OneFrame, StubCli
<1>2. ~Outside /\ Top = f /\ f.pc = "cli" /\ frames' = <<[f EXCEPT !.pc = "switch"]>>
  BY <1>1, TopOfOne DEF StubCli
<1>3. UNCHANGED <<irr, isr, cur, eflags, fifo, timeout>> /\ IF_flag' = FALSE
  BY DEF StubCli, picvars, uartvars
<1>4. ~Outside' /\ Top' = [f EXCEPT !.pc = "switch"] /\ Top'.int_no = f.int_no /\ Top'.pc = "switch"
  BY <1>2 DEF Outside, Top, Frame
<1>5. SerialPending' <=> SerialPending
  BY <1>2, <1>4 DEF SerialPending
<1>6. SerialLine'
  BY <1>3, <1>5 DEF IntInv, SerialLine, Asserted
<1>7. QED
  BY <1>1, <1>2, <1>3, <1>6, InsideStep DEF IntInv, IntTypes

\* schedule keeps IF set in every EFLAGS it stores and loads.
LEMMA SwitchedFrame ==
  ASSUME IntInv, NEW f \in Frame, frames = <<f>>, Switched
  PROVE  frames' = <<[f EXCEPT !.pc = "eoi"]>> /\ cur' \in Procs /\ eflags' = eflags
<1>1. PICK p \in Procs :
        /\ cur' = p
        /\ eflags' = IF cur = Idle THEN eflags ELSE [eflags EXCEPT ![cur] = Top.eflags]
        /\ frames' = [frames EXCEPT ![Len(frames)].pc = "eoi", ![Len(frames)].eflags = eflags'[p]]
  BY DEF Switched
<1>2. eflags = [q \in Procs |-> TRUE] /\ Top = f /\ f.eflags = TRUE /\ Len(frames) = 1
  BY TopOfOne DEF IntInv, IntTypes, Frame
<1>3. eflags' = eflags
  BY <1>1, <1>2
<1>4. eflags'[p] = TRUE
  BY <1>2, <1>3
<1>5. frames' = <<[f EXCEPT !.pc = "eoi", !.eflags = TRUE]>>
  <2>1. frames' = [frames EXCEPT ![1].pc = "eoi", ![1].eflags = TRUE]
    BY <1>1, <1>2, <1>4, Zenon
  <2>2. QED
    BY <2>1
<1>6. [f EXCEPT !.pc = "eoi", !.eflags = TRUE] = [f EXCEPT !.pc = "eoi"]
  BY <1>2 DEF Frame
<1>7. QED
  BY <1>1, <1>3, <1>5, <1>6

\* The switch of irq_handler.  Reading the byte lets the UART's line fall, or
\* leaves it up without an edge.
LEMMA HandlerStep ==
  ASSUME IntInv, irq_handler
  PROVE  IntInv'
<1>1. PICK f \in Frame : frames = <<f>>
  BY DEF IntInv, IntTypes, OneFrame, irq_handler
<1>2. Top = f /\ ~Outside /\ f.pc = "switch" /\ f.int_no >= 32
  BY <1>1, TopOfOne DEF irq_handler
<1>3. IF_flag' = FALSE /\ isr' = isr
  BY <1>2 DEF irq_handler, IntInv
<1>4. fifo \in Nat /\ timeout \in BOOLEAN /\ irr \subseteq Lines /\ cur \in Procs \cup {Idle}
  BY DEF IntInv, IntTypes
<1> DEFINE g == [f EXCEPT !.pc = "eoi"]
<1>5. ASSUME frames' = <<g>>, cur' \in Procs \cup {Idle}, eflags' = eflags,
             irr' = irr, UNCHANGED <<fifo, timeout>>
      PROVE  IntInv'
  <2>1. ~SerialPending'
    BY <1>5 DEF SerialPending, Top, Outside, Frame
  <2>2. SerialLine'
    BY <1>5, <2>1 DEF IntInv, SerialLine, Asserted
  <2>3. QED
    BY <1>1, <1>2, <1>3, <1>4, <1>5, <2>2, InsideStep
<1>6. CASE f.int_no = IRQCODE_PIT
  <2>1. Switched /\ UNCHANGED <<irr, fifo, timeout>>
    BY <1>2, <1>6 DEF irq_handler, uartvars, IRQCODE_SYSCALL, IRQCODE_PIT, IRQCODE_COM1
  <2>2. QED
    BY <1>1, <1>5, <2>1, SwitchedFrame
<1>7. CASE f.int_no = IRQCODE_SYSCALL
  <2>1. /\ Switched \/ (Goto("eoi") /\ UNCHANGED <<cur, eflags>>)
        /\ UNCHANGED <<irr, fifo, timeout>>
    BY <1>2, <1>7 DEF irq_handler, uartvars, IRQCODE_SYSCALL, IRQCODE_PIT, IRQCODE_COM1
  <2>2. CASE Switched
    BY <1>1, <1>5, <2>1, <2>2, SwitchedFrame
  <2>3. CASE Goto("eoi") /\ UNCHANGED <<cur, eflags>>
    BY <1>1, <1>4, <1>5, <2>1, <2>3, TopOfOne
  <2>4. QED
    BY <2>1, <2>2, <2>3
<1>8. CASE f.int_no = IRQCODE_COM1
  <2>1. /\ serial_rx /\ Edge(fifo', timeout') /\ Goto("eoi")
        /\ UNCHANGED <<cur, eflags>>
    BY <1>2, <1>8 DEF irq_handler, IRQCODE_SYSCALL, IRQCODE_PIT, IRQCODE_COM1
  <2>2. fifo' \in Nat /\ timeout' = FALSE
    BY <1>4, <2>1 DEF serial_rx
  <2>3. SerialPending
    BY <1>2, <1>8 DEF SerialPending
  <2>4. Asserted(fifo, timeout) /\ COM1 \notin irr
    BY <2>3 DEF IntInv, SerialLine
  <2>5. irr' = irr
    BY <2>1, <2>4, Zenon DEF Edge
  <2>6. frames' = <<g>>
    BY <1>1, <2>1, TopOfOne
  <2>7. ~SerialPending'
    BY <2>6 DEF SerialPending, Top, Outside, Frame
  <2>8. SerialLine'
    BY <2>2, <2>4, <2>5, <2>7 DEF SerialLine
  <2>9. QED
    BY <1>1, <1>2, <1>3, <1>4, <2>1, <2>2, <2>5, <2>6, <2>8, InsideStep
<1>9. CASE f.int_no \notin {IRQCODE_PIT, IRQCODE_SYSCALL, IRQCODE_COM1}
  <2>1. Goto("eoi") /\ UNCHANGED <<cur, eflags, irr, fifo, timeout>>
    BY <1>2, <1>9 DEF irq_handler, uartvars
  <2>2. QED
    BY <1>1, <1>4, <1>5, <2>1, TopOfOne
<1>10. QED
  BY <1>6, <1>7, <1>8, <1>9

\* What the EOIs of a handler leave in service: nothing.
LEMMA EoiReleases ==
  ASSUME InServiceIsHandled, ~Outside, Top.pc = "eoi", Top.int_no \in Vectors, SendEoi
  PROVE  isr' = {}
<1> DEFINE n == Top.int_no
<1>1. AfterEoi({}) = {} /\ \A l \in Int : AfterEoi({l}) = {}
  BY DEF AfterEoi
<1>2. CASE n \in 40 .. 47
  <2>1. NeedsFollowerEoi(n)
    BY <1>2 DEF NeedsFollowerEoi
  <2>2. isr \cap Master = {2}
    BY <1>2 DEF InServiceIsHandled, Master
  <2>3. isr \cap Slave = {} \/ \E l \in Int : isr \cap Slave = {l}
    <3>1. CASE n \in 40 .. 46
      <4>1. isr = {2, n - 32} /\ n - 32 \in 8 .. 14
        BY <3>1 DEF InServiceIsHandled
      <4>2. PICK l \in 8 .. 14 : isr = {2, l}
        BY <4>1
      <4>3. l \in Slave /\ \A k \in isr \cap Slave : k = l
        BY <4>2 DEF Slave
      <4>4. isr \cap Slave = {l}
        BY <4>2, <4>3, Zenon
      <4>5. QED
        BY <4>4
    <3>2. CASE n = 47
      <4>1. isr = (isr \cap {15}) \cup {2}
        BY <3>2 DEF InServiceIsHandled
      <4>2. \A l \in isr \cap Slave : l = 15
        <5>1. \A l \in isr : l = 15 \/ l = 2
          BY <4>1, Zenon
        <5>2. QED
          BY <5>1 DEF Slave
      <4>3. CASE 15 \in isr
        <5>1. isr \cap Slave = {15}
          BY <4>2, <4>3 DEF Slave
        <5>2. QED
          BY <5>1
      <4>4. CASE 15 \notin isr
        BY <4>2, <4>4
      <4>5. QED
        BY <4>3, <4>4
    <3>3. QED
      BY <1>2, <3>1, <3>2
  <2>4. AfterEoi(isr \cap Master) = {} /\ AfterEoi(isr \cap Slave) = {}
    BY <1>1, <2>2, <2>3
  <2>5. QED
    BY <2>1, <2>4 DEF SendEoi
<1>3. CASE n \notin 40 .. 47
  <2>1. isr \cap Slave = {} /\ (isr \cap Master = {} \/ \E l \in Int : isr \cap Master = {l})
    <3>1. CASE n \in 32 .. 38
      <4>1. isr = {n - 32} /\ n - 32 \in 0 .. 6
        BY <3>1 DEF InServiceIsHandled
      <4>2. PICK l \in 0 .. 6 : isr = {l}
        BY <4>1
      <4>3. isr \cap Slave = {} /\ l \in Master
        BY <4>2 DEF Slave, Master
      <4>4. isr \cap Master = {l}
        BY <4>2, <4>3, Zenon
      <4>5. QED
        BY <4>3, <4>4
    <3>2. CASE n = 39
      <4>1. isr = isr \cap {7}
        BY <3>2 DEF InServiceIsHandled
      <4>2. isr \cap Slave = {} /\ \A l \in isr \cap Master : l = 7
        <5>1. \A l \in isr : l = 7
          BY <4>1, Zenon
        <5>2. QED
          BY <5>1 DEF Slave, Master
      <4>3. CASE 7 \in isr
        <5>1. isr \cap Master = {7}
          BY <4>2, <4>3 DEF Master
        <5>2. QED
          BY <4>2, <5>1
      <4>4. CASE 7 \notin isr
        BY <4>2, <4>4
      <4>5. QED
        BY <4>3, <4>4
    <3>3. CASE n \notin 32 .. 39
      <4>1. isr = {}
        BY <1>3, <3>3 DEF InServiceIsHandled, Vectors
      <4>2. QED
        BY <4>1
    <3>4. QED
      BY <3>1, <3>2, <3>3
  <2>2. AfterEoi(isr \cap Master) = {}
    BY <1>1, <2>1
  <2>3. ~NeedsFollowerEoi(n)
    BY <1>3 DEF NeedsFollowerEoi, Vectors, IRQCODE_SYSCALL
  <2>4. QED
    BY <2>1, <2>2, <2>3 DEF SendEoi
<1>4. QED
  BY <1>2, <1>3

LEMMA EoiStep ==
  ASSUME IntInv, SendEoi
  PROVE  IntInv'
<1>1. PICK f \in Frame : frames = <<f>>
  BY DEF IntInv, IntTypes, OneFrame, SendEoi
<1>2. Top = f /\ ~Outside /\ f.pc = "eoi" /\ frames' = <<[f EXCEPT !.pc = "iret"]>>
  BY <1>1, TopOfOne DEF SendEoi
<1>3. isr' = {}
  BY <1>2, EoiReleases DEF IntInv, Frame
<1>4. IF_flag' = FALSE /\ UNCHANGED <<cur, eflags, irr, fifo, timeout>>
  BY <1>2 DEF SendEoi, uartvars, IntInv
<1>5. [f EXCEPT !.pc = "iret"] \in Frame /\ Top' = [f EXCEPT !.pc = "iret"] /\ Top'.pc = "iret" /\ ~Outside'
  BY <1>2 DEF Frame, Top, Outside
<1>6. IntTypes'
  BY <1>2, <1>3, <1>4, <1>5 DEF IntInv, IntTypes, OneFrame
<1>7. (IF_flag = Outside)'
  BY <1>2, <1>4 DEF Outside
<1>8. InServiceIsHandled'
  BY <1>3, <1>5 DEF InServiceIsHandled
<1>9. SerialLine'
  BY <1>2, <1>4, <1>5 DEF IntInv, SerialLine, SerialPending, Asserted
<1>10. QED
  BY <1>6, <1>7, <1>8, <1>9 DEF IntInv

LEMMA IretStep ==
  ASSUME IntInv, Iret
  PROVE  IntInv'
<1>1. PICK f \in Frame : frames = <<f>>
  BY DEF IntInv, IntTypes, OneFrame, Iret
<1>2. Top = f /\ ~Outside /\ f.pc = "iret" /\ f.eflags = TRUE
  BY <1>1, TopOfOne DEF Iret, Frame
<1>3. frames' = <<>> /\ IF_flag' = TRUE /\ UNCHANGED <<cur, eflags, irr, isr, fifo, timeout>>
  BY <1>1, <1>2 DEF Iret, picvars, uartvars
<1>4. isr = {}
  BY <1>2 DEF IntInv, InServiceIsHandled
<1>5. IntTypes'
  BY <1>3 DEF IntInv, IntTypes, OneFrame, Outside
<1>6. (IF_flag = Outside)'
  BY <1>3 DEF Outside
<1>7. InServiceIsHandled'
  BY <1>3, <1>4 DEF InServiceIsHandled, Outside
<1>8. SerialLine'
  BY <1>3 DEF IntInv, SerialLine, SerialPending, Asserted, Outside
<1>9. QED
  BY <1>5, <1>6, <1>7, <1>8 DEF IntInv

-----------------------------------------------------------------------------
(* The theorems. *)

\* Every step of processor, devices and handlers preserves the invariant.
LEMMA NextIntInv == IntInv /\ [IntNext]_intvars => IntInv'
<1> SUFFICES ASSUME IntInv, [IntNext]_intvars PROVE IntInv'
  OBVIOUS
<1>1. ASSUME NEW l \in Lines, Raise(l) PROVE IntInv'
  BY <1>1, RaiseStep
<1>2. ASSUME NEW l \in Lines, Accept(l) PROVE IntInv'
  BY <1>2, AcceptStep
<1>3. CASE Receive
  BY <1>3, ReceiveStep
<1>4. CASE CharacterTimeout
  BY <1>4, TimeoutStep
<1>5. CASE Spurious
  BY <1>5, SpuriousStep
<1>6. CASE SystemCall \/ Fault
  BY <1>6, ProgramStep
<1>7. CASE StubCli
  BY <1>7, StubCliStep
<1>8. CASE irq_handler
  BY <1>8, HandlerStep
<1>9. CASE SendEoi
  BY <1>9, EoiStep
<1>10. CASE Iret
  BY <1>10, IretStep
<1>11. CASE UNCHANGED intvars
  <2>1. UNCHANGED <<cpuvars, isr, irr, fifo, timeout>> /\ SerialLine'
    BY <1>11 DEF intvars, cpuvars, picvars, uartvars, IntInv, SerialLine, SerialPending,
       Outside, Top, Asserted
  <2>2. QED
    BY <2>1, DeviceStep DEF IntInv, IntTypes
<1>12. QED
  BY <1>1, <1>2, <1>3, <1>4, <1>5, <1>6, <1>7, <1>8, <1>9, <1>10, <1>11 DEF IntNext, Handler

LEMMA IntInductive == IntSpec => []IntInv
  BY InitIntInv, NextIntInv, PTL DEF IntSpec

\* No handler is interrupted, and interrupts are on whenever none runs: the
\* interrupt gates of idt.c and irq.c, the cli of the stubs, and EFLAGS with IF in
\* every saved context (scheduler.c:14).
THEOREM HandlersAreAtomic == IntSpec => []HandlersDoNotNest
<1>1. IntInv => HandlersDoNotNest
  <2> SUFFICES ASSUME IntInv PROVE HandlersDoNotNest
    OBVIOUS
  <2>1. Len(frames) <= 1
    <3>1. CASE Outside
      BY <3>1 DEF Outside
    <3>2. CASE \E f \in Frame : frames = <<f>>
      BY <3>2
    <3>3. QED
      BY <3>1, <3>2 DEF IntInv, IntTypes, OneFrame
  <2>2. QED
    BY <2>1 DEF IntInv, HandlersDoNotNest
<1>2. QED
  BY <1>1, IntInductive, PTL

\* The EOIs of irq_handler (irq.c:82-88) release what was accepted, exactly.
THEOREM EoisMatch == IntSpec => []InServiceIsHandled
<1>1. IntInv => InServiceIsHandled
  BY DEF IntInv
<1>2. QED
  BY <1>1, IntInductive, PTL

\* serial_rx (serial.c:32), which waits with interrupts off, has its byte.
THEOREM SerialNeverSpins == IntSpec => []SerialByteThere
<1>1. IntInv => SerialByteThere
  <2> SUFFICES ASSUME IntInv, ~Outside, Top.int_no = IRQCODE_COM1, Top.pc = "switch"
               PROVE  fifo > 0
    BY DEF SerialByteThere
  <2>1. Asserted(fifo, timeout)
    BY DEF IntInv, SerialLine, SerialPending
  <2>2. QED
    BY <2>1, InterruptsAssumption DEF IntInv, IntTypes, SerialLine, Asserted
<1>2. QED
  BY <1>1, IntInductive, PTL
=============================================================================
