# RAZZLE: TLA+ models and proofs

RAZZLE is a small monolithic i386 kernel: a fixed process table with a
round-robin scheduler, six system calls, PS/2 and serial input, a VGA console, a
PCI scan, a RAM block device and a toy file system.  This directory holds TLA+
models of the parts of it that have behaviour worth checking, the TLC
configurations that check them on small instances, and proofs, checked by
TLAPS, for instances of every size.

`PROJECT.json` lists the components, the runs, the source lines every
definition models, the hazards, and the theorems.

## 1. The system

| Part | State | Operations | Works with |
|---|---|---|---|
| process table and scheduler (`kernel/scheduler`, `arch/i386/scheduler`) | `process_table[128]` (state, registers, address base), `current_pid` | `init_process_table`, `start_process`, `get_next_pid`, `schedule` (store and load registers) | called by `kernel_main`, by the timer interrupt and by `yield`, `getc`, `exit` |
| system calls (`kernel/syscall`) | none of its own | `yield`, `getc`, `exit`, `lspci`, `lsproc`, `powerctl` through `int 0x80` | changes the table and `ps2_waiters`; answers in the caller's `eax` |
| interrupt entry (`arch/i386/irq.*`, `isr.s`, `idt.c`) | the IDT | one stub per vector, `irq_handler`, `fault_handler` | calls everything above and the input drivers |
| keyboard and serial input (`drivers/ps2`, `drivers/serial`) | `ps2_waiters[128]`, `kstate` | `handle_keypress`, `handle_keypress_char` | writes the character into the *saved* registers of waiting processes and makes them ready |
| programs and spin locks (`supp/test_processes.c`, `asm.c`) | `lock` (printf), `lock2`, `counter`, the shell's line | `test_razzle`, `test_dazzle`, `sl_acquire`, `sl_release` | two processes that share two locks and can be preempted anywhere |
| NQFS (`drivers/fs/nqfs`) | inodes and storage blocks on the device | create, append, read, block allocation | every access is a sector read or write of the device |
| RAM block device (`drivers/blk/ramblk`) | the bytes of the device | read and write a sector, with bounds tests | used by NQFS |
| VGA console (`drivers/vga`) | ring of rows, cursor, two scroll positions | `VGA_putc`, `VGA_flush`, `VGA_clear_screen` | called by `putc`, `kernel_main` and `fault_handler` |
| formatted output (`kernel/io`) | printf's `lock` | `printf`, `printf_nolock`, number formatting | called by programs and kernel; writes to console and serial port |
| PCI enumeration (`kernel/pci`), id database | `pci_devices_list[256]` | bus scan at boot, name search | `lspci` |
| ACPI (`kernel/acpi`) | none | search for the root pointer | boot only, before the PCI scan |
| GDT and IDT (`arch/i386`) | constant tables | rows built field by field | every interrupt and every return from one |
| memory helpers (`kernel/memory`) | the caller's | byte loops | everything above |
| panic (`kernel.c`) | none | `fault_handler`, `process_debug` | prints under whatever lock state the fault left |

What is hard about it:

* **Preemption.** A timer interrupt can come between any two instructions of a
  program.  The scheduler copies the trap frame into the table and another
  process's registers into the trap frame; nothing else keeps programs apart.
* **Wake-ups.** `getc` blocks its caller and enters it in `ps2_waiters`, if
  there is room; the key press writes its result into saved registers.  Order,
  room and identity all matter.
* **Waiting with interrupts off.** `get_next_pid` loops until it finds a slot.
  If no process is ready it never returns, and the interrupt that could make
  one ready is masked.
* **Locks under preemption.** The shell holds `lock2` over whole commands and
  takes printf's `lock` inside it, while `test_razzle` spins on `lock2`.
* **Acknowledging interrupts.** One EOI command for every vector, system calls
  and spurious interrupts included, to two cascaded controllers; the UART requests
  by edges while its handler reads one byte at a time.
* **The trap frame.** Processor, stubs and C agree on nineteen words only by
  convention, and the scheduler replaces most of them half way.
* **Faults.** The report goes through the same lock as everybody's output, with
  interrupts off.
* **Rings and 8-bit counters.** The console turns a ring of rows with `uint8_t`
  indices; the PCI scan counts slots in one.
* **Partial failure and boundaries.** NQFS allocates, marks, links and counts in
  separate sector writes, and the device refuses some of them.

There is one processor, no persistent storage and no network, so crash recovery
and unreliable delivery do not arise.

## 2. The modules

| Module | What it is |
|---|---|
| `Kernel` | scheduler, system calls, input interrupts, boot and panic |
| `VirtualCpus` | abstract specification: every process has a processor of its own |
| `RoundRobin` | `Kernel` with a history variable that counts how often a ready process is passed over |
| `TestProcesses` | the two real programs and their spin locks, composed with `Kernel` |
| `Panic` | `fault_handler` and `process_debug`, composed with `TestProcesses` |
| `Interrupts` | gates, stubs, `irq_handler` and EOIs against the interrupt controllers and the UART |
| `Descriptors` | the rows of GDT and IDT and how the processor reads them |
| `EntryFrames` | the words pushed and popped around a handler, on `Descriptors` |
| `Keyboard` | the scan-code decoder fed by a keyboard |
| `Console` | the VGA driver's ring of rows under all the output it gets |
| `Rsdp`, `Pci` | the two searches at boot |
| `Boot` | `kernel_main` up to the process table: `Rsdp`, then `Pci` |
| `Format`, `Memory`, `Shell` | `printf`'s conversions, the memory helpers, the shell's command line |
| `Library` | any one of those three, for one run |
| `Nqfs` | the file system on the RAM block device |
| `KernelProofs` | theorems about `Kernel`, `RoundRobin`, `TestProcesses` and `Panic` |
| `InterruptsProofs`, `EntryFramesProofs`, `KeyboardProofs`, `ConsoleProofs`, `FormatProofs`, `NqfsProofs` | theorems about the module of that name |
| `SequentialProofs` | theorems about `Rsdp`, `Pci`, `Memory` and `Shell` |
| `MC*` | values of the constants for TLC |

Operators named "Mutation" in a comment are plausible mistakes in the definition
that follows them.  No specification uses them; substituted for that definition,
each makes TLC report a property violated, which shows that the property depends
on what the code does.

### Kernel

One action is one handler, from trap to `iret`.  This is the code's own
atomicity: all gates of the IDT are interrupt gates (`idt.c`, `irq.c:34-55`),
every stub starts with `cli` and nothing enables interrupts before the `iret`.
`process_table` is split by field into `task_state`, `registers` and `task`.  A
`struct regs` keeps `eax` (call number and result), `ecx` (length argument) and
`eip`, which stands for everything else the scheduler copies.  `cpu` is the
processor's register file and, in a handler, the trap frame `r`.

`mode` says where the processor is.  Besides the steps of `kernel_main` it has
`idle` (the loop at the end of `kernel_main`), `user`, and three ways to stop:
`spin` (the search in `get_next_pid` that cannot end), `panic` (the loop at the
end of `fault_handler`) and `off`.

Programs are arbitrary: `Instructions` is any relation between the registers
before and after an instruction, and any call can follow.  Only programs in `Background` are
restricted: they call neither `getc` nor `exit`, as `test_razzle` does not.

Boundary cases kept from the code: `current_pid` is 129 before the first switch
and the registers of the idle loop are then not stored (`store_registers` writes
where it is told to, so a store there would enlarge `registers`, which `TypeOK`
sees); `getc` blocks its caller
even when it finds no free waiter; every waiter gets the same character; a key
without a character changes nothing; `\r` becomes `\n`, DEL becomes backspace,
and a serial byte above 127 is sign-extended into `eax`.

### VirtualCpus

No scheduler, no timer, no table: a process has its own register file, changed
only by an instruction of its program (`Execute`, a pair of `Instructions`), by the
number of entries its own `lspci` or `lsproc` is answered with, and by the one
character a `getc` delivers.  A switch that dropped or misloaded a register would
change the file of a process by none of these.  `Kernel`
implements it under the mapping `OwnRegisters`: the registers of the current
process are those in the processor, those of every other process are in the
table.  This is the statement that multitasking is invisible to programs.

### TestProcesses

The instructions of `test_razzle` and `test_dazzle` that touch shared state, one
action each, with `eip` as program counter, running on the actions of `Kernel`.
`sl_acquire` is one round of the `bts`/`jc` loop.  The shell's line is its
length; what a command prints is its number of `printf` calls.  `ran` records
that the running process has executed since its dispatch; the timer waits for
it (see Fairness).

### Panic

`Fault` may strike the running process at any of its steps, whoever else is
preempted where.  The heading is printed by `printf` and waits for its lock like
everybody; the table is printed by `printf_nolock`.  Nothing else runs, so one
`printf` is one step.

### Interrupts

`Kernel` takes a handler as one step.  This module has the steps between: the
gate, the stub's `cli`, the switch in `irq_handler`, the EOIs, the `iret`.  The
controllers are edge triggered and fully nested, as `remap_irq` leaves them, with
spurious interrupts; the UART has a FIFO, a trigger level and a character
timeout, as `serial_init` sets them.  The hardware is external: its actions state
what data sheets say, as far as the kernel programs it.  `late` remembers that a
byte arrived on top of `TRIGGER` waiting ones.  The run starts where `kernel_main`
enables interrupts.  `serial_init` has let the UART receive long before that
(`kernel.c:25`), so there may be bytes in the FIFO; a request of the UART is pending
only if its line rose after `remap_irq` set up the controllers, and `early` remembers
that the line was up without one.

### Descriptors and EntryFrames

A register holds a tagged value (whose, which, version), so that a word that ends
up in the wrong place is seen.  `Interrupt` is the processor's part and reads the
real rows of `Descriptors`; `EnterKernel` is the stub; `irq_handler` sees the
stack through `struct_regs` only; `Return` pops.  `BootCs` is what the boot loader
may have left in `cs`.

### Console

The driver's state is one record, its functions operators on it; one `printf` is
one action, whose characters are folded over `VGA_putc`.  The text printed since
the screen was cleared is kept as history, and the properties compare the display
with it.  `lost` marks the two situations in which the driver loses track of what it
shows: an erasure that goes back over the left margin of ring row 0 or before the
display has scrolled, and a screen cleared while its last row or `move_row` is not
clear.  `DisplayShowsText`, `CursorFollowsText` and `MoveRowCountsBack` claim nothing
from there on; `StaysInBuffer` and `ClearedScreenShown` go on.  `crossed` marks the
first erasure that goes back from ring row 0: the row number becomes 255, and the
blank of the erasure is written outside `vga_buf` (`stray`), after which anything may
happen and the run ends (constraint `NotStray`).

### Boot, Rsdp and Pci

What is at an address is told apart by what `validate` looks at.  The PCI scan
probes one slot a step.  `pci_devices_list` has `PCI_MAX_DEVICES` entries;
`list_overrun` records that one was written behind it.  The id database is a sequence
of lines, and the name search is taken a line at a time: its automaton compares four
digits and copies a name, or waits for the next line.  Lines that begin with `#` are
of two kinds, because the automaton looks for the `#` only where the first digit is
due (`pci.c:96`): a `tabbed` one has a tab and an id behind it, and is read like a
device's line once the vendor is found.

### Format, Memory and Shell

`Format` walks a format one character a step, and the recursion of the number
printers is a stack of characters still to print.  `Memory` runs its loops one
iteration a step, on blocks that may overlap.  `Shell` has the real `command`
array, uninitialised, and the stack behind it; `long` remembers that a line did not
fit, from where on nothing is claimed, since `prompt` and `i` lie on that stack too.  `Library` is the sum of the three,
which share no state: a behaviour of it is a behaviour of one of them.

### Nqfs

Operations are sequences of actions, one per loop iteration, each with the
sector reads and writes of that iteration.  A sector is a record instead of 512
bytes; names and padding are left out.  Bounds tests are computed modulo `WORD`,
as the 32-bit arithmetic of `ramblk.c` is.  `refused`, `written` and `orphans`
are history variables.

Handles are what the code makes them: `NQFS_create_file` returns the *sector*
of the inode, so the files whose inodes share a sector share a handle, every
operation works on the first inode of that sector, and the handle of the first
sector equals the error value 0.

### Keyboard

`handle_keypress` byte by byte, with the complete key table of the driver.  The keyboard is
external: keys go down, repeat and go up, each event queues its scan code (after
E0 for extended keys), and interrupts read the queue one byte at a time, possibly
late.  Each queued byte remembers, as history, the key it presses and the state of
the keyboard when it was sent.  What a key stands for is not taken from the driver but
from the US layout (`Legend`: `LetterKeys`, `OtherKeys`), and `Departs` names where the
driver is different: Esc is taken for the key of the backtick (`ps2.c:6`), whose own
code and the number block are unknown, the prefix E0 is not looked at, and caps lock
acts as a shift key for all characters.  Caps lock also toggles again at every repeat.  The fake shift
codes some keyboards send around Print Screen are not modelled, nor is a full
queue: the handler runs within microseconds of the key.

## 3. The runs

| Run | Checks | Instance | States |
|---|---|---|---|
| `kernel` | `TypeOK`, `BlockedHasWaiter`, `RunningIsReady`, `BackgroundPreventsSpin`, `BoundedOvertaking`, `ImplementsVirtualCpus` | a background program and two shells that fill a table of 3 | 212,932 |
| `kernel_fair` | `ReadyRuns` | two shells that may both block or exit, every system call and an invalid one, a free slot, the timer fair | 71,658 |
| `programs` | `LocksHeld`, `ReportComplete`, `ReportNotMixed`, `ShellReturns`, `CounterCounts`, `PanicReported` | the two programs, table of 3, counter modulo 2, lines of up to 2 characters, five kinds of fault | 417,467 |
| `interrupts` | `HandlersDoNotNest`, `InServiceIsHandled`, `SerialByteThere`, `RequestsServed`, `SerialServed` | two processes, lines 0, 1, 4, 8 and 12, a FIFO of 3 with trigger 2 | 80,448 |
| `entry_frames` | `ProcessSegments`, `LoopResumes`, `FrameFits`, `ResumesAsInterrupted` | two processes, eight vectors with and without error code, two boot selectors | 3,662 |
| `keyboard` | `ModifiersFollow`, `CharsAsTyped` | 2 shift keys, caps lock, Esc, a letter, a digit, a key above 63, two extended keys, a queue of 4 bytes | 7,369,340 |
| `console` | `DisplayShowsText`, `CursorFollowsText`, `MoveRowCountsBack`, `StaysInBuffer`, `ClearedScreenShown` | a screen of 4 rows of 2, up to 10 rows of text, lines of up to 6 characters | 1,395,527 |
| `boot` | `EndsAtLowest`, `EveryDeviceListed`, `KnownDeviceNamed`, `BootProceeds` | every memory of 4 addresses; up to 3 devices on 8 buses and a list of 12; every id against every database of up to 5 lines | 1,088,992 |
| `library` | `PrintsFormat`, `Helped`, `RunsWhatWasTyped` | all 12-bit words, all formats of up to 5 characters; all blocks of 5 bytes; an array of 4 characters and lines of up to 5 | 804,615 |
| `nqfs` | `NoSharedBlocks`, `BlocksAccountedFor`, `FileHoldsAppends`, `AccessesAccepted` | 2 inode sectors of 2 inodes, 5 data sectors of 2 bytes | 115,342 |
| `nqfs_read_count` | `ReadReturnsCount`: **violated** | as `nqfs` | |
| `nqfs_last_sector` | `RefusedOutOfBounds`: **violated** | as `nqfs` | |

What they show:

* No wake-up is lost: a process is blocked exactly when one allocated waiter
  names it.  The missing "no free waiter" case of `getc` cannot occur, because
  there are as many waiters as processes and no process holds two.
* Only ready processes run; `test_razzle` alone keeps the machine from the endless
  search.  Without such a program the kernel does stop when the last process
  blocks: `kernel_fair` reaches it.
* Preemption, switching and key presses never mix up registers: no switch changes
  one register of any process.
* A ready process runs after at most `MAX_PROCESSES - 1` turns of others.
* A lock is taken exactly while one process is in its critical section,
  preempted or not, and the shell always returns to its prompt.
* A fault is reported in full whenever printf's lock was free when it struck, and
  never in the middle of somebody's line.  When the lock was held the handler
  spins for good: the excuse `held = 0` in `PanicReported` is needed.
* Handlers never nest, so the atomicity of `Kernel` and the single kernel stack
  are justified; the EOIs release exactly what was served; `serial_rx` never waits;
  received bytes are read, unless one arrives on top of `TRIGGER` waiting ones:
  the line then stays up after the read, and without an edge no interrupt of the
  port follows, so the bytes stay.  The same happens to bytes whose edge came before
  `remap_irq` set up the controllers.
* Every process resumes with its own registers on flat user segments, and what
  `fault_handler` reads is what was interrupted, except after vectors 8 and 17.
* The display shows the end of the text however the ring has turned, up to `lost`;
  after the first scroll it has a blank row at the top, and in the row the first
  scroll brings in, the cells behind the cursor still show the old first row.
* Lost or not, the cursor is in the text's row of the ring and nothing is written
  outside `vga_buf`, until an erasure goes back from ring row 0; and a screen that was
  cleared in whatever state, by a panic too, shows the new text from the top and
  nothing else, up to its last row.
* The lowest valid root pointer is found.  The scan overruns its list exactly on
  machines that need more entries than it has, which takes devices on high buses,
  listed up to 27 times each; on all others no device is missed.  A known device gets
  its own names unless its line is also there commented out; the boot proceeds unless
  the pointer is of ACPI 2.
* `printf` prints its format, apart from two oddities the reference definition
  spells out (below); helpers and shell do what they are asked to do; the command
  array is left only by a line that does not fit it.
* Block chains of NQFS stay disjoint, allocation never hands out a block twice or
  one that could not be marked, and a file holds what was appended, **unless** an
  append started at the end of a full last block: then the block it takes is
  linked only in memory (`nqfs.c:136`) and lost.  `orphans` records these blocks,
  and the properties say exactly that much.
* No shift key gets stuck, and late bytes are still decoded with the modifiers of
  the moment they were typed, to the character on the key except where `Departs` says.

The two violated properties are statements of the repository the code does not
keep.  `nqfs.h:26` says `NQFS_read_bytes` "Returns number of bytes read into
char"; it returns the number of bytes it did *not* read.  The comment at
`ramblk.c:24` calls a refused sector "Out of bounds"; the last sector of the
device is refused too.

Behaviour of the code that looks unintended and that the models contain, as it is,
with the definition that shows it:

* `isr8` and `isr17` push an error code although the processor has pushed one, so
  a panic's EIP is the code (`FrameFits`).
* A double fault announces "(Ignoring)" (`kernel.c:71`) and then stops like every
  other fault (`Panic`).
* "RSDP Found" is printed whether one was found or not, and the search of the
  EBDA looks at one address 65 times (`EbdaStep`, `EndsAtLowest`).
* The name search runs on into the sections of other vendors, and behind the vendor's
  line it reads a `#` line with a tab in it, although a comment says "If we see a
  comment, ignore" (`pci.c:95`, `Matches`, `KnownDeviceNamed`).  The `pci.ids` that is
  built in has no comment with an id behind a tab.
* Esc types a backtick, and the backtick's key nothing (`Departs`).
* The last digit of a negative number is printed as a character below '0', and
  `print_hex` drops zeros at the end: 256 is "0x1" (`SignedDecimal`, `Hex`).
* `VGA_clear_screen` leaves the last row and `vgabuf_move_row` as they are, and
  erasing below ring row 0 takes the row number to 255 (`VGA_clear_screen`,
  `Disorients`).
* `pci_get_device` takes the class code from the command register's word; nothing
  reads it.

### Bounds

* `MAX_PROCESSES = 3`: the current process, one before and one behind it in the
  cyclic order, a full table and, in `kernel_fair` and `programs`, one with room.
  The theorems cover every size.
* `Instructions` loads every call number the run needs and, where answers matter, a
  length below and above what there is to list.
* `LINE_MAX` bounds what is typed into a line in `programs`; two characters reach
  every branch of the switch.  `Shell` lets lines outgrow the array by one.
* `interrupts`: the timer, the keyboard, the serial port, the first line of the
  follower and another; two processes suffice to switch away and back.  A FIFO of
  one more than the trigger level reaches every relation of the two.
* `entry_frames`: stub addresses on both sides of a multiple of 2^16, and a TSS
  address with four different bytes, so that exchanged fields show.
* `console`: ten rows turn the ring of four twice; five typed characters make
  lines wrap twice, and erasures go back over both margins.  Once lost, `move_row` can
  be driven through all its 256 values by erasing and typing again; `NotFarApart`
  stops it at a distance of 4, a full turn of the ring, from `start_row`.
* `boot`: slots have two more bits than devices, as 256 has three more than 32;
  one of them would not show how aliases multiply.  Three devices need up to 27
  entries, and the list has 12.  The scan's limit and the EBDA
  loop are reached in four and three steps.
* `NIBBLES = 3` gives hex digits a first, an inner and a last place; formats of
  five characters hold any two directives, and runs of one to five `%`.
* `Nqfs`: blocks of two bytes and inputs of 0 to 5 bytes make appends end
  before, at and after block boundaries and span three blocks; of the five data
  sectors the device lets four be written, so every operation that allocates
  also meets a full device.
* `QUEUE_BYTES = 4` lets two extended events or four others wait.

Deadlock is not checked where the system really stops: in `spin`, `panic` and
`off` (`kernel`, `kernel_fair`, `programs`), at the end of the boot and of a call
(`boot`, `library`), at the bound on the text (`console`), and in a fault, whose
handler does not return (`entry_frames`).  It is checked for `interrupts`, `nqfs`
and `keyboard`.

### Fairness

* `FairSpec` (`kernel_fair`): weak fairness of the timer only.  The PIT is never
  masked and every handler that returns has sent the EOI.  Nothing is assumed of
  programs, keys, or the serial line.
* `PanicFairSpec` (`programs`) adds that the processor executes the process it
  was given, or the panic handler.  `Tick` waits until the process has executed
  one step since its dispatch: a PIT period is some tens of milliseconds, many
  thousands of instructions.  Without that a tick could forever follow a dispatch
  immediately, which the hardware excludes.
* `IntFairSpec` (`interrupts`): handlers are executed and the UART's timer runs
  (weak), and a request that is deliverable again and again is accepted (strong):
  it is withheld only while a handler runs or a line of higher priority is served.
  A device requests again only when everything pending at its last request has
  been served (`raised`), as the rates of the devices are thousands of times
  below the processor's; otherwise the timer could starve all others.
* `BootSpec` (`boot`): the processor executes.

## 4. The proofs

A theorem holds for every value of its module's constants that satisfies the
assumption named there (`KernelAssumption`, `NqfsAssumption` and so on): sizes are
positive, a boot pid is outside the table, at most as many programs as slots,
addresses have 32 bits, words at most eight hex digits, stubs are at different
addresses.  TLC evaluates these assumptions on the runs.  Each theorem comes from an
inductive invariant that TLC has also checked on small instances.

**KernelProofs.** The inductive invariant is

    IInv == TypeOK /\ BlockedHasWaiter /\ RunningIsReady
            /\ SpinOnlyWhenNothingReady /\ BootOrder /\ BackgroundReady

None of its parts is inductive alone.  `BlockedHasWaiter` needs
`RunningIsReady`: if the caller of `getc` were already blocked, it would get a
second waiter.  It also needs a free waiter to exist, by counting: were all
waiters allocated, they would name `MAX_PROCESSES` different blocked processes,
and the caller, who is ready, would be one more (`WaiterFree`).
`RunningIsReady` needs `BlockedHasWaiter`, so that a key press makes only
blocked processes ready.  `BootOrder` says what the boot steps have done so far;
`BackgroundReady` says that the k-th program lives in slot k - 1 and that a
background program stays ready, which is why `schedule` finds somebody.  `NextPidFirst` is the lemma about
`get_next_pid`: it returns the first slot in the wanted state, cyclically.  From
`IInv` follow `Typing`, `NoLostWakeup`, `DispatchedReady` and
`BackgroundKeepsRunning`.  `SpinOnlyWhenNothingReady` is `schedule`'s own test, kept
there for the last of them.

`TimeSharingIsInvisible` is the refinement, `Spec => ImplementsVirtualCpus`.
A switch is a stuttering step of `VirtualCpus` because storing the trap frame and
loading another leaves `OwnRegisters` as it is (`SwitchKeepsRegisters`).  The
other handlers map to `Launch`, `List`, `Wait`, `Deliver` and `Leave`, and an
instruction to `Execute`.
`Deliver` reaches exactly the blocked processes by `BlockedHasWaiter`.

`OvertakingBounded` is about `RoundRobin`: with `Ahead(c, p)` the number of slots
the search after slot `c` inspects before slot `p`, a process that is ready
satisfies `passed[p] + Ahead(current_pid, p) <= MAX_PROCESSES - 1`.  Every switch
that does not choose `p` stops before `p`, so `Ahead` falls by at least one while
`passed` grows by one.

For `TestProcesses` and `Panic`, `TPInv` adds to `IInv` what a process can be doing at each label.
`Kernel` lets programs load any register contents of the right type; that the real
programs do is not obvious, since `eax` holds what a system call left there.
`Consistent` therefore says, for the registers of every live process wherever they
are, that `eip` is a label, that a process about to trap has the number its label
loads, that it finds a count in `eax` after a listing, and that it blocks in `getc`
only.  `LockInv` is mutual exclusion in the form that is inductive: a lock is free
and nobody is inside, or it is taken and exactly one process is.  It follows the
locks through every switch because `FileOf`, the registers of a process, is
unchanged by one.  From it `MutualExclusion`, `MutualExclusionInPanic` and
`ReportUnmixed`.  `ReportInv` says how many lines of the heading are out, and that
the table printed so far lists the live processes below `pid` once, in order;
`ReportIsComplete` follows by counting.

**InterruptsProofs.** `IntInv`: at most one frame is on the stack; every frame and
every process that does not run has interrupts on in its saved `eflags`; the
processor's `IF` is set exactly outside handlers.  The middle part is what makes
the others inductive: an `iret` can only switch interrupts on where no handler
runs.  `InServiceIsHandled` is inductive with it, one line of a cascade at a time,
spurious interrupts included.  For `serial_rx` the invariant follows the UART's
line: from the edge that leaves a request until the handler reads, the line is up
and no second request waits, and a line that is up means a byte (`SerialLine`).
Theorems `HandlersAreAtomic`, `EoisMatch`, `SerialNeverSpins`.

**EntryFramesProofs.** `EFInv` has one part for every place of the processor:
running, behind the gate, in the handler or in a fault.  It says which word is at
which depth of the stack, for a process and for the loop of `kernel_main`, where
the frame is two words shorter, and that a process that does not run has in the
table what it was interrupted with.  The lemmas `StubAddress` and `TssAddress`
show, by arithmetic on bytes, that the processor reads from a row the address
`set_idt_row` or `set_gdt_row` was given, for all 32-bit addresses.  Theorems
`SegmentsAreUser`, `LoopSurvives`, `HandlersReadTheFrame` and `ProcessesResume`.

**KeyboardProofs.** Every byte in the queue carries the modifiers of the moment it
was sent.  `Leads` links them: the driver's modifiers are those of the first byte,
decoding each byte changes them to those of the next, and the last one to those of
the keyboard now.  An event appends to that path and an interrupt takes its first
step, so the path survives any delay.  What decoding a byte does is a lemma per
kind of key, with the complete table of 88 keys.  Theorems
`ModifiersAreTheKeyboards` and `CharsAreTheOnesTyped`, which compares the driver's table
with the layout key by key.

**NqfsProofs.** `OnePointer`, `MarksInv` and `InodesInv` are about single pointers:
none leads to a block another leads to, a block is marked exactly if a pointer or a
loss accounts for it, and marks are only on blocks the device accepted.
`FilesAreSeparate`, `NoBlockLost` and `DeviceAccepts` need no more.  What a file
*holds* is about chains, and the invariant says that there are chains `C`, one
sequence of blocks per file, disjoint, which the pointers trace, and that an append
that goes on stands in the chain of its file (or in a lost block).  Each action
gives the chains after it as a witness: `C` itself, or `C` with a block appended.
`FileHoldsAppends` reads the file by following pointers (`ChainOf`); that this
yields the chain of the invariant is `ChainOfFollows`, by a least counterexample,
as there is no induction over sequences, and the chain is no longer than the device
because its blocks are distinct (`ChainFits`).  Theorem `FilesHoldWhatWasAppended`.

**SequentialProofs.** Loop invariants.  `RsdpInv`: nothing below the address looked
at is a root pointer (`LowestFound`).  `MemInv`: the bytes compared so far are
equal, or those copied so far are written and the rest untouched; for overlapping
blocks only as far as `CopiesForward` allows (`HelpersHelp`).  `ShellInv`: the line
typed is at the beginning of the array, whatever an earlier line or an erasure left
behind it; `StringIsText` then turns the 0 written at its end into what `streq`
reads (`RunsTheLine`).

For the scan of `Pci` the loops have been at all slots before the present one, and a
slot is reported once if a device answers there and not otherwise (`PciInv`).  How
often a device is listed is then a count: the addresses at which it answers
correspond one to one to the ways of giving each low bit of its bus number to the
bus, the slot or both (`AddressChosen`, `ChoicesDiffer`), and the cardinality of a
product gives `Aliases` (`AnswersCount`).  The list is overrun when that many
entries, over all devices, are more than it has (theorem `ScanComplete`).  For the names
(`NamesInv`, theorem `NamesComplete`) the search through the id list is unfolded line
by line: nothing happens before the vendor's line, one state lasts from there to the
first line with the device's id, commented out or not, and nothing changes after it
(`NamesFound`).  The list
is assumed to be one (`IdList`): every vendor once and with a name, every device once
in its section.  `supp/pci_supp.c` is: its 2,423 vendors are distinct and named, and no
section repeats a device.

**ConsoleProofs.** The invariant `ConsoleInv` does not speak of the display but of the
ring: `Follows` relates the driver's four numbers and its cells to the rows of the
text, those no longer remembered and the line being written, which takes `e` rows.  A
`printf` is a fold over its characters; it is unfolded one
character at a time (each kind of character has its lemma: one that fits, one that
wraps, a newline, an erasure in the row and one over the margin), and a least
counterexample carries the relation along the string.  That the display, which
`VGA_flush` copies from two parts of the ring, then shows the text is arithmetic modulo
`HEIGHT`, for any height and width that fit the 8-bit variables.  Theorems
`DisplayShowsTextUntilLost`, `CursorFollowsTextUntilLost`, `MoveRowCountsBackUntilLost`.
For `CursorStaysInBuffer` a second, weaker invariant needs no `lost`: `RingInv` relates only the
cursor's row and column to the length of the text (`Tracks`), which the scrolling of the
display does not touch.  The
proof found a mistake of an earlier model: the two arms of the `CASE` for a line feed
overlapped, and TLC had always taken the first.

**FormatProofs.** `FmtInv`: what is out, together with what the routine that runs has
yet to print, is the text of the format up to `at` (`TextTo`).  The routines have their
own forms of it.  In `print_uint` and `print_int` the output, the digits of `x` and the
frames in reverse make up the text (`Printing`); a call moves one digit over, because
the digits of a number are those of its tenth and then its last one (`DecimalGrows`).
The first call for a negative number is a case of its own (`NegativeKept`): it leaves
the odd last digit in the outermost frame and goes on with a positive number.  In
`print_hex`, after `j` iterations, `x` is the argument without its first `j` digits,
shifted up, and the digits from the first that is not 0 are out (`HexAt`); the loop
ends where only zeros are left, which is where `Hex` ends (`HexPrints`).  In `printf_base`
`at` is never the character of a directive, and of a run of `%` every other one starts one
(`DirectiveNext`), so the piece a step prints is the next one of the text.
`FlattenSeq` and the number of digits are unfolded with least counterexamples in place
of induction.  Theorem `PrintfIsRight`, for formats of any length, any argument and
words of up to eight hex digits; the code's have eight.

Only model-checked:

* `ReadyRuns`, `ShellReturns`, `CounterCounts`, `PanicReported`, `RequestsServed`,
  `SerialServed` and `BootProceeds`: liveness under fairness is out of this prover's
  reach.
* `ClearedScreenShown`: what a lost driver shows after a screen is cleared.
* The two findings, which are violations.

## 5. Not modelled

* `supp/pci_supp.c`: the bytes of `pci.ids` as one generated array, 105,264 of the
  repository's 107,438 lines of C.  It is data without control; `Pci` takes every
  small database instead.  The longest name in the file has 119 characters, below
  the 128 of the name fields, so the copy stays inside them.  The models cover
  most of the remaining two thousand lines.
* Of `pci.c`: the words of an entry that are copied and never used (class, base
  addresses), and the text of hex digits in `ascii_byte_to_num`.
* `find_table` of `rsdp.c`: it has no caller.
* `loader.s`: it sets a stack and calls `kernel_main`.
* `serial_tx` waits for the transmitter, which always drains; the bytes sent are
  those `Format` prints.
* Port access from ring 3 and the I/O bitmap of the TSS.
* The block-device registry declared in `blk.h`: its code is not in the
  repository.
* Memory of the processes: there is no protection and no virtual memory, so a
  program can write anywhere; the models assume that programs keep to their own.
* Colours, wording and logging.

## 6. Plan

Done, in this order: `Kernel` and its abstract specification; its proofs and the
refinement; `RoundRobin`; `TestProcesses`; `Nqfs`; `Keyboard`; `Console`; `Format`,
`Memory` and `Shell`; `Rsdp`, `Pci` and `Boot`; `Panic`; `Interrupts`; `Descriptors`
and `EntryFrames`.  Then the theorems: `Interrupts`, `Keyboard`, `TestProcesses` and
`Panic`, `Nqfs`, `EntryFrames`, the routines that run alone, `Console`, `Pci`
and `Format`.

Left: a theorem for `ClearedScreenShown`, the one safety property of the runs without
one.  Liveness stays with TLC.
