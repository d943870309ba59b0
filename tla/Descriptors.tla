----------------------------- MODULE Descriptors -----------------------------
(***************************************************************************)
(* The tables arch_init builds: the GDT (arch/i386/gdt.c) and the IDT      *)
(* (idt.c, irq.c), whose rows scatter an address over several fields, and  *)
(* how the processor puts it together again.  32-bit numbers are integers  *)
(* modulo 2^32: 0xFFFFFFFF is written -1, of which % and \div take the     *)
(* same bits as & and >>.                                                  *)
(***************************************************************************)
EXTENDS Integers

CONSTANTS
  TssEntry,  \* the address of tss_entry
  Stub(_)    \* the addresses of isr0 .. isr31, irq0 .. irq15 (32 ..) and irq128

-----------------------------------------------------------------------------
(* The GDT. *)

GDT_ACCESS_PRESENT == 128
GDT_ACCESS_DPL_USER == 96
GDT_ACCESS_CODEDATA == 16
GDT_ACCESS_EXECUTABLE == 8
GDT_ACCESS_RW == 2
GDT_ACCESS_ACCESSED == 1

\* Mutation: the granularity is assigned, not or-ed, over the top of the limit.
set_gdt_row_assigned(base, limit, access, granularity) ==
  [limit_low |-> limit % 65536, base_low |-> base % 65536,
   base_middle |-> (base \div 65536) % 256, base_high |-> (base \div 16777216) % 256,
   access |-> access, granularity |-> granularity, limit_high |-> 0]

\* granularity_limit_high as its two halves.
set_gdt_row(base, limit, access, granularity) ==
  [limit_low |-> limit % 65536, base_low |-> base % 65536,
   base_middle |-> (base \div 65536) % 256, base_high |-> (base \div 16777216) % 256,
   access |-> access, granularity |-> granularity, limit_high |-> (limit \div 65536) % 16]

\* GDT_GRANULARITY_4K and _MODE_32BIT, the upper half.
Pages32Bit == 12

FlatSegment(access) ==
  set_gdt_row(0, -1, GDT_ACCESS_PRESENT + GDT_ACCESS_CODEDATA + GDT_ACCESS_RW
                     + GDT_ACCESS_ACCESSED + access, Pages32Bit)

sizeof_tss == 104

\* The rows init_gdt sets.
gdt == [n \in 0 .. 5 |->
          CASE n = 0 -> set_gdt_row(0, 0, 0, 0)
            [] n = 1 -> FlatSegment(GDT_ACCESS_EXECUTABLE)
            [] n = 2 -> FlatSegment(0)
            [] n = 3 -> FlatSegment(GDT_ACCESS_DPL_USER + GDT_ACCESS_EXECUTABLE)
            [] n = 4 -> FlatSegment(GDT_ACCESS_DPL_USER)
            [] n = 5 -> set_gdt_row(TssEntry, sizeof_tss,
                          GDT_ACCESS_PRESENT + GDT_ACCESS_EXECUTABLE + GDT_ACCESS_ACCESSED,
                          Pages32Bit)]

KERNEL_CODE_SEL == 8
KERNEL_DATA_SEL == 16
USER_CODE_SEL == 27
USER_DATA_SEL == 35

\* The processor's reading of a row, and of the row a selector names.
BaseOf(row) == row.base_low + 65536 * row.base_middle + 16777216 * row.base_high
LimitOf(row) == row.limit_low + 65536 * row.limit_high
RowOf(sel) == gdt[sel \div 8]
Rpl(sel) == sel % 4
DplOf(row) == (row.access \div 32) % 4
IsSegment(row) == row.access >= GDT_ACCESS_PRESENT /\ (row.access \div 16) % 2 = 1
IsCode(row) == IsSegment(row) /\ (row.access \div 8) % 2 = 1
IsData(row) == IsSegment(row) /\ (row.access \div 8) % 2 = 0
IsTss(row) == row.access >= GDT_ACCESS_PRESENT /\ row.access % 32 = 9
IsFlat(row) == BaseOf(row) = 0 /\ LimitOf(row) = 1048575 /\ row.granularity \div 8 = 1

-----------------------------------------------------------------------------
(* The IDT. *)

KERNEL_INTERRUPT_GATE == 142
USER_INTERRUPT_GATE == 238

set_idt_row(base, sel, flags) ==
  [base_lo |-> base % 65536, sel |-> sel, flags |-> flags, base_hi |-> (base \div 65536) % 65536]

EmptyGate == set_idt_row(0, 0, 0)

\* The rows init_idt and init_irq set.
idt_row(n) ==
  CASE n < 48  -> set_idt_row(Stub(n), KERNEL_CODE_SEL, KERNEL_INTERRUPT_GATE)
    [] n = 128 -> set_idt_row(Stub(n), KERNEL_CODE_SEL, USER_INTERRUPT_GATE)
    [] OTHER   -> EmptyGate

\* The processor's reading of a gate.
OffsetOf(gate) == gate.base_lo + 65536 * gate.base_hi
IsPresent(gate) == gate.flags >= 128
GateDpl(gate) == (gate.flags \div 32) % 4
=============================================================================
