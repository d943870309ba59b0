-------------------------------- MODULE Rsdp --------------------------------
(***************************************************************************)
(* The search for the ACPI root pointer (kernel/acpi/rsdp.c) at boot: every *)
(* address below 1 MB, then the extended BIOS data area.  What is at an    *)
(* address is told apart by what validate looks at: the signature, the sum *)
(* of twenty bytes and the revision.                                       *)
(***************************************************************************)
EXTENDS Integers

CONSTANTS
  LIMIT,    \* the last address of the scan, 0x000FFFFF
  EBDA_END  \* the last offset of the second loop, 1024 in steps of 16

Addresses == 0 .. LIMIT
Contents == {[sig |-> FALSE, sum |-> 1, revision |-> 0]}
            \cup [sig : {TRUE}, sum : {0, 1}, revision : {0, 2}]

ASSUME RsdpAssumption == LIMIT \in Nat /\ EBDA_END \in Nat

VARIABLES
  memory,  \* what is at each address
  ebda,    \* the address the BIOS leaves at 0x40e, below 1 MB
  pc,      \* "scan", "ebda", "announced", or "unsupported": the loop of validate
  addr,    \* addr of the scan, then i of the second loop
  ptr,     \* the address looked at last
  found

rsdpvars == <<memory, ebda, pc, addr, ptr, found>>

-----------------------------------------------------------------------------
\* Mutation: the sum is not looked at.
validate_unsummed(a) == memory[a].sig

\* validate, but for its endless loop.
validate(a) == memory[a].sig /\ memory[a].sum = 0

\* A root pointer of ACPI 2 makes validate print that it is unsupported and loop.
Unsupported(a) == validate(a) /\ memory[a].revision = 2

ScanEnd == LIMIT

\* One iteration of the scan.
ScanStep ==
  /\ pc = "scan"
  /\ ptr' = addr
  /\ found' = (validate(addr) /\ ~Unsupported(addr))
  /\ IF Unsupported(addr) THEN pc' = "unsupported" /\ UNCHANGED addr
     ELSE IF found' THEN pc' = "announced" /\ UNCHANGED addr
     ELSE IF addr < ScanEnd THEN pc' = pc /\ addr' = addr + 1
     ELSE pc' = "ebda" /\ addr' = 0
  /\ UNCHANGED <<memory, ebda>>

\* One iteration of the second loop, which looks at the same address each time.
\* Found or not, the message behind it says so.
EbdaStep ==
  /\ pc = "ebda"
  /\ ptr' = ebda
  /\ found' = (validate(ebda) /\ ~Unsupported(ebda))
  /\ IF Unsupported(ebda) THEN pc' = "unsupported" /\ UNCHANGED addr
     ELSE IF found' \/ addr >= EBDA_END THEN pc' = "announced" /\ UNCHANGED addr
     ELSE pc' = pc /\ addr' = addr + 16
  /\ UNCHANGED <<memory, ebda>>

RsdpInit(m, e) ==
  /\ memory = m /\ ebda = e
  /\ pc = "scan" /\ addr = 0 /\ ptr = 0 /\ found = FALSE

RsdpNext == ScanStep \/ EbdaStep

RsdpSpec ==
  /\ \E m \in [Addresses -> Contents], e \in Addresses : RsdpInit(m, e)
  /\ [][RsdpNext]_rsdpvars

-----------------------------------------------------------------------------
(* Properties. *)

Pointers == {a \in Addresses : memory[a].sig /\ memory[a].sum = 0}

\* The search ends at the lowest address with a signature and a good sum, if there
\* is one: announced if it is of ACPI 1, in the endless loop if it is of ACPI 2.
\* The last address counts, and damaged copies do not (rsdp.c:45-116).  Whatever the
\* extended BIOS data area holds was seen by then: the second loop, which does not
\* advance, never finds anything (rsdp.c:103-111).
EndsAtLowest ==
  /\ pc \in {"announced", "unsupported"} /\ Pointers # {} =>
       /\ ptr \in Pointers /\ \A a \in Pointers : ptr <= a
       /\ pc = "unsupported" <=> memory[ptr].revision = 2
  /\ pc = "ebda" => Pointers = {}
=============================================================================
