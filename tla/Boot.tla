-------------------------------- MODULE Boot --------------------------------
(***************************************************************************)
(* The first half of kernel_main (kernel/kernel.c): find_rsdp, then        *)
(* pci_enumerate_devices, on one of the machines of Hardware.  Interrupts  *)
(* are off, and an endless loop in either is the end of the boot.          *)
(***************************************************************************)
EXTENDS Rsdp, Pci

CONSTANT Hardware  \* records [memory, ebda, machine, pci_ids]

ASSUME BootAssumption ==
  \A h \in Hardware : /\ h.memory \in [Addresses -> Contents] /\ h.ebda \in Addresses
                      /\ DOMAIN h.machine \subseteq Places
                      /\ \A p \in DOMAIN h.machine : h.machine[p].vendor # PCI_NO_VENDOR
                      /\ IdList(h.pci_ids)

bootvars == <<rsdpvars, pcivars>>

BootInit ==
  \E h \in Hardware : RsdpInit(h.memory, h.ebda) /\ PciInit(h.machine, h.pci_ids)

BootNext ==
  \/ RsdpNext /\ UNCHANGED pcivars
  \/ pc = "announced" /\ Probe /\ UNCHANGED rsdpvars

\* The processor executes.
BootSpec == BootInit /\ [][BootNext]_bootvars /\ WF_bootvars(BootNext)

-----------------------------------------------------------------------------
\* The boot goes on to VGA_clear_screen on every machine but those whose first
\* root pointer is of ACPI 2: the scans' loops end, over the last address below
\* 1 MB and over the last slot and bus a uint8_t can name (rsdp.c:94, pci.c:200).
BootProceeds ==
  <>(~scanning \/ \E a \in Pointers : memory[a].revision = 2 /\ \A b \in Pointers : a <= b)
=============================================================================
