-------------------------------- MODULE Pci --------------------------------
(***************************************************************************)
(* kernel/pci/pci.c: the boot-time scan of the PCI buses, and the search   *)
(* of the id database (pci.ids) for the names of what it finds.            *)
(*                                                                         *)
(* The scan runs slot from 0 to 255, but a configuration address has five  *)
(* bits for it: the upper three are or-ed into the bus number.  The id     *)
(* database is a sequence of lines, and the search's character automaton   *)
(* is taken a line at a time: it compares four hex digits with an id and   *)
(* copies the name behind them, or waits for the next line.  The digits    *)
(* are at the start of a line while a vendor is looked for, and right      *)
(* behind the line's first tab afterwards.                                 *)
(***************************************************************************)
EXTENDS Integers, Sequences, FiniteSets, SequencesExt

CONSTANTS
  BUSES,            \* 256
  SLOTS,            \* slots of the scan, 256
  DEVICES,          \* devices a bus can have, 32
  PCI_MAX_DEVICES   \* entries of pci_devices_list, 256

PCI_NO_VENDOR == "ffff"
Places == (0 .. BUSES - 1) \X (0 .. DEVICES - 1)

\* At most three bits of a slot number are not a device's.
ASSUME PciAssumption ==
  /\ BUSES \in Nat \ {0} /\ DEVICES \in Nat \ {0} /\ SLOTS \in {w * DEVICES : w \in {1, 2, 4, 8}}
  /\ PCI_MAX_DEVICES \in Nat

VARIABLES
  machine,           \* the devices there are: <<bus, device>> -> [vendor, device]
  pci_ids,           \* lines [kind, id, name]
  bus, slot,         \* the loops of pci_enumerate_devices
  scanning,
  pci_devices_list,  \* the entries written, those within the array
  list_overrun,      \* an entry was written behind the array
  reported           \* bus and slot in the message of each entry

\* pci_devices_count is Len(reported).
pcivars == <<machine, pci_ids, bus, slot, scanning, pci_devices_list, list_overrun, reported>>

-----------------------------------------------------------------------------
(* The name search. *)

\* A list of ids (pci_supp.c): every vendor is there once and has a name, and every
\* device once in its vendor's section.  No name has a tab in it.  A "tabbed" line
\* begins with # and has a tab later, right behind which stand an id and a text, as
\* in a device line that is commented out; any other # line is a "comment".
IdLines == [kind : {"vendor", "device", "subsystem", "comment", "tabbed"}, id : STRING, name : STRING]
IdList(db) ==
  /\ db \in Seq(IdLines)
  /\ \A k \in DOMAIN db : db[k].kind = "vendor" => db[k].name # ""
  /\ \A j, k \in DOMAIN db : db[j].kind = "vendor" /\ db[k].kind = "vendor" /\ db[j].id = db[k].id => j = k
  /\ \A j, k \in DOMAIN db :
       j < k /\ db[j].kind = "device" /\ db[k].kind = "device" /\ db[j].id = db[k].id =>
         \E h \in j .. k : db[h].kind = "vendor"

PPSS_VENDOR == "vendor"
PPSS_DEVICE == "device"
Unnamed == [vendor_name |-> "", device_name |-> ""]

\* Mutation: every line with the id counts, those of subsystems too.
Matches_anywhere(s, l, vendor_id, device_id) ==
  l.id = IF s.ppss = PPSS_VENDOR THEN vendor_id ELSE device_id

\* The line has the id looked for where it is expected.  A # is only noticed where
\* the first digit is due, so it hides nothing that stands behind a later tab.
Matches(s, l, vendor_id, device_id) ==
  IF s.ppss = PPSS_VENDOR THEN l.kind = "vendor" /\ l.id = vendor_id
                          ELSE l.kind \in {"device", "tabbed"} /\ l.id = device_id

\* The state after one more line: names so far, and whether the search returned.
AfterLine(s, l, vendor_id, device_id) ==
  IF s.found \/ ~Matches(s, l, vendor_id, device_id) THEN s
  ELSE IF s.ppss = PPSS_VENDOR
       THEN [s EXCEPT !.ppss = PPSS_DEVICE, !.names.vendor_name = l.name]
       ELSE [s EXCEPT !.found = TRUE, !.names.device_name = l.name]

\* At the end of the file without a device both names are emptied.
pci_get_vendor_dev_name(vendor_id, device_id) ==
  LET s == FoldLeft(LAMBDA t, l : AfterLine(t, l, vendor_id, device_id),
                    [ppss |-> PPSS_VENDOR, found |-> FALSE, names |-> Unnamed], pci_ids)
  IN IF s.found THEN s.names ELSE Unnamed

-----------------------------------------------------------------------------
(* The scan. *)

\* The bit of weight w, and that bit of high if b has it not.
One(n, w) == (n \div w) % 2 = 1
Missing(b, high, w) == IF One(high, w) /\ ~One(b, w) THEN w ELSE 0

\* The bus number with the upper bits of the slot or-ed into it.
BusOr(b, high) == b + Missing(b, high, 1) + Missing(b, high, 2) + Missing(b, high, 4)

\* The place that answers to an address: bits 11 to 15 are the device.
AddressedPlace(b, s) == <<BusOr(b, s \div DEVICES), s % DEVICES>>

\* A read of configuration words 0 and 2; no device answers with ones.
pci_read_config(b, s) ==
  IF AddressedPlace(b, s) \in DOMAIN machine THEN machine[AddressedPlace(b, s)]
  ELSE [vendor |-> PCI_NO_VENDOR, device |-> PCI_NO_VENDOR]

pci_get_device(b, s) ==
  LET ids == pci_read_config(b, s)
      names == IF ids.vendor = PCI_NO_VENDOR THEN Unnamed
               ELSE pci_get_vendor_dev_name(ids.vendor, ids.device)
  IN [ids |-> ids, names |-> IF names.vendor_name = ""
                             THEN [vendor_name |-> "Unknown Vendor",
                                   device_name |-> "Unknown Device"]
                             ELSE names]

\* Mutation: the last slot is not read.
LastSlot_early(s) == s = SLOTS - 2

\* Mutation: the test is for the number of slots, which a uint8_t never reaches.
LastSlot_never(s) == s = SLOTS

LastSlot(s) == s = SLOTS - 1

\* pci_devices_list[pci_devices_count] = dev, which nothing bounds.  What lies
\* behind the array is not modelled: nothing is said of a machine that got there
\* but that it did.
WriteEntry(dev) ==
  IF Len(reported) < PCI_MAX_DEVICES
  THEN pci_devices_list' = Append(pci_devices_list, dev) /\ UNCHANGED list_overrun
  ELSE list_overrun' = TRUE /\ UNCHANGED pci_devices_list

\* One iteration of the loops.
Probe ==
  /\ scanning
  /\ LET dev == pci_get_device(bus, slot)
     IN IF dev.ids.vendor # PCI_NO_VENDOR
        THEN /\ WriteEntry(dev)
             /\ reported' = Append(reported, <<bus, slot>>)
        ELSE UNCHANGED <<pci_devices_list, list_overrun, reported>>
  /\ slot' = IF LastSlot(slot) THEN 0 ELSE (slot + 1) % SLOTS
  /\ bus' = IF LastSlot(slot) /\ bus < BUSES - 1 THEN bus + 1 ELSE bus
  /\ scanning' = ~(LastSlot(slot) /\ bus = BUSES - 1)
  /\ UNCHANGED <<machine, pci_ids>>

PciInit(m, ids) ==
  /\ machine = m /\ pci_ids = ids
  /\ bus = 0 /\ slot = 0 /\ scanning = TRUE
  /\ pci_devices_list = <<>> /\ list_overrun = FALSE /\ reported = <<>>

-----------------------------------------------------------------------------
(* Properties. *)

\* How often a device shows up: once on bus 0, and on bus b once for every way to
\* split the ones among the low bits of b between bus and slot, three for each.
Ways(b, w) == IF w < SLOTS \div DEVICES /\ One(b, w) THEN 3 ELSE 1
Aliases(b) == Ways(b, 1) * Ways(b, 2) * Ways(b, 4)

\* The entries the devices of the machine need.
Entries == {e \in (DOMAIN machine) \X (1 .. 27) : e[2] <= Aliases(e[1][1])}

\* The place entry k was read from.
PlaceOf(k) == AddressedPlace(reported[k][1], reported[k][2])

\* The scan writes behind pci_devices_list, whose index nothing bounds (pci.c:192),
\* exactly on the machines that need more entries than it has.  The 32 devices of bus
\* 0 fit, but ten on bus 7, each of which answers to 27 addresses, do not.  On all
\* other machines every device is listed, with its own ids and exactly as often as
\* the overlap of slot and bus in the address (pci.c:15) makes it answer: none is
\* missed, and none on bus 0, as on every machine without bridges, is listed twice.
EveryDeviceListed ==
  ~scanning =>
    /\ list_overrun <=> Cardinality(Entries) > PCI_MAX_DEVICES
    /\ ~list_overrun => \A p \in Places :
         Cardinality({k \in DOMAIN pci_devices_list : PlaceOf(k) = p})
           = IF p \in DOMAIN machine THEN Aliases(p[1]) ELSE 0
    /\ \A k \in DOMAIN pci_devices_list : pci_devices_list[k].ids = machine[PlaceOf(k)]

\* The lines of a vendor's section of pci.ids.
Section(v) ==
  LET heads == {k \in DOMAIN pci_ids : pci_ids[k].kind = "vendor"}
  IN {k \in DOMAIN pci_ids : \E h \in heads :
        /\ pci_ids[h].id = v /\ h < k
        /\ \A g \in heads : ~(h < g /\ g <= k)}

DeviceLines(v, d) == {k \in Section(v) : pci_ids[k].kind = "device" /\ pci_ids[k].id = d}

VendorLines(v) == {k \in DOMAIN pci_ids : pci_ids[k].kind = "vendor" /\ pci_ids[k].id = v}

\* The lines with the id of device d behind the vendor's, in whichever section.
LaterLines(v, d) == {l \in DOMAIN pci_ids : /\ pci_ids[l].kind \in {"device", "tabbed"}
                                            /\ pci_ids[l].id = d
                                            /\ \E h \in VendorLines(v) : h < l}

\* Lines of d that are commented out.
CommentedOut(v, d) == {l \in LaterLines(v, d) : pci_ids[l].kind = "tabbed"}

\* A device the database has gets its own two names and no others, unless a line with
\* its id that is commented out comes before; a device of a vendor the database has
\* not is unknown, whatever ids it shares with others; and one its vendor's section
\* has not is unknown unless a later section, or a line that is commented out, has
\* its id: it is then named after that (pci.c:86-93 does not stop there).
KnownDeviceNamed ==
  \A k \in DOMAIN pci_devices_list :
    LET e == pci_devices_list[k]
        own == DeviceLines(e.ids.vendor, e.ids.device)
        later == LaterLines(e.ids.vendor, e.ids.device)
    IN /\ \A l \in own, h \in VendorLines(e.ids.vendor) :
            (\A c \in CommentedOut(e.ids.vendor, e.ids.device) : l < c) =>
              e.names = [vendor_name |-> pci_ids[h].name, device_name |-> pci_ids[l].name]
       /\ VendorLines(e.ids.vendor) = {} => e.names.vendor_name = "Unknown Vendor"
       /\ IF later = {} THEN e.names.device_name = "Unknown Device"
          ELSE \E l \in later : e.names.device_name = pci_ids[l].name
=============================================================================
