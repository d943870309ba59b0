------------------------------- MODULE MCBoot -------------------------------
(* Values of Boot's constants for TLC.                                        *)
EXTENDS Boot

\* Up to three devices anywhere; their ids are of no interest.
MCMachines ==
  {[p \in ps |-> [vendor |-> "v1", device |-> "d1"]] : ps \in UNION {kSubset(n, Places) : n \in 0 .. 3}}

\* One device of any ids, one that is not in the database included.
MCOneDevice == {(<<0, 0>> :> [vendor |-> v, device |-> d]) : v, d \in {"x1", "x2", "x3"}}

\* Databases of up to five lines that keep to the syntax of pci.ids: sorted
\* vendors, behind each its sorted devices, behind each of these its subsystems.
Line(kind, id) == [kind |-> kind, id |-> id, name |-> ""]
Lines == {Line(kind, id) : kind \in {"vendor", "device"}, id \in {"x1", "x2"}}
         \cup {Line("subsystem", "x1"), Line("comment", ""), Line("tabbed", "x1")}
WellFormed(db) ==
  /\ \A k \in DOMAIN db : db[k].kind = "device" => \E h \in 1 .. k - 1 : db[h].kind = "vendor"
  /\ \A k \in DOMAIN db : db[k].kind = "subsystem" => k > 1 /\ db[k - 1].kind = "device"
  /\ \A j, k \in DOMAIN db :
       j < k /\ db[j].kind = "vendor" /\ db[k].kind = "vendor" => db[j].id = "x1" /\ db[k].id = "x2"
  /\ \A j, k \in DOMAIN db :
       /\ j < k /\ db[j].kind = "device" /\ db[k].kind = "device"
       /\ \A h \in j .. k : db[h].kind # "vendor"
       => db[j].id = "x1" /\ db[k].id = "x2"
\* A name tells its line apart from every other.
Named(db) == [k \in DOMAIN db |-> [db[k] EXCEPT !.name = <<"n1", "n2", "n3", "n4", "n5">>[k]]]
MCDatabases == {Named(db) : db \in {d \in UNION {[1 .. n -> Lines] : n \in 0 .. 5} : WellFormed(d)}}

\* No root pointer, and so the EBDA is looked at too.
NoPointer == [a \in Addresses |-> [sig |-> FALSE, sum |-> 1, revision |-> 0]]

\* Any memory with no devices; any devices; and any ids with any database.
MCHardware ==
  [memory : [Addresses -> Contents], ebda : Addresses, machine : {<<>>}, pci_ids : {<<>>}]
  \cup [memory : {NoPointer}, ebda : {0}, machine : MCMachines, pci_ids : {<<>>}]
  \cup [memory : {NoPointer}, ebda : {0}, machine : MCOneDevice, pci_ids : MCDatabases]
=============================================================================
