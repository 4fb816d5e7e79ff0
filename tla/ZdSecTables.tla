--------------------------- MODULE ZdSecTables ---------------------------
(***************************************************************************)
(* The tables of the security manager (stack/zdo/ZDSecMgr.c) and what its  *)
(* functions do to them: the address manager's view of the devices, the    *)
(* device entries and the control records of the devices that are joining. *)
(*                                                                         *)
(* A device stands for its extended address and for its index in the       *)
(* address manager (AMI).  A pointer into a table is an index, NULL is 0.  *)
(*   t.addr    the short address of each device, Nowhere if it has none    *)
(*   t.ami     the device of each entry, Nobody if the entry is free       *)
(*   t.ctrl    the control records                                         *)
(***************************************************************************)
EXTENDS Integers

CONSTANTS
    Devices,
    Addrs,              \* short addresses of devices
    Parents,            \* ... of the devices they join at
    Size,               \* ZDSECMGR_DEVICE_MAX: the entries, and the control records
    Nobody, Nowhere     \* INVALID_NODE_ADDR

ASSUME SizeAssumption == Size \in Nat \ {0}
ASSUME NobodyAssumption == Nobody \notin Devices /\ Nowhere \notin Addrs

Indices == 1 .. Size
CtrlStates == {"NONE", "INIT", "TK_MASTER", "SKKE_INIT", "SKKE_WAIT", "SKKE_FAIL", "TK_NWK"}
Table == [addr : [Devices -> Addrs \cup {Nowhere}],
          ami : [Indices -> Devices \cup {Nobody}],
          ctrl : [Indices -> [state : CtrlStates, entry : Indices, cntr : Nat,
                              parent : Parents \cup {Nowhere}, secure : BOOLEAN]]]

First(S) == IF S = {} THEN 0 ELSE CHOOSE i \in S : \A j \in S : i <= j

-----------------------------------------------------------------------------
(* Addresses                                                               *)

\* ZDSecMgrAddrStore and ZDSecMgrExtAddrStore, as the address manager does
\* it: another device with this short address has none any more.
AddrStore(t, a, d) ==
    [t EXCEPT !.addr = [x \in Devices |-> IF x = d THEN a
                                          ELSE IF t.addr[x] = a THEN Nowhere
                                          ELSE t.addr[x]]]

\* ZDSecMgrAddrMgrUpdate.
AddrMgrUpdate(t, d, a) == IF t.addr[d] = a THEN t ELSE AddrStore(t, a, d)

-----------------------------------------------------------------------------
(* Entries                                                                 *)

\* ZDSecMgrEntryLookupAMI.
EntryLookupAMI(t, d) == First({i \in Indices : t.ami[i] = d})

\* ZDSecMgrEntryLookup, by the short address.
EntryLookup(t, a) == First({i \in Indices : t.ami[i] /= Nobody /\ t.addr[t.ami[i]] = a})

\* ZDSecMgrEntryLookupExt (and ...GetIndex): the address manager knows each
\* device that has an entry.
EntryLookupExt(t, d) == EntryLookupAMI(t, d)

\* ZDSecMgrEntryNew.
EntryNew(t) == First({i \in Indices : t.ami[i] = Nobody})

\* ZDSecMgrEntryFree, as far as it concerns the table.
EntryFree(t, e) == [t EXCEPT !.ami[e] = Nobody]

-----------------------------------------------------------------------------
(* Control records                                                         *)

\* ZDSecMgrCtrlInit.
CtrlInit == [i \in Indices |-> [state |-> "NONE", entry |-> 1, cntr |-> 0,
                                parent |-> Nowhere, secure |-> FALSE]]

Active(t) == {i \in Indices : t.ctrl[i].state /= "NONE"}

\* ZDSecMgrCtrlRelease.
CtrlRelease(t, i) == [t EXCEPT !.ctrl[i].state = "NONE"]

\* ZDSecMgrCtrlLookup: the record in use for an entry.
CtrlLookup(t, e) == First({i \in Active(t) : t.ctrl[i].entry = e})

\* ZDSecMgrCtrlSet.
CtrlSet(t, dev, e, i) ==
    [t EXCEPT !.ctrl[i] = [state |-> "INIT", entry |-> e, cntr |-> 0,
                           parent |-> dev.parent, secure |-> dev.secure]]

\* What adding a device comes to: the tables, and its record, 0 for failure.
Added(t, i) == [table |-> t, ctrl |-> i]

\* ZDSecMgrCtrlAdd.
CtrlAdd(t, dev, e) ==
    LET i == First(Indices \ Active(t)) IN
    IF i = 0 THEN Added(t, 0) ELSE Added(CtrlSet(t, dev, e, i), i)

\* Mutant: a second record for a device that joins again.
CtrlResetAdds(t, dev, e) == CtrlAdd(t, dev, e)

\* ZDSecMgrCtrlReset.
CtrlReset(t, dev, e) ==
    LET i == CtrlLookup(t, e) IN
    IF i /= 0 THEN Added(CtrlSet(t, dev, e, i), i) ELSE CtrlAdd(t, dev, e)

\* ZDSecMgrCtrlTerm.
CtrlTerm(t, e) == LET i == CtrlLookup(t, e) IN IF i /= 0 THEN CtrlRelease(t, i) ELSE t

-----------------------------------------------------------------------------
(* Devices                                                                 *)

\* ZDSecMgrDeviceEntryRemove.  Only a coordinator has control records.
DeviceEntryRemove(t, e) == EntryFree(CtrlTerm(t, e), e)

\* ZDSecMgrDeviceEntryAdd.  An entry that has the short address but is
\* another device's is removed.  Only a coordinator adds a control record.
DeviceEntryAdd(t, dev, coordinator) ==
    LET byAddr == EntryLookup(t, dev.addr)
        clash == byAddr /= 0 /\ t.ami[byAddr] /= dev.ami
        t1 == IF clash THEN DeviceEntryRemove(t, byAddr) ELSE t
        old == EntryLookupAMI(t1, dev.ami)
        e == IF old /= 0 THEN old ELSE EntryNew(t1)
        t2 == AddrMgrUpdate([t1 EXCEPT !.ami[e] = dev.ami], dev.ami, dev.addr) IN
    IF e = 0 THEN Added(t1, 0)
    ELSE IF ~coordinator THEN Added(t2, e)
    ELSE IF old = 0 THEN CtrlAdd(t2, dev, e)
    ELSE CtrlReset(t2, dev, e)

\* Each record in use belongs to one live entry, and no two to the same.
RecordsSound(t) ==
    \A i \in Active(t) :
        /\ t.ami[t.ctrl[i].entry] /= Nobody
        /\ \A j \in Active(t) : t.ctrl[j].entry = t.ctrl[i].entry => j = i

\* Each device has one entry at most.
EntriesSound(t) ==
    \A i, j \in Indices : t.ami[i] = t.ami[j] /\ t.ami[i] /= Nobody => i = j
=============================================================================
