---------------------------- MODULE ZdLinkKeys ----------------------------
(***************************************************************************)
(* The keys a device shares with others (stack/zdo/ZDSecMgr.c): the table  *)
(* of its partners, the link keys in NV with their frame counters, and the *)
(* master keys, through key transport, key establishment, removal and      *)
(* restart.                                                                *)
(*                                                                         *)
(* A key is known by the partner it was made for.  Slot 0 is the link key  *)
(* of the trust centre, slots 1 to Size are the APS link keys.  The frame  *)
(* counters live in RAM; they are written to NV after so many frames, and  *)
(* a restart skips as many.                                                *)
(***************************************************************************)
EXTENDS ZdSecTables, Sequences, FiniteSets

CONSTANTS
    TrustCenterAddr,    \* APSME_TRUSTCENTER_NWKADDR
    MaxChanges,         \* MAX_APS_ and MAX_TCLK_FRAMECOUNTER_CHANGES
    MaxCalls,           \* bound: keys that come, are removed, or are asked for
    MaxFrames,          \* bound: secured frames sent and received, one more for each call that is not made
    MaxTrouble          \* bound: restarts, and allocations that fail

ASSUME KeysAssumption ==
    /\ TrustCenterAddr \in Addrs /\ MaxChanges \in Nat \ {0}
    /\ MaxCalls \in Nat /\ MaxFrames \in Nat /\ MaxTrouble \in Nat

VARIABLES
    t,                  \* the tables; a device that joins has no control records
    keyNvId,            \* the slot of each entry, 0 for SEC_NO_KEY_NV_ID
    option,             \* authenticateOption: the key was established
    known,              \* the devices the address manager has
    tcLoaded,           \* ZDSecMgrTCDataLoaded
    masters,            \* the devices a master key is stored for
    loaded,             \* _NIB.nwkKeyLoaded
    nvTable,            \* ZCD_NV_APS_LINK_KEY_TABLE
    nvKeys,             \* the keys in NV: [owner, tx, rx]
    ram,                \* the counters in use: [tx, rx, pending]
    events,
    used,               \* history: the first counter not yet used with a key
    late,               \* history: frames sent while their save was pending
    lapsed,             \* history: slots whose pending save came too late before a restart
    mine,               \* history: partners whose key was added and not removed
    leftover,           \* history: an allocation failed
    shifted,            \* history: an entry came back with the slot of another index
    calls, framesLeft, trouble

tables  == <<t, keyNvId, option>>
stored  == <<nvTable, nvKeys>>
history == <<used, late, lapsed, mine, leftover, shifted>>
bounds  == <<calls, framesLeft, trouble>>
keys     == <<masters, loaded, tcLoaded>>
keysVars == <<tables, known, keys, stored, ram, events, history, bounds>>

KeySlots == 0 .. Size
NoKey == [owner |-> Nobody, tx |-> 0, rx |-> 0]
KeysCall == calls > 0 /\ calls' = calls - 1

KeysTypeOK ==
    /\ t \in Table /\ keyNvId \in [Indices -> KeySlots] /\ option \in [Indices -> BOOLEAN]
    /\ \A S \in {masters, mine, known} : S \subseteq Devices
    /\ {loaded, tcLoaded, leftover, shifted} \subseteq BOOLEAN
    /\ nvTable \in Seq([ami : Devices, keyNvId : KeySlots, option : BOOLEAN])
    /\ Len(nvTable) <= Size
    /\ nvKeys \in [KeySlots -> [owner : Devices \cup {Nobody}, tx : Nat, rx : Nat]]
    /\ ram \in [KeySlots -> [tx : Nat, rx : Nat, pending : BOOLEAN]]
    /\ events \subseteq {"APS_FRAMECOUNTER", "TCLK_FRAMECOUNTER"}
    /\ used \in [KeySlots -> Nat] /\ late \in [KeySlots -> Nat] /\ lapsed \subseteq KeySlots
    /\ calls \in Nat /\ framesLeft \in Nat /\ trouble \in Nat

-----------------------------------------------------------------------------
(* Storing keys                                                            *)

\* An allocation may fail.
Heap(heap) ==
    /\ heap \/ trouble > 0
    /\ trouble' = IF heap THEN trouble ELSE trouble - 1
    /\ leftover' = (leftover \/ ~heap)

\* ZDSecMgrLinkKeySet, for entry e: the key goes to the slot of that index.
\* Without memory it does not, and the entry has the slot all the same.
LinkKeySet(e, d, heap) ==
    /\ keyNvId' = [keyNvId EXCEPT ![e] = e]
    /\ IF heap
          THEN /\ nvKeys' = [nvKeys EXCEPT ![e] = [NoKey EXCEPT !.owner = d]]
               /\ ram' = [ram EXCEPT ![e].tx = 0, ![e].rx = 0]
               /\ used' = [used EXCEPT ![e] = 0] /\ late' = [late EXCEPT ![e] = 0]
               /\ lapsed' = lapsed \ {e}
          ELSE UNCHANGED <<nvKeys, ram, used, late, lapsed>>

\* ZDSecMgrMasterKeyLoad with ...MasterKeyStore, for a device the address
\* manager knows.
MasterKeyLoad(knows, d) ==
    IF d \in knows /\ Cardinality(masters) < Size THEN masters \cup {d} ELSE masters

\* ZDSecMgrWriteNV: the entries in use, one after the other.
WriteNV(t0, nvIds, options) ==
    LET live == {i \in Indices : t0.ami[i] /= Nobody}
        at == [n \in 1 .. Cardinality(live) |->
                 CHOOSE i \in live : Cardinality({j \in live : j <= i}) = n] IN
    [n \in DOMAIN at |-> [ami |-> t0.ami[at[n]], keyNvId |-> nvIds[at[n]], option |-> options[at[n]]]]

\* Mutant: a device that has an entry gets another.
EntryForNew(t0, d) == EntryNew(t0)

\* The entry of a device, or a new one (ZDSecMgrEntryNew), 0 if there is none.
EntryFor(t0, d) == IF EntryLookupAMI(t0, d) /= 0 THEN EntryLookupAMI(t0, d) ELSE EntryNew(t0)

\* Mutant: the table in NV is not written.
AddLinkKeyVolatile(d, a, heap) ==
    LET t1 == AddrStore(t, a, d)
        e == EntryFor(t1, d) IN
    /\ KeysCall /\ Heap(heap)
    /\ known' = known \cup {d}
    /\ IF e = 0 THEN t' = t1 /\ UNCHANGED <<keyNvId, option, stored, ram, used, late, lapsed, mine>>
       ELSE /\ t' = [t1 EXCEPT !.ami[e] = d]
            /\ LinkKeySet(e, d, heap)
            /\ option' = [option EXCEPT ![e] = TRUE]
            /\ mine' = mine \cup {d} /\ UNCHANGED nvTable
    /\ UNCHANGED <<keys, events, shifted, framesLeft>>

\* ZDSecMgrAddLinkKey: a key established with a partner; it is
\* authenticated (ZDSecMgrAuthenticationSet), and the table written.
AddLinkKey(d, a, heap) ==
    LET t1 == AddrStore(t, a, d)
        e == EntryFor(t1, d) IN
    /\ KeysCall /\ Heap(heap)
    /\ known' = known \cup {d}
    /\ IF e = 0 THEN t' = t1 /\ UNCHANGED <<keyNvId, option, stored, ram, used, late, lapsed, mine>>
       ELSE /\ t' = [t1 EXCEPT !.ami[e] = d]
            /\ LinkKeySet(e, d, heap)
            /\ option' = [option EXCEPT ![e] = TRUE]
            /\ mine' = mine \cup {d}
            /\ nvTable' = WriteNV(t', keyNvId', option')
    /\ UNCHANGED <<keys, events, shifted, framesLeft>>

\* What is left of the keys when the entries at E are freed (ZDSecMgrEntryFree):
\* without memory the slot stays with the entry, and the key in the slot.
FreeKeys(E, heap) ==
    IF ~heap THEN UNCHANGED <<keyNvId, nvKeys>>
    ELSE /\ keyNvId' = [i \in Indices |-> IF i \in E THEN 0 ELSE keyNvId[i]]
         /\ nvKeys' = [k \in KeySlots |-> IF k /= 0 /\ \E i \in E : keyNvId[i] = k
                                          THEN NoKey ELSE nvKeys[k]]

\* ZDSecMgrDeviceRemoveByExtAddr.  The table in NV still has the entry.
DeviceRemoveByExtAddr(d, heap) ==
    LET e == EntryLookupExt(t, d) IN
    /\ KeysCall /\ Heap(heap) /\ e /= 0
    /\ t' = DeviceEntryRemove(t, e)
    /\ FreeKeys({e}, heap)
    /\ mine' = mine \ {d}
    /\ UNCHANGED <<option, known, keys, nvTable, ram, events, used, late, lapsed, shifted, framesLeft>>

-----------------------------------------------------------------------------
(* Messages of the security library                                        *)

\* ZDSecMgrTCDataLoad: the first to send a key is taken for the trust centre.
TCDataLoad(d) == IF tcLoaded THEN t ELSE AddrStore(t, TrustCenterAddr, d)

\* ZDSecMgrTCExtAddrCheck.
TCExtAddrCheck(t0, d) == t0.addr[d] = TrustCenterAddr

\* Master keys: of the trust centre, and, with the partner that is to begin
\* the key establishment, of an application.  That one makes an entry for it.
TransportMasterKey(d, application, initiator) ==
    LET t1 == TCDataLoad(d)
        knows == known \cup (IF tcLoaded THEN {} ELSE {d})
        e == EntryFor(t1, d)
        begins == application /\ initiator /\ d \in knows /\ t1.addr[d] /= Nowhere IN
    /\ known' = IF application /\ ~initiator THEN knows \cup {d} ELSE knows
    /\ t' = IF begins /\ e /= 0 THEN [t1 EXCEPT !.ami[e] = d] ELSE t1
    /\ option' = IF begins /\ e /= 0 /\ t1.ami[e] = Nobody
                    THEN [option EXCEPT ![e] = FALSE] ELSE option
    /\ masters' = IF ~application \/ begins \/ ~initiator THEN MasterKeyLoad(known', d)
                                                          ELSE masters
    /\ UNCHANGED <<keyNvId, loaded, nvKeys, ram, used, late, lapsed, trouble, leftover>>

\* An application's link key; without an entry it is lost.
TransportLinkKey(d, heap) ==
    LET t1 == TCDataLoad(d)
        e == EntryFor(t1, d) IN
    /\ known' = known \cup {d} /\ Heap(heap)
    /\ IF e = 0 THEN t' = t1 /\ UNCHANGED <<keyNvId, option, nvKeys, ram, used, late, lapsed>>
       ELSE /\ t' = [t1 EXCEPT !.ami[e] = d]
            /\ option' = IF t1.ami[e] = Nobody THEN [option EXCEPT ![e] = FALSE] ELSE option
            /\ LinkKeySet(e, d, heap)
    /\ UNCHANGED <<masters, loaded>>

\* The network key: what follows for the device's state is ZdApp's matter.
TransportNwkKey(d) ==
    /\ loaded' = TRUE
    /\ t' = TCDataLoad(d) /\ known' = known \cup (IF tcLoaded THEN {} ELSE {d})
    /\ UNCHANGED <<keyNvId, option, masters, nvKeys, ram, used, late, lapsed, trouble, leftover>>

\* ZDSecMgrTransportKeyInd.
TransportKeyInd(d) ==
    /\ KeysCall
    /\ \/ \E application, initiator \in BOOLEAN : TransportMasterKey(d, application, initiator)
       \/ \E heap \in BOOLEAN : TransportLinkKey(d, heap)
       \/ TransportNwkKey(d)
    /\ tcLoaded' = TRUE
    /\ UNCHANGED <<nvTable, events, mine, shifted, framesLeft>>

\* ZDSecMgrDeviceValidateSKKE: a partner whose master key is stored gets an
\* entry; the entry of another device with that address goes.
ValidateSKKE(t0, dev) ==
    IF dev.ami \in masters THEN DeviceEntryAdd(t0, dev, FALSE) ELSE Added(t0, 0)

\* ZDSecMgrEstablishKeyInd.
EstablishKeyInd(d, a, heap) ==
    LET t1 == TCDataLoad(d)
        dev == [ami |-> d, parent |-> Nowhere, secure |-> TRUE,
                addr |-> IF TCExtAddrCheck(t1, d) THEN TrustCenterAddr ELSE a]
        t2 == ValidateSKKE(t1, dev).table
        gone == {i \in Indices : t1.ami[i] /= Nobody /\ t2.ami[i] /= t1.ami[i]}
        new == {i \in Indices : t2.ami[i] /= Nobody /\ t2.ami[i] /= t1.ami[i]} IN
    /\ KeysCall /\ Heap(heap) /\ (gone = {} => heap)
    /\ t' = t2 /\ FreeKeys(gone, heap)
    /\ option' = [i \in Indices |-> option[i] /\ i \notin new]
    /\ mine' = mine \ {t1.ami[i] : i \in gone}
    /\ known' = known \cup (IF tcLoaded THEN {} ELSE {d}) /\ tcLoaded' = TRUE
    /\ UNCHANGED <<masters, loaded, nvTable, ram, events, used, late, lapsed, shifted, framesLeft>>

-----------------------------------------------------------------------------
(* Frame counters                                                          *)

\* A frame takes the counter of its key; after so many it is to be saved.
Count(k, event) ==
    /\ framesLeft > 0 /\ framesLeft' = framesLeft - 1
    /\ LET n == ram[k].tx + 1
           save == n % MaxChanges = 0 IN
       /\ ram' = [ram EXCEPT ![k].tx = n, ![k].pending = @ \/ save]
       /\ events' = IF save THEN events \cup {event} ELSE events
       /\ used' = [used EXCEPT ![k] = IF n > @ THEN n ELSE @]
       /\ late' = IF ram[k].pending THEN [late EXCEPT ![k] = @ + 1] ELSE late
    /\ UNCHANGED <<tables, known, keys, stored, lapsed, mine, leftover, shifted, calls, trouble>>

\* APSME_TCLinkKeyLoad.
TCLinkKeyLoad == Count(0, "TCLK_FRAMECOUNTER")

\* The APS library does the same for a partner, with ZDSecMgrLinkKeyNVIdGet.
LinkKeyLoad(d) ==
    LET e == EntryLookupExt(t, d) IN
    e /= 0 /\ keyNvId[e] /= 0 /\ Count(keyNvId[e], "APS_FRAMECOUNTER")

\* APSME_TCLinkKeySync: a frame is taken if its counter is not an old one.
TCLinkKeySync(counter) ==
    /\ framesLeft > 0 /\ framesLeft' = framesLeft - 1
    /\ counter >= ram[0].rx
    /\ ram' = [ram EXCEPT ![0].rx = counter + 1]
    /\ UNCHANGED <<tables, known, keys, stored, events, history, calls, trouble>>

\* The keys at K are saved with their counters.
Save(K) ==
    /\ nvKeys' = [k \in KeySlots |-> IF k \in K /\ ram[k].pending
                                     THEN [nvKeys[k] EXCEPT !.tx = ram[k].tx, !.rx = ram[k].rx]
                                     ELSE nvKeys[k]]
    /\ ram' = [k \in KeySlots |-> IF k \in K THEN [ram[k] EXCEPT !.pending = FALSE] ELSE ram[k]]
    /\ late' = [k \in KeySlots |-> IF k \in K THEN 0 ELSE late[k]]
    /\ UNCHANGED <<tables, known, keys, nvTable, used, lapsed, mine, leftover, shifted, bounds>>

\* ZDSecMgrSaveApsLinkKey; the event comes before the other.
SaveApsLinkKey ==
    "APS_FRAMECOUNTER" \in events /\ events' = events \ {"APS_FRAMECOUNTER"} /\ Save(Indices)

\* ZDSecMgrSaveTCLinkKey.
SaveTCLinkKey ==
    /\ events = {"TCLK_FRAMECOUNTER"} /\ events' = {}
    /\ Save({0})

-----------------------------------------------------------------------------
(* Restart                                                                 *)

\* APSME_TCLinkKeyInit: as many counters are skipped as may not have been saved.
TCLinkKeyInit(setDefault) ==
    [nvKeys[0] EXCEPT !.tx = IF setDefault THEN 0 ELSE @ + MaxChanges + 1]

\* Mutant: an entry that is restored goes on where NV says.
RestoredKeyExact(k) == nvKeys[k]

\* The key of an entry that ZDSecMgrRestoreFromNV restores.
RestoredKey(k) == [nvKeys[k] EXCEPT !.tx = @ + MaxChanges + 1]

\* ZDSecMgrEntryInit with ZDSecMgrRestoreFromNV, and ZDSecMgrInitNVKeyTables
\* before it: a new network is started with an empty table, and the counter of the
\* trust centre's key from 0.  ZDSecMgrMasterKeyInit clears every stored master key.
Restart(restored) ==
    LET n == IF restored THEN Len(nvTable) ELSE 0
        back == {nvTable[x].keyNvId : x \in 1 .. n} \ {0} IN
    /\ trouble > 0 /\ trouble' = trouble - 1
    /\ t' = [addr |-> IF restored THEN t.addr ELSE [d \in Devices |-> Nowhere],
             ctrl |-> CtrlInit,
             ami |-> [i \in Indices |-> IF i <= n THEN nvTable[i].ami ELSE Nobody]]
    /\ known' = IF restored THEN known ELSE {}
    /\ keyNvId' = [i \in Indices |-> IF i <= n THEN nvTable[i].keyNvId ELSE 0]
    /\ option' = [i \in Indices |-> i <= n /\ nvTable[i].option]
    /\ nvKeys' = [k \in KeySlots |-> IF k = 0 THEN TCLinkKeyInit(~restored)
                                  ELSE IF k \in back THEN RestoredKey(k) ELSE nvKeys[k]]
    /\ ram' = [k \in KeySlots |-> IF k = 0 \/ k \in back
                                  THEN [tx |-> nvKeys'[k].tx, rx |-> nvKeys'[k].rx, pending |-> FALSE]
                                  ELSE [tx |-> 0, rx |-> 0, pending |-> FALSE]]
    /\ used' = IF restored THEN used ELSE [used EXCEPT ![0] = 0]
    /\ lapsed' = (lapsed \cup {k \in KeySlots : late[k] > 1}) \ (IF restored THEN {} ELSE {0})
    /\ late' = [k \in KeySlots |-> 0]
    /\ tcLoaded' = FALSE /\ events' = {} /\ loaded' = (loaded /\ restored)
    /\ mine' = IF restored THEN mine ELSE {}
    /\ shifted' = (shifted \/ \E x \in 1 .. n : nvTable[x].keyNvId \notin {0, x})
    /\ masters' = {}
    /\ UNCHANGED <<nvTable, leftover, calls, framesLeft>>

-----------------------------------------------------------------------------
KeysInit ==
    /\ t = [addr |-> [d \in Devices |-> Nowhere], ctrl |-> CtrlInit,
            ami |-> [i \in Indices |-> Nobody]]
    /\ keyNvId = [i \in Indices |-> 0] /\ option = [i \in Indices |-> FALSE]
    /\ known = {} /\ tcLoaded = FALSE /\ masters = {} /\ loaded = FALSE
    /\ nvTable = <<>> /\ nvKeys = [k \in KeySlots |-> NoKey]
    /\ ram = [k \in KeySlots |-> [tx |-> 0, rx |-> 0, pending |-> FALSE]]
    /\ events = {} /\ used = [k \in KeySlots |-> 0] /\ late = [k \in KeySlots |-> 0] /\ lapsed = {}
    /\ mine = {} /\ leftover = FALSE /\ shifted = FALSE
    /\ calls \in 0 .. MaxCalls /\ framesLeft = MaxFrames + (MaxCalls - calls)
    /\ trouble = MaxTrouble

KeysNext ==
    \/ \E d \in Devices, a \in Addrs \ {TrustCenterAddr}, heap \in BOOLEAN :
          AddLinkKey(d, a, heap) \/ EstablishKeyInd(d, a, heap)
    \/ \E d \in Devices, heap \in BOOLEAN : DeviceRemoveByExtAddr(d, heap)
    \/ \E d \in Devices : TransportKeyInd(d) \/ LinkKeyLoad(d)
    \/ TCLinkKeyLoad \/ \E n \in {0, 1} : TCLinkKeySync(ram[0].rx + n)
    \/ SaveApsLinkKey \/ SaveTCLinkKey
    \/ \E restored \in BOOLEAN : Restart(restored)

KeysSpec == KeysInit /\ [][KeysNext]_keysVars

-----------------------------------------------------------------------------
(* Properties                                                              *)

\* A partner whose link key was established is found with that key, through
\* other partners that come and go in the table and through restarts.
\* Excused is what the code does not provide for: an allocation that fails
\* (ZDSecMgrLinkKeySet and ...EntryFree go on as if all were well), and a table
\* that was written with a gap in it: ZDSecMgrRestoreFromNV closes the gap, but
\* the slots stay where they were, and the next key written overwrites one.
KeysKept ==
    ~leftover /\ ~shifted =>
        \A d \in mine : LET e == EntryLookupExt(t, d) IN
            e /= 0 /\ keyNvId[e] = e /\ option[e] /\ nvKeys[e].owner = d

\* No partner has two entries, or a slot beyond the table.
EntriesApart == KeysTypeOK /\ EntriesSound(t)

\* No frame counter is used twice with a key, though power may be lost before
\* the counter is saved: a restart goes on after the last counter used, unless
\* more than one frame was sent while the save was pending that it came before.
\* Excused is, again, an allocation that failed: the entry then has an old key,
\* whose counter was not restored.
NeverReused ==
    ~leftover => \A k \in KeySlots : (k = 0 \/ \E e \in Indices : keyNvId[e] = k /\ t.ami[e] = nvKeys[k].owner) =>
        ram[k].tx >= used[k] \/ k \in lapsed

\* The link keys: entries and slots apart, keys kept over a restart, no frame
\* counter used twice.
LinkKeysSound == EntriesApart /\ KeysKept /\ NeverReused
=============================================================================
