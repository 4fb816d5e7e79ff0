----------------------------- MODULE ZdSecMgr -----------------------------
(***************************************************************************)
(* The trust centre's side of the security manager (stack/zdo/ZDSecMgr.c): *)
(* how a coordinator takes in devices, its own children and those that     *)
(* join at routers, and brings each to the network key.                    *)
(*                                                                         *)
(* In "high" security a device goes through a small protocol: the master   *)
(* key is sent, a key establishment (SKKE) is run by the APS library, then *)
(* the network key is sent.  Its control record says how far it is, and    *)
(* one timer of the ZDApp task moves all records along.  In "standard"     *)
(* security the network key is sent at once.                               *)
(*                                                                         *)
(* Keys themselves and the ways of securing the frames are left out.       *)
(***************************************************************************)
EXTENDS ZdSecTables, Sequences, FiniteSets

CONSTANTS
    Modes,              \* security modes: "high", "standard"
    Self,               \* the coordinator's short address
    Restores,           \* what NV may hold of the entries: sequences of devices
    MaxSecQueue,        \* bound: messages waiting for ZDApp
    MaxJoins,           \* bound: devices that associate or are announced
    MaxSecTrouble       \* bound: sends that fail, leaves, lost messages

ASSUME SecAssumption ==
    /\ Modes \subseteq {"high", "standard"} /\ Self \in Parents
    /\ MaxJoins \in Nat /\ MaxSecTrouble \in Nat

\* An entry of NV is a device's, and no device has two.
ASSUME RestoresAssumption ==
    \A r \in Restores :
        /\ r \in Seq(Devices)
        /\ \A i, j \in 1 .. Len(r) : r[i] = r[j] => i = j

VARIABLES
    secMode,
    short,                 \* the short addresses the devices have
    t,                     \* the tables
    masters,               \* the devices a master key is stored for
    children,              \* the association list
    fresh,                 \* children with DEV_SEC_INIT_STATUS
    auth,                  \* children with DEV_SEC_AUTH_STATUS
    permit, timed,         \* ZDSecMgrPermitJoiningEnabled, ...Timed
    preconfigured,         \* zgPreConfigKeys
    secEvents, secTimers,  \* the task's bits: "NEW_DEVICE", "SECMGR"
    secQueue,              \* messages for the task
    slot,                  \* the device whose key establishment runs (one slot)
    done,                  \* history: its SKKE is done, since it was last taken in
    crossed,               \* history: ... and then the end of an earlier one was in the queue
    keyed,                 \* history: it was sent the network key
    failed,                \* history: its SKKE failed
    lost,                  \* history: a confirmation found no buffer
    joins, secTrouble      \* still to come, see the bounds

secTables == <<t, masters>>
secNetwork  == <<children, fresh, auth>>
joining  == <<permit, timed, preconfigured>>
task     == <<secEvents, secTimers, secQueue>>
history  == <<done, crossed, keyed, failed, lost>>
secOutside  == <<joins, secTrouble>>
secVars == <<secMode, short, secTables, secNetwork, joining, task, slot, history, secOutside>>

SecBits == {"NEW_DEVICE", "SECMGR"}

-----------------------------------------------------------------------------
(* Frames to the devices                                                   *)

\* A send by the APS library may fail.
Send(ok) == IF ok THEN UNCHANGED secTrouble ELSE secTrouble > 0 /\ secTrouble' = secTrouble - 1

\* ZDSecMgrSendMasterKey, with a key of zeros if none is stored.
SendMasterKey(ok) == Send(ok)

\* ZDSecMgrEstablishKey: refused while the only slot is in use.
EstablishKey(ok, d) ==
    IF ok THEN slot = Nobody /\ slot' = d /\ UNCHANGED secTrouble
    ELSE IF slot /= Nobody THEN UNCHANGED <<slot, secTrouble>>
    ELSE Send(FALSE) /\ UNCHANGED slot

\* ZDSecMgrSendNwkKey.
SendNwkKey(ok, d) == Send(ok) /\ keyed' = IF ok THEN keyed \cup {d} ELSE keyed

-----------------------------------------------------------------------------
(* The control records                                                     *)

\* Whether ZDApp_event_loop serves this event now: messages come first.
SecHandles(b) == secQueue = <<>> /\ b \in secEvents /\ (b = "SECMGR" => "NEW_DEVICE" \notin secEvents)

\* Every record in use, counted down by one.
Counted ==
    [t EXCEPT !.ctrl = [i \in Indices |->
        [t.ctrl[i] EXCEPT !.cntr = IF i \in Active(t) /\ @ > 0 THEN @ - 1 ELSE @]]]

\* The records of a device.
Record(d) == {i \in Active(t) : t.ami[t.ctrl[i].entry] = d}

\* The next state of a record whose step succeeded or not.
Stepped(t0, i, ok) ==
    LET s == t0.ctrl[i].state
        next == CASE s = "TK_MASTER" /\ ok -> "SKKE_INIT"
                  [] s = "SKKE_INIT" /\ ok -> "SKKE_WAIT"
                  [] s = "SKKE_WAIT" -> s
                  [] s \in {"TK_MASTER", "SKKE_INIT", "TK_NWK"} /\ ~ok -> s
                  [] OTHER -> "NONE" IN
    IF next = "NONE" THEN CtrlRelease(t0, i)
    ELSE [t0 EXCEPT !.ctrl[i].state = next, !.ctrl[i].cntr = 1]

\* Mutant: a step that failed is not tried again.
CtrlHandlerOnce(t0, i, others) ==
    LET s == t0.ctrl[i].state
        d == t0.ami[t0.ctrl[i].entry] IN
    \E ok \in BOOLEAN :
        /\ CASE s = "TK_MASTER" -> SendMasterKey(ok) /\ UNCHANGED <<slot, keyed>>
             [] s = "SKKE_INIT" -> EstablishKey(ok, d) /\ UNCHANGED keyed
             [] s = "TK_NWK" -> SendNwkKey(ok, d) /\ UNCHANGED slot
             [] OTHER -> ok /\ UNCHANGED <<slot, keyed, secTrouble>>
        /\ t' = Stepped(t0, i, ok)
        /\ secTimers' = others \cup IF ok /\ t'.ctrl[i].state /= "NONE" THEN {"SECMGR"} ELSE {}

\* ZDSecMgrDeviceCtrlHandler.  A record is released once the network key is
\* sent or the SKKE has failed; otherwise the timer is started for its next turn.
CtrlHandler(t0, i, others) ==
    LET s == t0.ctrl[i].state
        d == t0.ami[t0.ctrl[i].entry] IN
    \E ok \in BOOLEAN :
        /\ CASE s = "TK_MASTER" -> SendMasterKey(ok) /\ UNCHANGED <<slot, keyed>>
             [] s = "SKKE_INIT" -> EstablishKey(ok, d) /\ UNCHANGED keyed
             [] s = "TK_NWK" -> SendNwkKey(ok, d) /\ UNCHANGED slot
             [] OTHER -> ok /\ UNCHANGED <<slot, keyed, secTrouble>>
        /\ t' = Stepped(t0, i, ok)
        /\ secTimers' = others \cup IF t'.ctrl[i].state /= "NONE" THEN {"SECMGR"} ELSE {}

\* ZDSecMgrDeviceCtrlSetup: the first step is taken at once.
CtrlSetup(t0, i, running) ==
    CtrlHandler([t0 EXCEPT !.ctrl[i].state =
                     IF t0.ctrl[i].secure THEN "SKKE_INIT" ELSE "TK_MASTER"], i, running)

\* Mutant: the outcome is taken whatever the record waits for.
CtrlUpdateAlways(d, ok) ==
    LET e == EntryLookupExt(t, d)
        i == IF e = 0 THEN 0 ELSE CtrlLookup(t, e) IN
    IF i = 0 THEN UNCHANGED t
    ELSE t' = [t EXCEPT !.ctrl[i].state = IF ok THEN "TK_NWK" ELSE "SKKE_FAIL",
                        !.ctrl[i].cntr = 1]

\* ZDSecMgrDeviceCtrlUpdate: how the SKKE ended, for a record that waits for it.
CtrlUpdate(d, ok) ==
    LET e == EntryLookupExt(t, d)
        i == IF e = 0 THEN 0 ELSE CtrlLookup(t, e) IN
    IF i = 0 \/ t.ctrl[i].state /= "SKKE_WAIT" THEN UNCHANGED t
    ELSE t' = [t EXCEPT !.ctrl[i].state = IF ok THEN "TK_NWK" ELSE "SKKE_FAIL",
                        !.ctrl[i].cntr = 1]

-----------------------------------------------------------------------------
(* A device joins                                                          *)

\* ZDSecMgrMasterKeyLoad, with ...Lookup and ...Store: that the table is full
\* goes unnoticed.
MasterKeyLoad(d) == IF Cardinality(masters) < Size THEN masters \cup {d} ELSE masters

\* ZDSecMgrDeviceValidateCM.  The address manager may have no room.
ValidateCM(dev) ==
    {DeviceEntryAdd(AddrStore(t, dev.addr, dev.ami), dev, TRUE)}
        \cup IF secTrouble > 0 THEN {Added(t, 0)} ELSE {}

\* ZDSecMgrDeviceValidateRM takes any device: zgSecurePermitJoin stays TRUE.
ValidateRM(dev) == {Added(AddrStore(t, dev.addr, dev.ami), 1)}

\* ZDSecMgrDeviceValidate, the outcomes: record 0 stands for a refusal.
DeviceValidate(dev) ==
    IF ~permit THEN {Added(t, 0)}
    ELSE IF secMode = "high" THEN ValidateCM(dev) ELSE ValidateRM(dev)

\* A confirmation for this device waits in the queue.
Confirmed(d) == \E k \in 1 .. Len(secQueue) : secQueue[k].kind = "cfm" /\ secQueue[k].ami = d

\* ZDSecMgrDeviceJoin.  A device refused is told to leave (DeviceRemove, here
\* without effect).
DeviceJoin(dev, status, running) ==
    \E r \in DeviceValidate(dev) :
        /\ masters' = IF secMode = "high" /\ permit THEN MasterKeyLoad(dev.ami) ELSE masters
        /\ IF r.ctrl = 0
              THEN /\ status = "unknown"
                   /\ t' = r.table /\ secTimers' = running
                   /\ UNCHANGED <<slot, done, crossed, keyed, secTrouble>>
           ELSE IF secMode = "high"
              THEN /\ status = "success" /\ done' = done \ {dev.ami}
                   /\ crossed' = IF Confirmed(dev.ami) THEN crossed \cup {dev.ami}
                                                     ELSE crossed \ {dev.ami}
                   /\ CtrlSetup(r.table, r.ctrl, running)
           ELSE    /\ t' = r.table /\ secTimers' = running
                   /\ SendNwkKey(status = "success", dev.ami)
                   /\ status /= "unknown"
                   /\ UNCHANGED <<slot, done, crossed>>

\* Mutant: a child whose key could not be sent is not new any more.
NewDeviceEventHasty ==
    /\ SecHandles("NEW_DEVICE") /\ secEvents' = secEvents \ {"NEW_DEVICE"}
    /\ IF fresh = {} THEN UNCHANGED <<secTables, secNetwork, secTimers, slot, done, crossed, keyed, secTrouble>>
       ELSE \E d \in fresh, status \in {"success", "unknown", "failure"} :
          /\ DeviceJoin([ami |-> d, addr |-> short[d], parent |-> Self,
                         secure |-> preconfigured], status, secTimers \cup {"NEW_DEVICE"})
          /\ children' = IF status = "unknown" THEN children \ {d} ELSE children
          /\ fresh' = fresh \ {d} /\ UNCHANGED auth
    /\ UNCHANGED <<secMode, short, joining, secQueue, failed, lost, joins>>

\* ZDSecMgrNewDeviceEvent: one of the new children is looked at, by
\* ZDSecMgrDeviceNew and ...JoinDirect; if there was one, the event comes
\* again.  A child that was refused is taken off the association list.
NewDeviceEvent ==
    /\ SecHandles("NEW_DEVICE") /\ secEvents' = secEvents \ {"NEW_DEVICE"}
    /\ IF fresh = {} THEN UNCHANGED <<secTables, secNetwork, secTimers, slot, done, crossed, keyed, secTrouble>>
       ELSE \E d \in fresh, status \in {"success", "unknown", "failure"} :
          /\ DeviceJoin([ami |-> d, addr |-> short[d], parent |-> Self,
                         secure |-> preconfigured], status, secTimers \cup {"NEW_DEVICE"})
          /\ LET early == IF preconfigured THEN auth \cup {d} ELSE auth IN
             CASE status = "success" ->
                    fresh' = fresh \ {d} /\ auth' = early \cup {d} /\ UNCHANGED children
               [] status = "unknown" ->
                    /\ children' = children \ {d} /\ fresh' = fresh \ {d}
                    /\ auth' = early \ {d}
               [] OTHER -> auth' = early /\ UNCHANGED <<children, fresh>>
    /\ UNCHANGED <<secMode, short, joining, secQueue, failed, lost, joins>>

\* ZDSecMgrUpdateDeviceInd: a device has joined at a router.
UpdateDeviceInd ==
    /\ secQueue /= <<>> /\ Head(secQueue).kind = "update" /\ secQueue' = Tail(secQueue)
    /\ LET m == Head(secQueue) IN
       \E status \in {"success", "unknown", "failure"} :
          DeviceJoin([ami |-> m.ami, addr |-> short[m.ami], parent |-> m.parent,
                      secure |-> preconfigured], status, secTimers)
    /\ UNCHANGED <<secMode, short, secNetwork, joining, secEvents, failed, lost, joins>>

-----------------------------------------------------------------------------
(* The records move on                                                     *)

\* Mutant: only the record that is handled sees to the timer.
SecMgrEventOne ==
    /\ SecHandles("SECMGR") /\ secEvents' = secEvents \ {"SECMGR"}
    /\ LET i == First(Active(Counted)) IN
       IF i = 0 THEN UNCHANGED <<t, secTimers, slot, keyed, secTrouble>> ELSE CtrlHandler(Counted, i, secTimers)
    /\ UNCHANGED <<secMode, short, masters, secNetwork, joining, secQueue, done, crossed, failed, lost, joins>>

\* ZDSecMgrEvent.  Counters count down to 0; the first record at 0 takes its
\* step, and if there are others the event comes again.
SecMgrEvent ==
    /\ SecHandles("SECMGR") /\ secEvents' = secEvents \ {"SECMGR"}
    /\ LET i == First({j \in Active(Counted) : Counted.ctrl[j].cntr = 0})
           others == Active(Counted) \ {i}
           running == IF others = {} THEN secTimers ELSE secTimers \cup {"SECMGR"} IN
       IF i = 0 THEN t' = Counted /\ secTimers' = running /\ UNCHANGED <<slot, keyed, secTrouble>>
                ELSE CtrlHandler(Counted, i, running)
    /\ UNCHANGED <<secMode, short, masters, secNetwork, joining, secQueue, done, crossed, failed, lost, joins>>

\* ZDSecMgrEstablishKeyCfm.
EstablishKeyCfm ==
    /\ secQueue /= <<>> /\ Head(secQueue).kind = "cfm" /\ secQueue' = Tail(secQueue)
    /\ CtrlUpdate(Head(secQueue).ami, TRUE)
    /\ UNCHANGED <<secMode, short, masters, secNetwork, joining, secEvents, secTimers, slot, history, secOutside>>

\* The library is done with a key establishment: its message may find no
\* buffer (ZDApp_SendMsg).
Established ==
    /\ slot /= Nobody /\ slot' = Nobody
    /\ Len(secQueue) < MaxSecQueue
    /\ done' = IF \E i \in Record(slot) : t.ctrl[i].state = "SKKE_WAIT"
                  THEN done \cup {slot} ELSE done
    /\ \/ /\ secQueue' = Append(secQueue, [kind |-> "cfm", ami |-> slot, parent |-> Self])
          /\ UNCHANGED <<lost, secTrouble>>
       \/ /\ secTrouble > 0 /\ secTrouble' = secTrouble - 1
          /\ lost' = lost \cup {slot} /\ UNCHANGED secQueue
    /\ UNCHANGED <<secMode, short, secTables, secNetwork, joining, secEvents, secTimers, crossed, keyed, failed, joins>>

\* APSME_SKA_TimerExpired: a key establishment took too long.
SKA_TimerExpired ==
    /\ slot /= Nobody /\ slot' = Nobody /\ failed' = failed \cup {slot}
    /\ CtrlUpdate(slot, FALSE)
    /\ secTrouble > 0 /\ secTrouble' = secTrouble - 1
    /\ UNCHANGED <<secMode, short, masters, secNetwork, joining, task, done, crossed, keyed, lost, joins>>

-----------------------------------------------------------------------------
(* The rest of the world                                                   *)

Newcomer(d, a) ==
    /\ joins > 0 /\ joins' = joins - 1
    /\ \A x \in Devices : short[x] = a => x = d
    /\ short' = [short EXCEPT ![d] = a]
    /\ keyed' = keyed \ {d} /\ failed' = failed \ {d} /\ lost' = lost \ {d}

\* A device associates (NWK library): ZDO_JoinIndicationCB starts the timer.
Associate(d, a) ==
    /\ Newcomer(d, a)
    /\ children' = children \cup {d} /\ fresh' = fresh \cup {d} /\ auth' = auth \ {d}
    /\ secTimers' = secTimers \cup {"NEW_DEVICE"}
    /\ UNCHANGED <<secMode, secTables, joining, secEvents, secQueue, slot, done, crossed, secTrouble>>

\* A router announces a device that joined there.
Announce(d, a, parent) ==
    /\ Newcomer(d, a) /\ d \notin children /\ Len(secQueue) < MaxSecQueue
    /\ secQueue' = Append(secQueue, [kind |-> "update", ami |-> d, parent |-> parent])
    /\ UNCHANGED <<secMode, secTables, secNetwork, joining, secEvents, secTimers, slot, done, crossed, secTrouble>>

\* A child leaves (NWK library).
Leave(d) ==
    /\ secTrouble > 0 /\ secTrouble' = secTrouble - 1 /\ d \in children
    /\ children' = children \ {d} /\ fresh' = fresh \ {d} /\ auth' = auth \ {d}
    /\ UNCHANGED <<secMode, short, secTables, joining, task, slot, history, joins>>

\* ZDSecMgrDeviceRemoveByExtAddr, for the host.
DeviceRemoveByExtAddr(d) ==
    LET e == EntryLookupExt(t, d) IN
    /\ secTrouble > 0 /\ secTrouble' = secTrouble - 1
    /\ e /= 0 /\ t' = DeviceEntryRemove(t, e)
    /\ UNCHANGED <<secMode, short, masters, secNetwork, joining, task, slot, history, joins>>

\* ZDSecMgrPermitJoining: for good, for a time, or not.
PermitJoining(duration) ==
    /\ secTrouble > 0 /\ secTrouble' = secTrouble - 1
    /\ permit' = (duration /= "none") /\ timed' = (duration = "a while")
    /\ UNCHANGED <<secMode, short, secTables, secNetwork, preconfigured, task, slot, history, joins>>

\* ZDSecMgrPermitJoiningTimeout.
PermitJoiningTimeout ==
    /\ timed /\ permit' = FALSE /\ timed' = FALSE
    /\ UNCHANGED <<secMode, short, secTables, secNetwork, preconfigured, task, slot, history, secOutside>>

SecExpire(b) ==
    /\ b \in secTimers /\ secTimers' = secTimers \ {b} /\ secEvents' = secEvents \cup {b}
    /\ UNCHANGED <<secMode, short, secTables, secNetwork, joining, secQueue, slot, history, secOutside>>

-----------------------------------------------------------------------------
\* ZDSecMgrInit: the entries are those of NV, if the network is restored.
SecMgrInit ==
    /\ secMode \in Modes /\ preconfigured \in BOOLEAN
    /\ short = [d \in Devices |-> Nowhere]
    /\ \E r \in Restores :
          t = [addr |-> short, ctrl |-> CtrlInit,
               ami |-> [i \in Indices |-> IF i <= Len(r) THEN r[i] ELSE Nobody]]
    /\ masters = {} /\ children = {} /\ fresh = {} /\ auth = {}
    /\ permit = TRUE /\ timed = FALSE
    /\ secEvents = {} /\ secTimers = {} /\ secQueue = <<>> /\ slot = Nobody
    /\ done = {} /\ crossed = {} /\ keyed = {} /\ failed = {} /\ lost = {}
    /\ joins = MaxJoins /\ secTrouble = MaxSecTrouble

SecTask == NewDeviceEvent \/ UpdateDeviceInd \/ SecMgrEvent \/ EstablishKeyCfm

SecNext ==
    \/ SecTask
    \/ Established \/ SKA_TimerExpired
    \/ \E d \in Devices, a \in Addrs :
          Associate(d, a) \/ \E p \in Parents \ {Self} : Announce(d, a, p)
    \/ \E d \in Devices : Leave(d) \/ DeviceRemoveByExtAddr(d)
    \/ \E duration \in {"for good", "a while", "none"} : PermitJoining(duration)
    \/ PermitJoiningTimeout
    \/ \E b \in SecBits : SecExpire(b)

\* Weak fairness of Task, which is enabled as long as there is work.
TaskFairness == []<>(secQueue = <<>> /\ secEvents = {}) \/ []<><<SecTask>>_secVars

SecFairness ==
    /\ TaskFairness /\ WF_secVars(Established \/ SKA_TimerExpired)
    /\ \A b \in SecBits : WF_secVars(SecExpire(b))

SecSpec == SecMgrInit /\ [][SecNext]_secVars /\ SecFairness

-----------------------------------------------------------------------------
(* Properties                                                              *)

SecTypeOK ==
    /\ secMode \in {"high", "standard"} /\ t \in Table
    /\ \A S \in {masters, children, fresh, auth, done, crossed, keyed, failed, lost} : S \subseteq Devices
    /\ Cardinality(masters) <= Size
    /\ short \in [Devices -> Addrs \cup {Nowhere}]
    /\ {permit, timed, preconfigured} \subseteq BOOLEAN
    /\ secEvents \subseteq SecBits /\ secTimers \subseteq SecBits
    /\ secQueue \in Seq([kind : {"cfm", "update"}, ami : Devices, parent : Parents])
    /\ slot \in Devices \cup {Nobody}
    /\ joins \in Nat /\ secTrouble \in Nat

\* However devices come back, change their addresses, are removed or fail:
\* each device has one entry, and each record in use is the only one of a
\* live entry, so that no record moves another device along.
TablesSound == SecTypeOK /\ RecordsSound(t) /\ EntriesSound(t)

\* Nothing is left waiting without an event to come: as long as a record is
\* in use the event that moves the records on is set or its timer runs, and
\* as long as a child is new the other one.
Polled ==
    /\ Active(t) /= {} => "SECMGR" \in secEvents \cup secTimers
    /\ fresh /= {} => "NEW_DEVICE" \in secEvents \cup secTimers

\* In high security the network key is sent to a device only after the key
\* establishment of this joining, never on the outcome of an earlier one.
\* Excused is the one order of messages that ZDSecMgrEstablishKeyCfm cannot
\* tell: the confirmation of the earlier one in the queue behind the
\* announcement that the device has joined anew.
KeyAfterSkke ==
    \A i \in Active(t) :
        t.ctrl[i].state = "TK_NWK" => t.ami[t.ctrl[i].entry] \in done \cup crossed

\* A child that is no longer new has been sent the network key, or has a
\* record that will see to it, or its key establishment has failed; excused
\* are those whose confirmation was lost or entry removed.
Accounted ==
    \A d \in children \ fresh :
        d \in keyed \/ Record(d) /= {} \/ d \in failed
            \/ (secMode = "high" /\ EntryLookupAMI(t, d) = 0)

\* The trust centre: its tables sound, something to come wherever it waits, the
\* key sent after this joining's exchange only, and no child forgotten.
TrustSound == TablesSound /\ Polled /\ KeyAfterSkke /\ Accounted

\* The protocol of each device ends, unless its confirmation was lost: then
\* its record waits for ever, and its slot of the table is not free again
\* until the device joins anew.
Settles == \A d \in Devices : []<>(Record(d) = {} \/ lost /= {})
=============================================================================
