------------------------------ MODULE ZdNwkMgr ------------------------------
(***************************************************************************)
(* The network manager of the ZDO (ZDNwkMgr.c): energy scans on request,   *)
(* reports of interference, the change of the network's channel and of its *)
(* PAN id, on the manager and on the other routers at once.                *)
(*                                                                         *)
(* Outside this file are the network layer (it scans, and refuses a scan   *)
(* while one runs; it counts transmissions, which are inputs here, and     *)
(* carries broadcasts and reports) and a commissioning tool, which asks    *)
(* for scans and names another manager.                                    *)
(*                                                                         *)
(* A broadcast is delivered, or lost, within the broadcast delivery time,  *)
(* that is before a change timer started for it expires, and minutes pass  *)
(* only when no change is under way.                                       *)
(***************************************************************************)
EXTENDS Integers, FiniteSets

CONSTANTS
    NwkDevices,         \* the routers, the coordinator among them
    Manager,            \* the one with zgNwkMgrMode = ZDNWKMGR_ENABLE
    Channels,
    PanIds,
    IdSize,             \* the values of nwkUpdateId, 256
    FirstId,            \* the update id at the start
    ScanMax,            \* ZDNWKMGR_MAX_SCAN_COUNT
    FF,                 \* the scanCount that marks a scan for interference, 0xFF
    ReportMax,          \* reports of a period, 4
    Period,             \* minutes of both timers, 60
    MaxInputs           \* bound: interferences noticed, requests and reports, messages lost

NoDevice == "none"
Tool == "tool"
Rates == 0 .. 2         \* failure rates; those below 1 are below ZDNWKMGR_CC_TX_FAILURE

\* The tool and nobody are not devices, some channel is the lowest, and 0xFF counts no
\* scans that may be asked for.
ASSUME NwkMgrAssumption ==
    /\ Manager \in NwkDevices /\ Tool \notin NwkDevices /\ NoDevice \notin NwkDevices
    /\ Channels \subseteq Nat /\ \E c \in Channels : \A o \in Channels : c <= o
    /\ IdSize \in Nat /\ FirstId \in 0 .. IdSize - 1
    /\ ScanMax \in Nat /\ FF \in Nat /\ ScanMax < FF
    /\ ReportMax \in Nat /\ Period \in Nat \ {0}

VARIABLES
    dev,                \* of each device, see Start
    reqTimer, reqRuns,  \* ZDNwkMgr_UpdateRequestTimer, and its event
    lastRate,           \* ZDNwkMgr_LastChannelFailureRate
    panInUse, panBusy,  \* the network's PAN id, ZDNwkMgr_PanIdUpdateInProgress
    report,             \* a network report at the manager: PAN ids heard, or None
    hung,               \* ProcessNetworkReport does not return
    nwkAir,             \* copies of a broadcast Mgmt_NWK_Update_req on their way
    notes,              \* Mgmt_NWK_Update_notify on their way to the manager
    inputs,
    since,              \* history: minutes since the manager's last change, at most Period + 1
    missed              \* history: a copy of a change was lost, its id wrapped around,
                        \* or the tool was sending a request with the same id

mgr == <<reqTimer, reqRuns, lastRate>>
panVars == <<panInUse, panBusy, report, hung>>
histories == <<since, missed>>
nwkMgrVars == <<dev, mgr, panVars, nwkAir, notes, inputs, histories>>

None == [none |-> TRUE]

\* ZDNwkMgr_Init, on a device that has joined.
Start ==
    [channel |-> CHOOSE c \in Channels : \A o \in Channels : c <= o,
     id |-> FirstId,            \* _NIB.nwkUpdateId
     manager |-> Manager,       \* _NIB.nwkManagerAddr
     newChannel |-> 0,          \* ZDNwkMgr_NewChannel
     due |-> FALSE,             \* the timer of ZDNWKMGR_CHANNEL_CHANGE_EVT runs
     scanning |-> NoDevice,     \* the network layer scans: for whom
     confirm |-> NoDevice,      \* NM_ED_SCAN_CONFIRM is waiting: for whom
     count |-> 0,               \* ZDNwkMgr_MgmtNwkUpdateReq.scanCount
     scanEvt |-> FALSE,         \* the timer of ZDNWKMGR_SCAN_REQUEST_EVT runs
     addr |-> NoDevice,         \* ZDNwkMgr_MgmtNwkUpdateNotifyAddr
     asker |-> NoDevice,        \* history: whose request is served ...
     left |-> 0,                \* ... and how many results it may still get
     wrong |-> FALSE,           \* history: a result went to another than who asked for it
     crossed |-> FALSE,         \* history: see Crossing, BadRequest and ScanEnds
     sent |-> 0,                \* ZDNwkMgr_NumUpdateNotifySent
     timer |-> 0,               \* ZDNwkMgr_UpdateNotifyTimer ...
     runs |-> FALSE]            \* ... and its event

NwkMgrInit ==
    /\ dev = [d \in NwkDevices |-> Start]
    /\ reqTimer = 0 /\ reqRuns = FALSE /\ lastRate = 0
    /\ panInUse \in PanIds /\ panBusy = FALSE /\ report = None /\ hung = FALSE
    /\ nwkAir = {} /\ notes = 0
    /\ inputs = 0
    /\ since = Period + 1 /\ missed = FALSE

Runs(d) == ~(hung /\ d = Manager)
NobodyBusy == nwkAir = {} /\ \A d \in NwkDevices : ~dev[d].due
Scans(d) == dev[d].scanning # NoDevice

\* A request that came while the network layer scanned is looked at when the scan has
\* ended, before its confirmation, which is behind it in the queue.
Crossing(s) == s.crossed \/ s.confirm # NoDevice

\* Mutant: the update id is not incremented.
SameId(i) == i

NextId(i) == (i + 1) % IdSize

\* ZDP_MgmtNwkUpdateReq to NWK_BROADCAST_SHORTADDR_DEVRXON.
Copies(from, id, channel, manager) ==
    {[to |-> d, from |-> from, id |-> id, channel |-> channel, manager |-> manager] :
        d \in NwkDevices \ {from}}

-----------------------------------------------------------------------------
(* Reports and requests                                                    *)

\* The network layer finds that transmissions fail and calls back: ReportChannelInterference,
\* then ProcessChannelInterference.
ChannelInterference(d) ==
    /\ Runs(d) /\ inputs < MaxInputs
    /\ inputs' = inputs + 1
    /\ dev' = [dev EXCEPT ![d] =
                 IF @.sent < ReportMax /\ ~Scans(d)
                 THEN [@ EXCEPT !.scanning = d, !.count = FF, !.crossed = Crossing(dev[d])]
                 ELSE @]
    /\ UNCHANGED <<mgr, panVars, nwkAir, notes, histories>>

\* Mutant: the scan that is begun is not counted.
AllToDo(n) == n

ScansToDo(n) == n - 1

\* ProcessMgmtNwkUpdateReq, unicast: n scans for `from`.
ScanRequest(d, n, from) ==
    /\ Runs(d) /\ inputs < MaxInputs
    /\ inputs' = inputs + 1
    /\ dev' = [dev EXCEPT ![d] =
                 IF n > 0 /\ n <= ScanMax /\ ~Scans(d)
                 THEN [@ EXCEPT !.scanning = from, !.addr = from, !.count = ScansToDo(n),
                                !.asker = from, !.left = n, !.crossed = Crossing(dev[d])]
                 ELSE @]
    /\ UNCHANGED <<mgr, panVars, nwkAir, notes, histories>>

\* ... with a duration that is reserved (0x06 to 0xFD): refused, in a notify of its own.
BadRequest(d, from) ==
    /\ Runs(d) /\ inputs < MaxInputs
    /\ inputs' = inputs + 1
    /\ dev' = [dev EXCEPT ![d].addr = from, ![d].crossed = TRUE]
    /\ UNCHANGED <<mgr, panVars, nwkAir, notes, histories>>

\* EDScanConfirmCB: the scan has ended; the message may find no room.
ScanEnds(d) ==
    /\ Scans(d)
    /\ \/ /\ dev[d].confirm = NoDevice
          /\ dev' = [dev EXCEPT ![d].scanning = NoDevice, ![d].confirm = dev[d].scanning]
          /\ UNCHANGED inputs
       \/ /\ inputs < MaxInputs
          /\ inputs' = inputs + 1
          /\ dev' = [dev EXCEPT ![d].scanning = NoDevice, ![d].crossed = TRUE]
    /\ UNCHANGED <<mgr, panVars, nwkAir, notes, histories>>

\* BuildAndSendUpdateNotify: a notify that concerns nobody but the manager is not followed.
Notify(to) == notes' = notes + IF to = Manager /\ notes < 2 THEN 1 ELSE 0

\* CheckForChannelInterference, with energy on the channel or without.
InterferenceChecked(d, s) ==
    \/ /\ dev' = [dev EXCEPT ![d] =
            [s EXCEPT !.addr = s.manager, !.sent = @ + 1, !.count = 0,
                      !.timer = IF s.sent = 0 THEN Period ELSE @,
                      !.runs = @ \/ s.sent = 0]]
       /\ Notify(s.manager)
    \/ dev' = [dev EXCEPT ![d] = [s EXCEPT !.count = 0]] /\ UNCHANGED notes

\* ProcessEDScanConfirm
ScanConfirm(d) ==
    LET for == dev[d].confirm
        s == [dev[d] EXCEPT !.confirm = NoDevice]
    IN  /\ Runs(d) /\ for # NoDevice
        /\ \/ s.count = FF /\ InterferenceChecked(d, s)
           \/ /\ s.count # FF
              /\ dev' = [dev EXCEPT ![d] =
                   [s EXCEPT !.left = IF @ > -1 /\ s.addr = s.asker THEN @ - 1 ELSE @,
                             !.wrong = @ \/ for # s.addr,
                             !.scanEvt = @ \/ s.count > 0]]
              /\ Notify(s.addr)
        /\ UNCHANGED <<mgr, panVars, nwkAir, inputs, histories>>

\* ZDNWKMGR_SCAN_REQUEST_EVT; the event loop looks at messages first.
ScanRequestEvt(d) ==
    LET s == [dev[d] EXCEPT !.scanEvt = FALSE]
    IN  /\ Runs(d) /\ dev[d].scanEvt /\ dev[d].confirm = NoDevice
        /\ dev' = [dev EXCEPT ![d] = IF s.count > 0 /\ ~Scans(d)
                                     THEN [s EXCEPT !.scanning = s.asker, !.count = @ - 1]
                                     ELSE s]
        /\ UNCHANGED <<mgr, panVars, nwkAir, notes, inputs, histories>>

-----------------------------------------------------------------------------
(* The manager                                                             *)

\* Mutant: the timer is not looked at.
AnyTime == TRUE

ReqTimerFree == reqTimer = 0

\* CheckForChannelChange: a notify says that transmissions fail at this rate and that
\* this channel is the quietest.  With no transmission at all the rate is a division
\* by zero, that is any; which channel it is and how loud are inputs.
ChannelChange(rate, quietest, acceptable) ==
    LET s == dev[Manager]
        id == NextId(s.id)
    IN  IF /\ rate >= 1 /\ rate >= lastRate /\ acceptable
           /\ quietest # s.channel /\ ReqTimerFree
        THEN /\ dev' = [dev EXCEPT ![Manager].newChannel = quietest, ![Manager].id = id,
                                   ![Manager].due = TRUE]
             /\ lastRate' = rate
             /\ nwkAir' = nwkAir \cup Copies(Manager, id, quietest, NoDevice)
             /\ reqTimer' = Period /\ reqRuns' = TRUE
             /\ since' = 0
             /\ missed' = (missed \/ id = 0 \/ nwkAir # {})
        ELSE UNCHANGED <<dev, mgr, nwkAir, since, missed>>

\* ProcessMgmtNwkUpdateNotify
UpdateNotify ==
    /\ Runs(Manager) /\ notes > 0
    /\ notes' = notes - 1
    /\ \E rate \in Rates, c \in Channels, ok \in BOOLEAN : ChannelChange(rate, c, ok)
    /\ UNCHANGED <<panVars, inputs>>

\* ZDNWKMGR_UPDATE_REQUEST_EVT and ZDNWKMGR_UPDATE_NOTIFY_EVT, a minute later: all the
\* devices' timers in one step.
NotifyEvt(s) ==
    IF ~s.runs THEN s
    ELSE IF s.timer > 0 THEN [s EXCEPT !.timer = @ - 1]
    ELSE [s EXCEPT !.sent = 0, !.runs = FALSE]

RequestEvt ==
    IF reqRuns /\ reqTimer > 0 THEN reqTimer' = reqTimer - 1 /\ UNCHANGED reqRuns
    ELSE reqRuns' = FALSE /\ UNCHANGED reqTimer

Minute ==
    /\ NobodyBusy
    /\ reqRuns \/ \E d \in NwkDevices : dev[d].runs
    /\ dev' = [d \in NwkDevices |-> IF Runs(d) THEN NotifyEvt(dev[d]) ELSE dev[d]]
    /\ IF hung THEN UNCHANGED <<reqTimer, reqRuns>> ELSE RequestEvt
    /\ since' = IF since > Period THEN since ELSE since + 1
    /\ UNCHANGED <<lastRate, panVars, nwkAir, notes, inputs, missed>>

-----------------------------------------------------------------------------
(* The change, on every device                                             *)

\* An id is new only when it is greater: the comparison does not wrap.
Newer(id, than) == id > than

\* SetNwkManagerAddr
SetNwkManagerAddr(s, manager) == [s EXCEPT !.manager = manager]

\* ProcessMgmtNwkUpdateReq with scanDuration 0xFE and 0xFF.
Updated(s, p) ==
    IF ~Newer(p.id, s.id) THEN s
    ELSE IF p.from = Tool THEN SetNwkManagerAddr([s EXCEPT !.id = p.id], p.manager)
    ELSE IF s.channel = p.channel THEN [s EXCEPT !.id = p.id]
    ELSE [s EXCEPT !.id = p.id, !.newChannel = p.channel, !.due = TRUE]

\* Who has left the sender's channel does not hear it.
Hears(p) == p.from # Tool => dev[p.to].channel = dev[p.from].channel

UpdateReq(p) ==
    /\ Runs(p.to) /\ Hears(p)
    /\ nwkAir' = nwkAir \ {p}
    /\ dev' = [dev EXCEPT ![p.to] = Updated(@, p)]
    /\ UNCHANGED <<mgr, panVars, notes, inputs, histories>>

UpdateReqLost(p) ==
    /\ \/ inputs < MaxInputs /\ inputs' = inputs + 1
       \/ ~(Hears(p) /\ Runs(p.to)) /\ UNCHANGED inputs
    /\ nwkAir' = nwkAir \ {p}
    /\ missed' = TRUE
    /\ UNCHANGED <<dev, mgr, panVars, notes, since>>

\* ZDNWKMGR_CHANNEL_CHANGE_EVT
MoveChannelEvt(d) ==
    /\ Runs(d) /\ dev[d].due /\ nwkAir = {}
    /\ dev' = [dev EXCEPT ![d].due = FALSE, ![d].channel = dev[d].newChannel]
    /\ UNCHANGED <<mgr, panVars, nwkAir, notes, inputs, histories>>

\* The tool names another manager (0xFF, broadcast), or a Server_Discovery_rsp does
\* (ProcessServerDiscRsp) on one device.
NameManager(d) ==
    /\ NobodyBusy /\ inputs < MaxInputs
    /\ dev[Manager].id + 1 < IdSize
    /\ inputs' = inputs + 1
    /\ nwkAir' = Copies(Tool, dev[Manager].id + 1, 0, d)
    /\ UNCHANGED <<dev, mgr, panVars, notes, histories>>

ManagerAnswers(d, e) ==
    /\ Runs(d) /\ inputs < MaxInputs
    /\ inputs' = inputs + 1
    /\ dev' = [dev EXCEPT ![d] = SetNwkManagerAddr(@, e)]
    /\ UNCHANGED <<mgr, panVars, nwkAir, notes, histories>>

-----------------------------------------------------------------------------
(* PAN id conflicts                                                        *)

\* NetworkReportCB: a router heard these PAN ids about, its own among them.
NetworkReport(heard) ==
    /\ report = None /\ inputs < MaxInputs
    /\ inputs' = inputs + 1
    /\ report' = [ids |-> heard]
    /\ UNCHANGED <<dev, mgr, panInUse, panBusy, hung, nwkAir, notes, histories>>

\* ProcessNetworkReport.  `unique` stays FALSE once a drawn id was in the list, and the
\* loop that draws does not end.
Unique(p) == p \notin report.ids

ProcessNetworkReport(p) ==
    /\ Runs(Manager) /\ report # None
    /\ report' = None
    /\ \/ panBusy /\ UNCHANGED <<panInUse, panBusy, hung>>
       \/ ~panBusy /\ Unique(p) /\ panInUse' = p /\ panBusy' = TRUE /\ UNCHANGED hung
       \/ ~panBusy /\ ~Unique(p) /\ hung' = TRUE /\ UNCHANGED <<panInUse, panBusy>>
    /\ UNCHANGED <<dev, mgr, nwkAir, notes, inputs, histories>>

\* ProcessNetworkUpdate
NetworkUpdate ==
    /\ Runs(Manager) /\ panBusy
    /\ panBusy' = FALSE
    /\ UNCHANGED <<dev, mgr, panInUse, report, hung, nwkAir, notes, inputs, histories>>

-----------------------------------------------------------------------------
DeviceStep(d) ==
    \/ ChannelInterference(d) \/ ScanEnds(d) \/ ScanConfirm(d) \/ ScanRequestEvt(d)
    \/ MoveChannelEvt(d) \/ NameManager(d)
    \/ \E n \in 1 .. ScanMax + 1 : ScanRequest(d, n, Tool)
    \/ \E n \in 1 .. 2 : d # Manager /\ ScanRequest(d, n, Manager)
    \/ BadRequest(d, "other")
    \/ \E e \in NwkDevices : ManagerAnswers(d, e)

NwkMgrNext ==
    \/ \E d \in NwkDevices : DeviceStep(d)
    \/ UpdateNotify \/ Minute
    \/ \E p \in nwkAir : UpdateReq(p) \/ UpdateReqLost(p)
    \/ \E heard \in SUBSET PanIds : panInUse \in heard /\ NetworkReport(heard)
    \/ \E p \in PanIds : ProcessNetworkReport(p)
    \/ NetworkUpdate

NwkMgrSpec == NwkMgrInit /\ [][NwkMgrNext]_nwkMgrVars

-----------------------------------------------------------------------------
NwkMgrTypeOK ==
    /\ \A d \in NwkDevices :
          /\ dev[d].channel \in Channels /\ dev[d].id \in 0 .. IdSize - 1
          /\ dev[d].count \in 0 .. FF
          /\ dev[d].sent \in 0 .. ReportMax /\ dev[d].timer \in 0 .. Period
    /\ reqTimer \in 0 .. Period /\ notes \in 0 .. 2 /\ panInUse \in PanIds

\* A change of channel reaches the whole network (CheckForChannelChange,
\* ProcessMgmtNwkUpdateReq, ZDNWKMGR_CHANNEL_CHANGE_EVT): once it is through, every
\* device is on the manager's channel and has its update id, whatever the order of
\* deliveries and timers, unless a copy was lost or the id wrapped around.
OneChannel ==
    NwkMgrTypeOK /\ (NobodyBusy /\ ~missed /\ ~hung =>
        \A d \in NwkDevices : /\ dev[d].channel = dev[Manager].channel
                              /\ dev[d].id = dev[Manager].id)

\* "shall not issue another such command until this timer expires": between two changes
\* that the manager broadcasts the whole period passes.
ChangesApart ==
    [][(\E p \in nwkAir' \ nwkAir : p.from = Manager) => since >= Period]_nwkMgrVars

\* The results of the scans asked for with a Mgmt_NWK_Update_req go to who asked, and
\* are no more than asked for, however reports of interference and further requests
\* come between the scans: unless a request was taken while a confirmation waited, a
\* confirmation was lost, or a request with a bad duration overwrote the address.
CountKept ==
    \A d \in NwkDevices : ~dev[d].crossed => dev[d].left >= 0 /\ ~dev[d].wrong

\* The network manager: one channel in the end, counts kept, and changes of
\* channel apart.
ManagerSound == [](OneChannel /\ CountKept) /\ ChangesApart
=============================================================================
