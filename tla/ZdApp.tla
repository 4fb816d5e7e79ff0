------------------------------- MODULE ZdApp -------------------------------
(***************************************************************************)
(* The ZDO device application: how a device starts, forms or joins its     *)
(* network, is authenticated, loses its parent and comes back, leaves and  *)
(* restarts (stack/zdo/ZDApp.c, ZDO_StartDevice and ZDO_UpdateNwkStatus in *)
(* ZDObject.c).                                                            *)
(*                                                                         *)
(* The NWK library answers each request some time later by a callback; the *)
(* callback writes nwkStatus, which is shared, and leaves an event or a    *)
(* message for the ZDApp task.  By the time that is handled the device may *)
(* have moved on, another callback may have come, a timer may have run out.*)
(*                                                                         *)
(* A timer is running or not; delays are not compared.  Polling rates, the *)
(* device's descriptors and addresses other than "none" are left out.      *)
(***************************************************************************)
EXTENDS Integers, Sequences

CONSTANTS
    Builds,         \* the device types and compile options, see Build
    NumDisc,        \* NUM_DISC_ATTEMPTS
    MaxResume,      \* MAX_RESUME_RETRY
    DiscWidth,      \* zdoDiscCounter counts modulo this, 256 in the code
    MaxChanges,     \* MAX_NWK_FRAMECOUNTER_CHANGES, 1000 in the code
    EnergySteps,    \* how often the energy threshold can be raised
    MaxQueue,       \* bound: messages waiting for ZDApp
    MaxTrouble,     \* bound: refusals, failures, lost parents, leaves, restarts
    MaxDevFrames    \* bound: secured frames sent

Build == [type : {"coordinator", "router", "device"}, secure : BOOLEAN,
          nvRestore : BOOLEAN, insecureJoin : BOOLEAN]

\* The count of discoveries can hold the one it starts with.
ASSUME ZdAppAssumption ==
    /\ Builds \subseteq Build
    /\ DiscWidth \in Nat /\ DiscWidth > 1
    /\ MaxChanges \in Nat /\ EnergySteps \in Nat /\ MaxQueue \in Nat
    /\ MaxTrouble \in Nat /\ MaxDevFrames \in Nat

VARIABLES
    build,                  \* what this device was compiled to be
    logical,                \* LogicalType: a router may have to join as a device
    devState,
    devStartMode,
    retryCnt,
    zdoDiscCounter,
    continueJoining,
    nwkStatus,              \* the last callback's status was success
    events,                 \* the event bits set for the task
    timers,                 \* the event bits that have a timer running
    queue,                  \* the messages for the task
    busy,                   \* the task has taken one message and not yet the rest
    dropped,                \* history: a message found no buffer
    nwk,                    \* the requests the NWK library has not answered
    known,                  \* _NIB.nwkPanId is valid
    key,                    \* the device holds the network key
    nwkFrameCounter,
    nwkFrameCounterChanges,
    energy,                 \* times the energy threshold was raised
    nv,                     \* what survives a restart
    toldApp,                \* the state last told to the applications
    unnoticed,              \* history: changes of the counter, since it was last
                            \* saved or restored, that made no event of their own
    trouble,                \* troubles still to come, see MaxTrouble
    frames                  \* secured frames still to send, see MaxDevFrames

mail     == <<queue, busy, dropped>>
network  == <<retryCnt, zdoDiscCounter, known>>
security == <<key, nwkFrameCounter, nwkFrameCounterChanges, unnoticed>>
outside  == <<trouble, frames>>
zdAppVars == <<build, logical, devState, devStartMode, network, continueJoining, nwkStatus,
               events, timers, mail, nwk, security, energy, nv, toldApp, outside>>

Joins == build.type /= "coordinator"
InNetwork == devState \in {"END_DEVICE", "ROUTER", "ZB_COORD"}

States == {"HOLD", "INIT", "NWK_DISC", "NWK_JOINING", "NWK_REJOIN", "NWK_ORPHAN",
           "END_DEVICE_UNAUTH", "END_DEVICE", "ROUTER", "COORD_STARTING", "ZB_COORD"}
Bits == {"NETWORK_INIT", "NETWORK_START", "ROUTER_START", "STATE_CHANGE", "NWK_UPDATE_NV",
         "DEVICE_RESET", "DEVICE_AUTH", "FRAMECOUNTER"}
Requests == {"form", "start", "disc", "join", "rejoin", "orphan"}

ZdAppTypeOK ==
    /\ build \in Build /\ logical \in {"coordinator", "router", "device"}
    /\ devState \in States
    /\ devStartMode \in {"JOIN", "RESUME", "HARD", "REJOIN"}
    /\ retryCnt \in Nat /\ zdoDiscCounter \in 0 .. DiscWidth - 1
    /\ {continueJoining, nwkStatus, busy, dropped, known, key} \subseteq BOOLEAN
    /\ events \subseteq Bits /\ timers \subseteq Bits
    /\ queue \in Seq({"disc ok", "disc fail", "join", "lost"}) /\ Len(queue) <= MaxQueue
    /\ nwk \subseteq Requests
    /\ nwkFrameCounter \in Nat /\ nwkFrameCounterChanges \in 0 .. MaxChanges + 1
    /\ energy \in 0 .. EnergySteps
    /\ nv \in [leave : {"none", "hold", "again"}, fresh : BOOLEAN,
               saved : BOOLEAN, key : BOOLEAN, counter : Nat]
    /\ toldApp \in States
    /\ unnoticed \in Nat
    /\ trouble \in 0 .. MaxTrouble /\ frames \in 0 .. MaxDevFrames

-----------------------------------------------------------------------------
(* Timers, events and messages of the task                                 *)

\* ZDApp_NetworkInit, with or without a delay.
NetworkInit(delayed) ==
    IF delayed THEN timers' = timers \cup {"NETWORK_INIT"} /\ UNCHANGED events
               ELSE events' = events \cup {"NETWORK_INIT"} /\ UNCHANGED timers

\* ZDApp_SendMsg: without a buffer the message is dropped, silently.
SendMsg(m) ==
    /\ ~busy /\ Len(queue) < MaxQueue
    /\ \/ queue' = Append(queue, m) /\ UNCHANGED <<dropped, outside>>
       \/ /\ trouble > 0 /\ trouble' = trouble - 1
          /\ dropped' = TRUE
          /\ UNCHANGED <<queue, frames>>
    /\ UNCHANGED busy

\* Mutant: a refused request is not tried again.
RequestOnce(r, retry) ==
    \/ nwk' = nwk \cup {r} /\ UNCHANGED <<timers, outside>>
    \/ trouble > 0 /\ trouble' = trouble - 1 /\ UNCHANGED <<nwk, timers, frames>>

\* A request to the NWK library; refused, the start is tried again later.
Request(r, retry) ==
    \/ nwk' = nwk \cup {r} /\ UNCHANGED <<timers, outside>>
    \/ /\ trouble > 0 /\ trouble' = trouble - 1
       /\ timers' = timers \cup retry
       /\ UNCHANGED <<nwk, frames>>

-----------------------------------------------------------------------------
(* Start-up                                                                *)

\* ZDApp_ReadNetworkRestoreState: the start is not to be a fresh one.
ReadNetworkRestoreState == build.nvRestore /\ ~nv.fresh

\* ZDApp_RestoreNetworkState: there is a network to restore.
RestoreNetworkState == ReadNetworkRestoreState /\ nv.saved

\* ZDAppDetermineDeviceType.
DetermineDeviceType == IF build.type = "coordinator" THEN "HARD" ELSE "JOIN"

\* ZDApp_LeaveCtrlStartup: a device that was told to leave and not to come
\* back holds, this time, and starts afresh the next.
LeaveCtrlStartup == IF nv.leave = "hold" THEN "HOLD" ELSE "INIT"

\* ZDApp_SecInit.  A trust centre makes its own key.
SecInit(resume) ==
    LET trust == build.secure /\ build.type = "coordinator" IN
    /\ key' = (trust \/ (nv.key /\ resume))
    /\ nwkFrameCounter' = IF trust /\ resume /\ nv.counter > 0
                             THEN nv.counter + MaxChanges ELSE 0
    /\ nwkFrameCounterChanges' = IF trust /\ resume THEN MaxChanges + 1 ELSE 0
    /\ unnoticed' = 0

\* ZDOInitDevice, and what zgInit does to the keys in NV before it.
ZDOInitDevice(pending) ==
    LET hold == LeaveCtrlStartup = "HOLD"
        resume == RestoreNetworkState /\ ~hold
        keep == resume \/ (hold /\ ReadNetworkRestoreState) IN
    /\ devState' = LeaveCtrlStartup
    /\ devStartMode' = IF resume THEN "RESUME" ELSE DetermineDeviceType
    /\ logical' = build.type
    /\ known' = resume
    /\ events' = pending \cup {IF hold THEN "STATE_CHANGE" ELSE "NETWORK_INIT"}
    /\ nv' = [leave |-> "none", fresh |-> nv.fresh \/ hold,
              saved |-> nv.saved /\ (hold \/ resume),
              key |-> nv.key /\ keep, counter |-> IF keep THEN nv.counter ELSE 0]
    /\ SecInit(resume)

\* A restart, and ZDApp_Init: with the bypass key held the device holds.
Boot ==
    /\ retryCnt' = 0 /\ zdoDiscCounter' = 1
    /\ continueJoining' = TRUE /\ nwkStatus' = TRUE
    /\ timers' = {} /\ queue' = <<>> /\ busy' = FALSE /\ dropped' = FALSE
    /\ nwk' = {} /\ energy' = 0 /\ toldApp' = "INIT"
    /\ UNCHANGED <<build, frames>>
    /\ \/ ZDOInitDevice({})
       \/ /\ devState' = "HOLD" /\ devStartMode' = IF Joins THEN "JOIN" ELSE "HARD"
          /\ logical' = build.type /\ known' = FALSE /\ events' = {} /\ key' = FALSE
          /\ nwkFrameCounter' = 0 /\ nwkFrameCounterChanges' = 0 /\ unnoticed' = 0
          /\ nv' = IF build.nvRestore /\ ~nv.fresh THEN nv ELSE [nv EXCEPT !.key = FALSE, !.counter = 0]

\* Released from hold by the application.
Release ==
    /\ devState = "HOLD" /\ ~busy
    /\ ZDOInitDevice(events)
    /\ UNCHANGED <<build, retryCnt, zdoDiscCounter, continueJoining, nwkStatus, timers,
                   mail, nwk, energy, toldApp, outside>>

\* The supply fails, or a watchdog bites.
PowerFails == trouble > 0 /\ trouble' = trouble - 1 /\ Boot

-----------------------------------------------------------------------------
(* Events                                                                  *)

\* ZDApp_event_loop serves messages first, then this order, one bit a call.
Handles(e) ==
    LET order == <<"NETWORK_INIT", "NETWORK_START", "ROUTER_START", "STATE_CHANGE",
                   "NWK_UPDATE_NV", "DEVICE_RESET", "DEVICE_AUTH", "FRAMECOUNTER">> IN
    /\ queue = <<>> /\ e \in events
    /\ \A i, j \in 1 .. Len(order) :
          order[i] = e /\ j < i => order[j] \notin events

\* ZDO_StartDevice.  A router that resumes only pretends an orphan scan.
ZDO_StartDevice ==
    /\ Handles("NETWORK_INIT")
    /\ events' = events \ {"NETWORK_INIT"}
    /\ CASE logical = "coordinator" ->
              /\ devState' = "COORD_STARTING"
              /\ Request(IF devStartMode = "HARD" THEN "form" ELSE "start", {"NETWORK_INIT"})
         [] devStartMode \in {"JOIN", "REJOIN"} ->
              devState' = "NWK_DISC" /\ Request("disc", {"NETWORK_INIT"})
         [] logical = "router" /\ devStartMode = "RESUME" ->
              /\ devState' = "NWK_ORPHAN" /\ nwk' = nwk \cup {"orphan"}
              /\ UNCHANGED <<timers, outside>>
         [] OTHER -> devState' = "NWK_ORPHAN" /\ Request("orphan", {"NETWORK_INIT"})
    /\ UNCHANGED <<build, logical, devStartMode, network, continueJoining, nwkStatus, mail,
                   security, energy, nv, toldApp>>

\* ZDApp_NetworkStartEvt: a coordinator that cannot form a network accepts
\* more energy on the channel, and gives up when there is no more to accept.
NetworkStartEvt ==
    /\ Handles("NETWORK_START")
    /\ LET rest == events \ {"NETWORK_START"} IN
       IF nwkStatus
          THEN /\ devState' = IF devState = "COORD_STARTING" THEN "ZB_COORD" ELSE devState
               /\ events' = rest \cup {"STATE_CHANGE"}
               /\ UNCHANGED energy
       ELSE IF energy < EnergySteps
          THEN /\ energy' = energy + 1
               /\ events' = rest \cup {"NETWORK_INIT"}
               /\ UNCHANGED devState
       ELSE    /\ devState' = "INIT"
               /\ events' = rest \cup {"STATE_CHANGE"}
               /\ UNCHANGED energy
    /\ UNCHANGED <<build, logical, devStartMode, network, continueJoining, nwkStatus, timers,
                   mail, nwk, security, nv, toldApp, outside>>

\* Mutant: the applications are not told of the change.
RouterStartEvtSilent ==
    /\ Handles("ROUTER_START")
    /\ devState' = IF nwkStatus /\ devState = "END_DEVICE" THEN "ROUTER" ELSE devState
    /\ events' = events \ {"ROUTER_START"}
    /\ UNCHANGED <<build, logical, devStartMode, network, continueJoining, nwkStatus, timers,
                   mail, nwk, security, energy, nv, toldApp, outside>>

\* A started router; one that could not be started stays an end device.
RouterStartEvt ==
    /\ Handles("ROUTER_START")
    /\ devState' = IF nwkStatus /\ devState = "END_DEVICE" THEN "ROUTER" ELSE devState
    /\ events' = (events \ {"ROUTER_START"}) \cup {"STATE_CHANGE"}
    /\ UNCHANGED <<build, logical, devStartMode, network, continueJoining, nwkStatus, timers,
                   mail, nwk, security, energy, nv, toldApp, outside>>

\* zdoSendStateChangeMsg: a message that has not been received yet is brought
\* up to date; without a buffer for a new one, the event is set again.
SendStateChangeMsg ==
    \/ /\ toldApp' = devState /\ events' = events \ {"STATE_CHANGE"}
       /\ UNCHANGED outside
    \/ /\ trouble > 0 /\ trouble' = trouble - 1
       /\ UNCHANGED <<toldApp, events, frames>>

\* ZDO_UpdateNwkStatus: the state goes to every endpoint's task.
UpdateNwkStatus ==
    /\ Handles("STATE_CHANGE")
    /\ SendStateChangeMsg
    /\ UNCHANGED <<build, logical, devState, devStartMode, network, continueJoining, nwkStatus,
                   timers, mail, nwk, security, energy, nv>>

SaveNetworkStateEvt ==
    /\ Handles("NWK_UPDATE_NV")
    /\ events' = events \ {"NWK_UPDATE_NV"}
    /\ nv' = IF build.nvRestore THEN [nv EXCEPT !.saved = known, !.fresh = FALSE] ELSE nv
    /\ UNCHANGED <<build, logical, devState, devStartMode, network, continueJoining, nwkStatus,
                   timers, mail, nwk, security, energy, toldApp, outside>>

DeviceResetEvt == Handles("DEVICE_RESET") /\ Boot /\ UNCHANGED trouble

\* ZDApp_NVUpdate, in the builds that have it.
NVUpdate == IF build.nvRestore THEN {"NWK_UPDATE_NV"} ELSE {}

\* ZDApp_SaveNwkKey: what is saved is one ahead.
SaveNwkKey ==
    /\ nv' = [nv EXCEPT !.counter = nwkFrameCounter + 1]
    /\ nwkFrameCounterChanges' = 0 /\ unnoticed' = 0

\* Mutant: the next change does not save.
RestoreNwkKeyLazily ==
    /\ nwkFrameCounterChanges' = 0
    /\ IF nv.counter > 0
          THEN nwkFrameCounter' = nv.counter + MaxChanges /\ unnoticed' = 0 /\ key' = TRUE
          ELSE UNCHANGED <<nwkFrameCounter, unnoticed, key>>

\* ZDApp_RestoreNwkKey: an NV counter of 0 means there is no key.  The next
\* change of the counter is made to save it.  The key itself is in the same NV item,
\* which is written whole: it is there when its counter is.
RestoreNwkKey ==
    /\ nwkFrameCounterChanges' = MaxChanges + 1
    /\ IF nv.counter > 0
          THEN nwkFrameCounter' = nv.counter + MaxChanges /\ unnoticed' = 0 /\ key' = TRUE
          ELSE UNCHANGED <<nwkFrameCounter, unnoticed, key>>

\* ZDApp_DeviceAuthEvt: the device has been given the key.  A router then
\* starts to route.
DeviceAuthEvt ==
    /\ Handles("DEVICE_AUTH")
    /\ LET rest == events \ {"DEVICE_AUTH"} IN
       IF devState = "END_DEVICE_UNAUTH"
          THEN /\ devState' = "END_DEVICE"
               /\ events' = rest \cup {"STATE_CHANGE"}
               /\ timers' = (timers \ {"DEVICE_RESET"}) \cup NVUpdate
               /\ nwk' = IF logical = "router" THEN nwk \cup {"start"} ELSE nwk
               /\ SaveNwkKey
          ELSE /\ events' = rest /\ timers' = timers \cup NVUpdate
               /\ UNCHANGED <<devState, nwk, nv, nwkFrameCounterChanges, unnoticed>>
    /\ UNCHANGED <<build, logical, devStartMode, network, continueJoining, nwkStatus, mail,
                   key, nwkFrameCounter, energy, toldApp, outside>>

\* ZDO_FRAMECOUNTER_CHANGE: the counter is saved after so many changes.
FrameCounterEvt ==
    /\ Handles("FRAMECOUNTER")
    /\ events' = events \ {"FRAMECOUNTER"}
    /\ IF nwkFrameCounterChanges > MaxChanges
          THEN SaveNwkKey
          ELSE /\ nwkFrameCounterChanges' = nwkFrameCounterChanges + 1
               /\ UNCHANGED <<nv, unnoticed>>
    /\ UNCHANGED <<build, logical, devState, devStartMode, network, continueJoining, nwkStatus,
                   timers, mail, nwk, key, nwkFrameCounter, energy, toldApp, outside>>

-----------------------------------------------------------------------------
(* Messages                                                                *)

\* The task takes the first message; it takes them all before it returns.
Receive(m) ==
    /\ queue /= <<>> /\ Head(queue) = m
    /\ queue' = Tail(queue) /\ busy' = (Tail(queue) /= <<>>)
    /\ UNCHANGED <<build, continueJoining, nwkStatus, dropped, energy, toldApp>>

Ignored ==
    UNCHANGED <<logical, devState, devStartMode, network, events, timers, nwk, security, nv,
                outside>>

\* Mutant: the count starts again.
OneMoreFromStart == 1

\* Mutant: the count does not wrap.
OneMoreWide == zdoDiscCounter + 1

\* One more discovery made.
OneMore == (zdoDiscCounter + 1) % DiscWidth

\* ZDApp_NodeProfileSync: into a network of another stack profile the device
\* goes as an end device.
NodeProfileSync == logical' \in {logical, "device"}

\* ZDO_NWK_DISC_CNF.  Only after NUM_DISC_ATTEMPTS discoveries does the
\* device choose a network, so that it has seen those that are there.
DiscoveryConfirm(m) ==
    /\ Receive(m)
    /\ IF devState /= "NWK_DISC" THEN Ignored
       ELSE IF m = "disc ok" /\ zdoDiscCounter > NumDisc
          THEN IF devStartMode = "JOIN"
             THEN /\ devState' = "NWK_JOINING"
                  /\ NodeProfileSync
                  /\ Request("join", {"NETWORK_INIT"})
                  /\ UNCHANGED <<devStartMode, network, events, security, nv>>
             ELSE /\ devState' = "NWK_REJOIN" /\ known' = TRUE
                  /\ IF build.secure THEN RestoreNwkKey ELSE UNCHANGED security
                  /\ Request("rejoin", {"NETWORK_INIT"})
                  /\ UNCHANGED <<logical, devStartMode, retryCnt, zdoDiscCounter, events, nv>>
       ELSE IF continueJoining
          THEN /\ zdoDiscCounter' = OneMore
               /\ NetworkInit(TRUE)
               /\ UNCHANGED <<logical, devState, devStartMode, retryCnt, known, nwk, security, nv,
                              outside>>
          ELSE Ignored

\* A joined router asks to route.
StartRouter == nwk' = IF logical = "router" THEN nwk \cup {"start"} ELSE nwk

\* Mutant: the wait for the key has no end.
JoinAnsweredPatient ==
    IF nwkStatus
       THEN /\ events' = events \cup {"STATE_CHANGE"}
            /\ IF build.secure THEN RestoreNwkKey ELSE UNCHANGED security
            /\ IF build.secure /\ nv.counter = 0
                  THEN devState' = "END_DEVICE_UNAUTH" /\ UNCHANGED <<nwk, timers>>
                  ELSE devState' = "END_DEVICE" /\ StartRouter /\ UNCHANGED timers
            /\ UNCHANGED <<devStartMode, network>>
       ELSE /\ retryCnt' = IF devStartMode = "RESUME" THEN retryCnt + 1 ELSE retryCnt
            /\ devStartMode' = IF devStartMode = "RESUME" /\ retryCnt + 1 >= MaxResume
                                  THEN IF known THEN "REJOIN" ELSE "JOIN"
                                  ELSE devStartMode
            /\ zdoDiscCounter' = 1
            /\ NetworkInit(TRUE)
            /\ UNCHANGED <<devState, known, nwk, security>>

\* The answer to a join, or to a router's pretended orphan scan.
JoinAnswered ==
    IF nwkStatus
       THEN /\ events' = events \cup {"STATE_CHANGE"}
            /\ IF build.secure THEN RestoreNwkKey ELSE UNCHANGED security
            /\ IF build.secure /\ nv.counter = 0
                  THEN /\ devState' = "END_DEVICE_UNAUTH"
                       /\ timers' = timers \cup {"DEVICE_RESET"}
                       /\ UNCHANGED nwk
                  ELSE devState' = "END_DEVICE" /\ StartRouter /\ UNCHANGED timers
            /\ UNCHANGED <<devStartMode, network>>
       ELSE /\ retryCnt' = IF devStartMode = "RESUME" THEN retryCnt + 1 ELSE retryCnt
            /\ devStartMode' = IF devStartMode = "RESUME" /\ retryCnt + 1 >= MaxResume
                                  THEN IF known THEN "REJOIN" ELSE "JOIN"
                                  ELSE devStartMode
            /\ zdoDiscCounter' = 1
            /\ NetworkInit(TRUE)
            /\ UNCHANGED <<devState, known, nwk, security>>

\* The answer to a rejoin or to an orphan scan.  After MAX_RESUME_RETRY
\* failures a device that resumes goes on resuming, unless it may join anew.
RejoinAnswered ==
    IF nwkStatus
       THEN /\ devState' = "END_DEVICE"
            /\ events' = events \cup {"STATE_CHANGE"}
            /\ IF build.secure THEN RestoreNwkKey ELSE UNCHANGED security
            /\ StartRouter
            /\ UNCHANGED <<devStartMode, network, timers>>
       ELSE /\ retryCnt' = IF devStartMode = "RESUME" THEN retryCnt + 1 ELSE retryCnt
            /\ devStartMode' = IF devStartMode /= "RESUME" THEN devStartMode
                               ELSE IF retryCnt + 1 <= MaxResume
                                  THEN IF known THEN "REJOIN" ELSE "JOIN"
                               ELSE IF build.insecureJoin THEN "JOIN" ELSE "RESUME"
            /\ NetworkInit(TRUE)
            /\ UNCHANGED <<devState, zdoDiscCounter, known, nwk, security>>

\* ZDApp_ProcessNetworkJoin: in any other state the answer is late; the
\* device just announces the address it now has.
ProcessNetworkJoin ==
    /\ Receive("join")
    /\ CASE devState = "NWK_JOINING" \/ (devState = "NWK_ORPHAN" /\ logical = "router") ->
              JoinAnswered
         [] devState = "NWK_REJOIN" \/ (devState = "NWK_ORPHAN" /\ logical /= "router") ->
              RejoinAnswered
         [] OTHER -> /\ events' = events \cup {"STATE_CHANGE"}
                     /\ UNCHANGED <<devState, devStartMode, network, timers, nwk, security>>
    /\ UNCHANGED <<logical, nv, outside>>

\* ZDO_NWK_JOIN_REQ: the parent is lost, resume at once.
ParentLost ==
    /\ Receive("lost")
    /\ retryCnt' = 0 /\ devStartMode' = "RESUME"
    /\ NetworkInit(FALSE)
    /\ UNCHANGED <<logical, devState, zdoDiscCounter, known, nwk, security, nv, outside>>

-----------------------------------------------------------------------------
(* Callbacks of the NWK library                                            *)

Answered(r) == ~busy /\ r \in nwk /\ nwk' = nwk \ {r}

\* An answer is bad only so many times.
Verdict(ok) == ok \/ trouble > 0

\* ZDO_NetworkDiscoveryConfirmCB: a suitable network was found, or not.
NetworkDiscoveryConfirmCB ==
    /\ Answered("disc")
    /\ \/ SendMsg("disc ok")
       \/ /\ Verdict(FALSE) /\ trouble' = trouble - 1
          /\ Len(queue) < MaxQueue /\ queue' = Append(queue, "disc fail")
          /\ UNCHANGED <<busy, dropped, frames>>
    /\ UNCHANGED <<build, logical, devState, devStartMode, network, continueJoining, nwkStatus,
                   events, timers, security, energy, nv, toldApp>>

\* ZDO_NetworkFormationConfirmCB and, for a router, ZDO_StartRouterConfirmCB.
StartConfirmCB(ok) ==
    /\ Verdict(ok) /\ trouble' = IF ok THEN trouble ELSE trouble - 1
    /\ \/ Answered("form") \/ Answered("start")
    /\ nwkStatus' = ok
    /\ events' = events \cup {IF logical = "coordinator" THEN "NETWORK_START"
                                                         ELSE "ROUTER_START"}
    /\ UNCHANGED <<build, logical, devState, devStartMode, network, continueJoining, timers,
                   mail, security, energy, nv, toldApp, frames>>

\* ZDO_JoinConfirmCB.
JoinConfirmCB(ok) ==
    /\ \E r \in {"join", "rejoin", "orphan"} : Answered(r)
    /\ Verdict(ok)
    /\ nwkStatus' = ok
    /\ known' = (known \/ ok)
    /\ timers' = IF ok /\ ~build.secure THEN timers \cup NVUpdate ELSE timers
    /\ IF ok THEN SendMsg("join")
             ELSE /\ Len(queue) < MaxQueue /\ queue' = Append(queue, "join")
                  /\ trouble' = trouble - 1
                  /\ UNCHANGED <<busy, dropped, frames>>
    /\ UNCHANGED <<build, logical, devState, devStartMode, retryCnt, zdoDiscCounter,
                   continueJoining, events, security, energy, nv, toldApp>>

\* ZDO_SyncIndicationCB: an end device cannot reach its parent any more.
SyncIndicationCB ==
    /\ trouble > 0 /\ ~busy /\ Len(queue) < MaxQueue
    /\ logical = "device" /\ devState \in {"END_DEVICE", "END_DEVICE_UNAUTH"}
    /\ trouble' = trouble - 1
    /\ \/ queue' = Append(queue, "lost") /\ UNCHANGED dropped
       \/ dropped' = TRUE /\ UNCHANGED queue
    /\ UNCHANGED <<build, logical, devState, devStartMode, network, continueJoining, nwkStatus,
                   events, timers, busy, nwk, security, energy, nv, toldApp, frames>>

\* The network state is to be saved: ZDO_AddrChangeIndicationCB (with the
\* state change told), and ZDO_JoinIndicationCB for a child.
Changed(told_too) ==
    /\ trouble > 0 /\ ~busy /\ InNetwork /\ trouble' = trouble - 1
    /\ events' = events \cup told_too /\ timers' = timers \cup NVUpdate
    /\ UNCHANGED <<build, logical, devState, devStartMode, network, continueJoining, nwkStatus,
                   mail, nwk, security, energy, nv, toldApp, frames>>

AddrChangeIndicationCB == Changed({"STATE_CHANGE"})
JoinIndicationCB == logical /= "device" /\ Changed({})

\* ZDApp_LeaveReset: what to do is written to NV (ZDApp_LeaveCtrlSet) and the
\* device restarts in a while.
LeaveReset(rejoin) ==
    /\ trouble > 0 /\ ~busy /\ known /\ trouble' = trouble - 1
    /\ nv' = [nv EXCEPT !.leave = IF rejoin THEN "again" ELSE "hold"]
    /\ timers' = timers \cup {"DEVICE_RESET"}
    /\ UNCHANGED <<build, logical, devState, devStartMode, network, continueJoining, nwkStatus,
                   events, mail, nwk, security, energy, toldApp, frames>>

\* ZDO_LeaveCnf: this device has left, as it wished.
LeaveCnf(rejoin) == LeaveReset(rejoin)

\* ZDO_LeaveInd: told to leave, or the parent leaves and takes it along.
LeaveInd(request, fromParent, removeChildren, rejoin) ==
    /\ request \/ (fromParent /\ (removeChildren \/ logical = "device"))
    /\ LeaveReset(rejoin)

\* The trust centre's transport of the network key; ZDSecMgrAuthNwkKey takes
\* notice of it only if the device is waiting for it; the key itself is kept
\* in NV by the security library.
KeyArrives ==
    /\ build.secure /\ Joins /\ ~busy /\ known
    /\ ~key \/ (devState = "END_DEVICE_UNAUTH" /\ "DEVICE_AUTH" \notin events)
    /\ key' = TRUE /\ nv' = [nv EXCEPT !.key = TRUE]
    /\ events' = IF devState = "END_DEVICE_UNAUTH" THEN events \cup {"DEVICE_AUTH"} ELSE events
    /\ UNCHANGED <<build, logical, devState, devStartMode, network, continueJoining, nwkStatus,
                   timers, mail, nwk, nwkFrameCounter, nwkFrameCounterChanges, unnoticed,
                   energy, toldApp, outside>>

\* A secured frame goes out; the event may still be set from the one before.
SendFrame ==
    /\ build.secure /\ key /\ InNetwork /\ ~busy /\ frames > 0
    /\ frames' = frames - 1
    /\ nwkFrameCounter' = nwkFrameCounter + 1
    /\ events' = events \cup {"FRAMECOUNTER"}
    /\ unnoticed' = IF "FRAMECOUNTER" \in events THEN unnoticed + 1 ELSE unnoticed
    /\ UNCHANGED <<build, logical, devState, devStartMode, network, continueJoining, nwkStatus,
                   timers, mail, nwk, key, nwkFrameCounterChanges, energy, nv, toldApp, trouble>>

\* A timer runs out.  That the key does not come before the device resets is
\* a trouble; the other timers just take their time.
Expire(t) ==
    /\ t \in timers /\ ~busy
    /\ timers' = timers \ {t} /\ events' = events \cup {t}
    /\ IF t = "DEVICE_RESET" /\ devState = "END_DEVICE_UNAUTH" /\ nv.leave = "none"
          THEN trouble > 0 /\ trouble' = trouble - 1 /\ UNCHANGED frames
          ELSE UNCHANGED outside
    /\ UNCHANGED <<build, logical, devState, devStartMode, network, continueJoining, nwkStatus,
                   mail, nwk, security, energy, nv, toldApp>>

\* ZDApp_StartJoiningCycle and ZDApp_StopJoiningCycle, for the application.
StartJoiningCycle ==
    /\ ~busy /\ ~continueJoining /\ devState \in {"INIT", "NWK_DISC"}
    /\ continueJoining' = TRUE
    /\ NetworkInit(FALSE)
    /\ UNCHANGED <<build, logical, devState, devStartMode, network, nwkStatus, mail, nwk,
                   security, energy, nv, toldApp, outside>>

StopJoiningCycle ==
    /\ trouble > 0 /\ trouble' = trouble - 1
    /\ ~busy /\ continueJoining /\ devState \in {"INIT", "NWK_DISC"}
    /\ continueJoining' = FALSE
    /\ UNCHANGED <<build, logical, devState, devStartMode, network, nwkStatus, events, timers,
                   mail, nwk, security, energy, nv, toldApp, frames>>

-----------------------------------------------------------------------------
ZdAppInit ==
    /\ build \in Builds /\ logical = build.type
    /\ devState = "INIT" /\ devStartMode = IF Joins THEN "JOIN" ELSE "HARD"
    /\ retryCnt = 0 /\ zdoDiscCounter = 1 /\ known = FALSE
    /\ continueJoining = TRUE /\ nwkStatus = TRUE
    /\ events = {"NETWORK_INIT"} /\ timers = {}
    /\ queue = <<>> /\ busy = FALSE /\ dropped = FALSE
    /\ nwk = {} /\ key = (build.secure /\ ~Joins)
    /\ nwkFrameCounter = 0 /\ nwkFrameCounterChanges = 0 /\ unnoticed = 0
    /\ energy = 0
    /\ nv = [leave |-> "none", fresh |-> FALSE, saved |-> FALSE, key |-> FALSE, counter |-> 0]
    /\ toldApp = "INIT"
    /\ trouble = MaxTrouble /\ frames = MaxDevFrames

Task ==
    \/ ZDO_StartDevice \/ NetworkStartEvt \/ RouterStartEvt \/ UpdateNwkStatus
    \/ SaveNetworkStateEvt \/ DeviceResetEvt \/ DeviceAuthEvt \/ FrameCounterEvt
    \/ \E m \in {"disc ok", "disc fail"} : DiscoveryConfirm(m)
    \/ ProcessNetworkJoin \/ ParentLost

Library ==
    \/ NetworkDiscoveryConfirmCB
    \/ \E ok \in BOOLEAN : StartConfirmCB(ok) \/ JoinConfirmCB(ok)

ZdAppNext ==
    \/ Task \/ Library
    \/ SyncIndicationCB \/ AddrChangeIndicationCB \/ JoinIndicationCB
    \/ \E rejoin \in BOOLEAN : LeaveCnf(rejoin)
    \/ \E request, fromParent, removeChildren, rejoin \in BOOLEAN :
          LeaveInd(request, fromParent, removeChildren, rejoin)
    \/ KeyArrives \/ SendFrame
    \/ \E t \in Bits : Expire(t)
    \/ StartJoiningCycle \/ StopJoiningCycle
    \/ Release \/ PowerFails

ZdAppFairness ==
    /\ WF_zdAppVars(Task) /\ WF_zdAppVars(Library) /\ WF_zdAppVars(KeyArrives)
    /\ \A t \in Bits : WF_zdAppVars(Expire(t))

ZdAppSpec == ZdAppInit /\ [][ZdAppNext]_zdAppVars /\ ZdAppFairness

-----------------------------------------------------------------------------
(* Properties                                                              *)

Restarts == "NETWORK_INIT" \in events \cup timers
Resets == "DEVICE_RESET" \in events \cup timers
Awaits(r, m) == r \in nwk \/ \E i \in 1 .. Len(queue) : queue[i] \in m

\* The coordinator has given up for too much energy on every channel.
Dormant == devState = "INIT" /\ energy = EnergySteps /\ logical = "coordinator"

\* A device that is not in a network is never left with nothing to come: each
\* waiting state of ZDApp.c has the answer, message, event or timer under way
\* that ends it.  Excused: an application that stopped the joining and a
\* coordinator that gave up, both meant, and a message ZDApp_SendMsg had no
\* buffer for, which is not.
NeverStranded ==
    ~ (dropped \/ Dormant) /\ continueJoining =>
        CASE devState \in {"HOLD", "END_DEVICE", "ROUTER", "ZB_COORD"} -> TRUE
          [] devState = "INIT" -> Restarts
          [] devState = "NWK_DISC" -> Restarts \/ Awaits("disc", {"disc ok", "disc fail", "lost"})
          [] devState = "NWK_JOINING" -> Restarts \/ Awaits("join", {"join", "lost"})
          [] devState = "NWK_REJOIN" -> Restarts \/ Awaits("rejoin", {"join", "lost"})
          [] devState = "NWK_ORPHAN" -> Restarts \/ Awaits("orphan", {"join", "lost"})
          [] devState = "COORD_STARTING" -> \/ Restarts \/ nwk \cap {"form", "start"} /= {}
                                            \/ "NETWORK_START" \in events
          [] devState = "END_DEVICE_UNAUTH" -> Resets \/ "DEVICE_AUTH" \in events

\* In a network with security a device without the network key is about to
\* reset: the one that waits for it, and the one that lost its parent while it
\* waited and came back by the orphan scan as if it had been authenticated.
\* Excused is a network state that was saved to NV before the key had come:
\* ZDApp_ProcessNetworkJoin does not look for a key after an orphan scan or a
\* rejoin, so a device restored from it counts as joined.
KeyOrReset ==
    build.secure /\ devState \in {"END_DEVICE", "ROUTER", "END_DEVICE_UNAUTH"} =>
        key \/ Resets \/ (nv.saved /\ ~nv.key)

\* Once a device is in the network and its state change is served, the
\* applications have been told the state it is in.
ToldTheTruth == InNetwork /\ "STATE_CHANGE" \notin events => toldApp = devState

\* The frame counter that would be restored after a restart is not behind the
\* counter in use, but for the changes whose event coalesced with the event
\* before: each such change is one the 1000 to spare do not count.
CounterAhead ==
    nv.counter > 0 /\ key =>
        nwkFrameCounter <= nv.counter + MaxChanges + unnoticed
                           + (IF "FRAMECOUNTER" \in events THEN 1 ELSE 0)

\* The device application: typed, never waiting for nothing, never without the
\* key unnoticed, its applications told, its frame counter ahead.
JoinerSound == ZdAppTypeOK /\ NeverStranded /\ KeyOrReset /\ ToldTheTruth /\ CounterAhead

\* With the troubles over, a device gets into its network, however often its
\* parent was lost, answers were bad, or it was reset on the way.
Arrived == InNetwork \/ devState = "HOLD" \/ ~continueJoining \/ dropped \/ Dormant
InNetworkInTheEnd == []<>Arrived
=============================================================================
