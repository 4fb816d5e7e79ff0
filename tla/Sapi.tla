-------------------------------- MODULE Sapi --------------------------------
(***************************************************************************)
(* The simple interface to the stack (Components/stack/sapi/sapi.c): an    *)
(* application, or a host through the monitor task, asks to start, to      *)
(* bind, to be found for binding, to send, and to find a device, and is    *)
(* told later by callbacks.  The calls run at once; the answers come as    *)
(* messages and timer events of SAPI's task.  Tasks before SAPI's (the     *)
(* monitor, ZDO, AF) may run between any two of its events.                *)
(*                                                                         *)
(* A request to bind without a destination asks all devices which of them  *)
(* has the command's cluster; the first that answers is bound.  Answers    *)
(* carry no name of the request they answer.                               *)
(***************************************************************************)
EXTENDS Integers, Sequences, FiniteSets

CONSTANTS
    Commands,       \* identifiers of bindings
    Offers,         \* [Commands -> sets of devices with the cluster]
    Room,           \* entries of the binding table
    MaxSapiCalls,   \* bound: calls of the application
    MaxRequests,    \* bound: requests to bind among them
    MaxNoMemory     \* bound: allocations refused

NoBind == "none"      \* the command 0xffff: no request is under way
Stray == "stray"    \* whatever is read where there is no answer
Partners == UNION {Offers[c] : c \in Commands}

VARIABLES
    sapiEvents, queue,      \* SAPI's: events set, messages
    receiving,              \* inside of SAPI_ProcessEvent's loop over the messages
    timers,                 \* ZB_ALLOW_BIND_TIMER and ZB_BIND_TIMER, if running
    sapi_bindInProgress,
    bindings,               \* the binding table
    match,                  \* afSetMatch: the device answers who looks for it
    nvTimer,                \* ZDO_NWK_UPDATE_NV runs
    saved,                  \* the table in the non-volatile memory
    air,                    \* answers on their way
    sending,                \* handles given to AF
    sapiCalls, requests, noMemory,
    owed,                   \* history: requests and handles not yet answered
    lost,                   \* history: those whose answer there was no memory for
    extra,                  \* history: an answer to nothing that was asked
    stale,                  \* history: a timer's event outlived its request
    parsed                  \* history: what was parsed and is not freed

request == <<sapi_bindInProgress, bindings, nvTimer>>
sapiHistory == <<owed, lost, extra, stale, parsed>>
budget  == <<sapiCalls, requests, noMemory>>
sapiVars == <<sapiEvents, queue, receiving, timers, request, match, saved, air, sending, budget, sapiHistory>>

Handle == "handle"
SapiStart == "start"

ASSUME CommandsAssumption == {NoBind, Handle, SapiStart} \cap Commands = {}

\* SAPI_Init; the device is found by nobody.
SapiInit ==
    /\ sapiEvents = {"ENTRY"} /\ queue = <<>> /\ receiving = FALSE /\ timers = {}
    /\ sapi_bindInProgress = NoBind /\ bindings = {} /\ saved = {} /\ nvTimer = FALSE
    /\ match = FALSE /\ air = {} /\ sending = 0
    /\ sapiCalls = 0 /\ requests = 0 /\ noMemory = 0
    /\ owed = [c \in Commands \cup {Handle, SapiStart} |-> 0] /\ lost = owed
    /\ extra = FALSE /\ stale = FALSE /\ parsed = 0

-----------------------------------------------------------------------------
(* Answers by message.                                                     *)

\* A message to SAPI's task, if there is memory for it.
SAPI_SendCback(m, set) ==
    \/ /\ queue' = Append(queue, m) /\ sapiEvents' = set \cup {"SYS"}
       /\ UNCHANGED <<lost, noMemory>>
    \/ /\ noMemory < MaxNoMemory /\ noMemory' = noMemory + 1
       /\ lost' = [lost EXCEPT ![m.about] = @ + 1]
       /\ sapiEvents' = set /\ UNCHANGED queue

Cnf(kind, about, status) == [kind |-> kind, about |-> about, status |-> status, from |-> Stray]

SapiCall == sapiCalls < MaxSapiCalls /\ sapiCalls' = sapiCalls + 1
Asked(about) == owed' = [owed EXCEPT ![about] = @ + 1]
Quietly == UNCHANGED <<queue, sapiEvents, lost, noMemory>>

-----------------------------------------------------------------------------
(* zb_BindDevice.                                                          *)

\* APSME_BindRequest.
Bindable(c, dev) == Cardinality(bindings) < Room \/ <<c, dev>> \in bindings

\* Mutant: the table is saved only if the timer runs already.
UpdateNot == UNCHANGED nvTimer

Update == nvTimer' = TRUE

\* With the address of the device.
BindKnown(c, dev) ==
    /\ requests < MaxRequests /\ requests' = requests + 1
    /\ SapiCall /\ Asked(c)
    /\ IF sapi_bindInProgress = NoBind /\ Bindable(c, dev)
       THEN /\ bindings' = bindings \cup {<<c, dev>>} /\ Update
            /\ SAPI_SendCback(Cnf("BIND", c, "success"), sapiEvents)
       ELSE /\ UNCHANGED <<bindings, nvTimer>>
            /\ SAPI_SendCback(Cnf("BIND", c, "refused"), sapiEvents)
    /\ UNCHANGED <<receiving, timers, sapi_bindInProgress, match, saved, air, sending, extra, stale, parsed>>

\* All devices are asked; refused when the command is in neither list of the
\* endpoint or the request does not go out.
BindAny(c) ==
    /\ requests < MaxRequests /\ requests' = requests + 1
    /\ SapiCall /\ Asked(c)
    /\ \/ /\ sapi_bindInProgress = NoBind
          /\ timers' = timers \cup {"BIND"}
          /\ sapi_bindInProgress' = c
          /\ air' = air \cup {<<c, dev>> : dev \in Offers[c]}
          /\ Quietly
       \/ /\ SAPI_SendCback(Cnf("BIND", c, "refused"), sapiEvents)
          /\ UNCHANGED <<receiving, timers, sapi_bindInProgress, air>>
    /\ UNCHANGED <<receiving, bindings, nvTimer, match, saved, sending, extra, stale, parsed>>

Unbind(c) ==
    /\ SapiCall
    /\ bindings' = {b \in bindings : b[1] # c}
    /\ Update
    /\ Quietly
    /\ UNCHANGED <<receiving, timers, sapi_bindInProgress, match, saved, air, sending, requests, owed, extra, stale, parsed>>

\* zb_AllowBind: for no time, for up to 64 seconds, for ever.
zb_AllowBind(timeout) ==
    /\ SapiCall
    /\ match' = (timeout # "no")
    /\ timers' = (timers \ {"ALLOW"}) \cup (IF timeout = "seconds" THEN {"ALLOW"} ELSE {})
    /\ Quietly
    /\ UNCHANGED <<receiving, request, saved, air, sending, requests, owed, extra, stale, parsed>>

\* zb_SendDataRequest: AF takes it and confirms it, or does not take it.
zb_SendDataRequest ==
    /\ SapiCall /\ Asked(Handle)
    /\ \/ sending' = sending + 1 /\ Quietly
       \/ SAPI_SendCback(Cnf("DATA", Handle, "refused"), sapiEvents) /\ UNCHANGED sending
    /\ UNCHANGED <<receiving, timers, request, match, saved, air, requests, extra, stale, parsed>>

\* zb_StartRequest: with a type the build has not, it is confirmed at once;
\* else ZDOInitDevice, and the changes of ZDO's state tell the outcome.
zb_StartRequest(set) ==
    \/ SAPI_SendCback(Cnf("START", SapiStart, "invalid"), set) /\ Asked(SapiStart)
    \/ sapiEvents' = set /\ UNCHANGED <<queue, owed, lost, noMemory>>
StartCall ==
    /\ SapiCall /\ zb_StartRequest(sapiEvents)
    /\ UNCHANGED <<receiving, timers, request, match, saved, air, sending, requests, extra, stale, parsed>>

\* zb_FindDeviceRequest.
zb_FindDeviceRequest ==
    /\ SapiCall
    /\ air' = air \cup {<<"address", dev>> : dev \in Partners}
    /\ Quietly
    /\ UNCHANGED <<receiving, timers, request, match, saved, sending, requests, owed, extra, stale, parsed>>

-----------------------------------------------------------------------------
(* The other tasks.                                                        *)

Post(m) == queue' = Append(queue, m) /\ sapiEvents' = sapiEvents \cup {"SYS"} /\ UNCHANGED <<receiving, lost, noMemory>>

\* ZDO hears an answer and hands it to those registered for it.
Answer ==
    /\ ~receiving
    /\ \E a \in air :
         /\ air' = air \ {a}
         /\ Post([kind |-> IF a[1] = "address" THEN "NWK_addr_rsp" ELSE "Match_Desc_rsp",
                  about |-> a[1], status |-> "success", from |-> a[2]])
    /\ UNCHANGED <<receiving, timers, request, match, saved, sending, sapiCalls, requests, owed, extra, stale, parsed>>

LostAnswer ==
    /\ ~receiving
    /\ \E a \in air : air' = air \ {a}
    /\ Quietly
    /\ UNCHANGED <<receiving, timers, request, match, saved, sending, sapiCalls, requests, owed, extra, stale, parsed>>

\* AF_DATA_CONFIRM_CMD.
DataConfirm ==
    /\ ~receiving /\ sending > 0 /\ sending' = sending - 1
    /\ Post(Cnf("DATA", Handle, "sent"))
    /\ UNCHANGED <<receiving, timers, request, match, saved, air, sapiCalls, requests, owed, extra, stale, parsed>>

Expire ==
    /\ ~receiving
    /\ \E t \in timers : timers' = timers \ {t} /\ sapiEvents' = sapiEvents \cup {t}
    /\ UNCHANGED <<receiving, queue, request, match, saved, air, sending, budget, sapiHistory>>

\* ZDApp's ZDO_NWK_UPDATE_NV.
UpdateNv ==
    /\ ~receiving /\ nvTimer /\ nvTimer' = FALSE
    /\ saved' = bindings
    /\ UNCHANGED <<receiving, sapiEvents, queue, timers, sapi_bindInProgress, bindings, match, air, sending, budget, sapiHistory>>

-----------------------------------------------------------------------------
(* SAPI_ProcessEvent: one event of those set, the messages first and all   *)
(* of them; only the application's callbacks run between two.              *)

Tell(about) ==
    /\ owed' = IF about # NoBind /\ owed[about] > 0 THEN [owed EXCEPT ![about] = @ - 1] ELSE owed
    /\ extra' = (extra \/ about = NoBind \/ (about # NoBind /\ owed[about] = 0))

\* SAPI_ProcessZDOMsgs, Match_Desc_rsp: without memory for what is parsed,
\* the answer is read from address 0.
Matched(m) ==
    \E dev \in {m.from} \cup (IF noMemory < MaxNoMemory THEN {Stray} ELSE {}) :
      /\ noMemory' = IF dev = Stray THEN noMemory + 1 ELSE noMemory
      /\ parsed' = IF dev = Stray THEN parsed ELSE parsed + 1
      /\ IF sapi_bindInProgress # NoBind /\ Bindable(sapi_bindInProgress, dev)
         THEN /\ bindings' = bindings \cup {<<sapi_bindInProgress, dev>>}
              /\ timers' = timers \ {"BIND"}
              /\ Update
              /\ stale' = (stale \/ "BIND" \in sapiEvents)
              /\ Tell(sapi_bindInProgress)
              /\ sapi_bindInProgress' = NoBind
         ELSE UNCHANGED <<request, timers, stale, owed, extra>>

SAPI_ProcessZDOMsgs(m) ==
    /\ \/ m.kind = "Match_Desc_rsp" /\ Matched(m)
       \/ /\ m.kind = "NWK_addr_rsp" /\ parsed' = parsed + 1
          /\ UNCHANGED <<timers, request, noMemory, owed, extra, stale>>
    /\ UNCHANGED lost

Receive ==
    /\ ~receiving /\ "SYS" \in sapiEvents
    /\ receiving' = TRUE /\ sapiEvents' = sapiEvents \ {"SYS"}
    /\ UNCHANGED <<queue, timers, request, match, saved, air, sending, budget, sapiHistory>>

Message ==
    /\ receiving /\ queue # <<>>
    /\ queue' = Tail(queue)
    /\ \/ SAPI_ProcessZDOMsgs(Head(queue))
       \/ /\ Head(queue).kind \in {"BIND", "DATA", "START"}
          /\ Tell(Head(queue).about)
          /\ UNCHANGED <<timers, request, noMemory, lost, stale, parsed>>
    /\ UNCHANGED <<sapiEvents, receiving, match, saved, air, sending, sapiCalls, requests>>

NoMessage ==
    /\ receiving /\ queue = <<>> /\ receiving' = FALSE
    /\ UNCHANGED <<sapiEvents, queue, timers, request, match, saved, air, sending, budget, sapiHistory>>

Serves(event, before) == ~receiving /\ event \in sapiEvents /\ sapiEvents \cap before = {}

\* ZB_ALLOW_BIND_TIMER.
AllowEnds ==
    /\ Serves("ALLOW", {"SYS"})
    /\ sapiEvents' = sapiEvents \ {"ALLOW"}
    /\ match' = FALSE
    /\ UNCHANGED <<queue, receiving, timers, request, saved, air, sending, budget, sapiHistory>>

\* Mutant: the request stays under way.
AfterTimeoutStays == sapi_bindInProgress

AfterTimeout == NoBind

\* ZB_BIND_TIMER: the request has not been answered.
BindTimesOut ==
    /\ Serves("BIND", {"SYS", "ALLOW"})
    /\ sapiEvents' = sapiEvents \ {"BIND"}
    /\ Tell(sapi_bindInProgress)
    /\ sapi_bindInProgress' = AfterTimeout
    /\ UNCHANGED <<queue, receiving, timers, bindings, nvTimer, match, saved, air, sending, budget, lost, stale, parsed>>

\* ZB_ENTRY_EVENT: starts the device if the options say so.
Entry ==
    /\ Serves("ENTRY", {"SYS", "ALLOW", "BIND"})
    /\ \/ zb_StartRequest(sapiEvents \ {"ENTRY"})
       \/ /\ sapiEvents' = sapiEvents \ {"ENTRY"}
          /\ UNCHANGED <<queue, owed, lost, noMemory>>
    /\ UNCHANGED <<receiving, timers, request, match, saved, air, sending, sapiCalls, requests, extra, stale, parsed>>

SAPI_ProcessEvent == Receive \/ Message \/ NoMessage \/ AllowEnds \/ BindTimesOut \/ Entry
App ==
    \/ \E c \in Commands : BindAny(c) \/ Unbind(c) \/ (\E dev \in Partners : BindKnown(c, dev))
    \/ \E t \in {"no", "seconds", "ever"} : zb_AllowBind(t)
    \/ zb_SendDataRequest \/ StartCall \/ zb_FindDeviceRequest
OtherTasks == Answer \/ LostAnswer \/ DataConfirm \/ Expire \/ UpdateNv
SapiNext == App \/ OtherTasks \/ SAPI_ProcessEvent
SapiSpec == SapiInit /\ [][SapiNext]_sapiVars

-----------------------------------------------------------------------------
(* Properties.                                                             *)

Queued(about) == Cardinality({i \in DOMAIN queue : queue[i].kind \in {"BIND", "DATA", "START"} /\ queue[i].about = about})

\* Each request to bind, each handle and each refused start is answered once:
\* what is owed is under way, or its answer waits, or there was no memory for
\* it.  The one answer too many is that of a timer whose event was set when
\* the request it timed was answered (`stale`).
AnsweredOnce ==
    /\ \A c \in Commands : owed[c] = lost[c] + Queued(c) + (IF sapi_bindInProgress = c THEN 1 ELSE 0)
    /\ owed[Handle] = lost[Handle] + Queued(Handle) + sending
    /\ owed[SapiStart] = lost[SapiStart] + Queued(SapiStart)
    /\ sapi_bindInProgress # NoBind => "BIND" \in timers \cup sapiEvents
    /\ extra => stale

\* A change of the binding table is saved: the timer of ZDApp runs until the
\* table in the memory is the one of the application.
TableSaved == saved # bindings => nvTimer

\* SAPI: each request answered once, and the binding table saved.
SapiSound == AnsweredOnce /\ TableSaved

\* "it must be freed by the calling function [osal_mem_free()]" (ZDObject.c,
\* ZDO_ParseAddrRsp): when SAPI's task rests nothing parsed is held.
ParsedFreed == ~receiving => parsed = 0
=============================================================================
