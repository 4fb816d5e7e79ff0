---------------------------- MODULE ZdBindMatch ----------------------------
(***************************************************************************)
(* End device binding at the coordinator (ZDObject.c), with the list of    *)
(* the tasks that asked for ZDO messages (ZDProfile.c) it is reached       *)
(* through.  Two devices whose buttons are pressed send their cluster      *)
(* lists; each cluster that goes out of one and into the other is unbound  *)
(* if it was bound and bound if it was not, one request to a device after  *)
(* the other, and both are told how it ended.                              *)
(*                                                                         *)
(* The radio may lose a message; one that is not lost arrives before the   *)
(* seconds of apscMaxBindingTime are over.  osal_mem_alloc may fail.       *)
(***************************************************************************)
EXTENDS Integers, Sequences, SequencesExt, FiniteSets

CONSTANTS Devices, Pressed,     \* the devices; what a press may send: [in, out], lists of clusters
          Hosted,               \* the ZDO messages the host may ask for
          TableMax,             \* gNWK_MAX_BINDING_ENTRIES of a device
          BindTables,           \* the binding tables to begin with
          MaxPresses,           \* bound: presses, each sent when the one before it has arrived
          MaxTroubles           \* bound: messages lost, allocations that fail, changes the host
                                \* makes and the coordinator's own requests, together

VARIABLES registered,   \* zdoMsgCBs: <<task, cluster>>
          queue,        \* the ZDO_CB_MSGs of the ZDO's task
          air,          \* messages on their way
          transID,      \* ZDP_TransID
          matchED,      \* or NoMatch
          timer,        \* the end device bind timeout runs
          bound,        \* the devices' binding tables: <<device, cluster, where to>>
          presses,      \* of each press, what was sent and the answers to it
          base,         \* history: the tables when the requests began, and whether a third press
                        \* came after that
          dropped,      \* history: presses that were lost, only the host heard of, or that gave
                        \* their place in matchED to a later one
          memory,       \* history: a block was freed twice; somebody was told through a
                        \* NULL pointer
          troubles

Histories == <<base, dropped>>
bindVars == <<registered, queue, air, transID, matchED, timer, bound, presses, Histories, memory, troubles>>

NoMatch == [state |-> "NULL"]
NoBase == [bound |-> {}, third |-> FALSE]
Elsewhere == "elsewhere"
ZDO == "ZDApp"
BindRequests == {"End_Device_Bind_req"}
Responses == {"Bind_rsp", "Unbind_rsp"}
Empty == [press |-> 0, in |-> <<>>, out |-> <<>>, pIn |-> "NULL", pOut |-> "NULL"]

BindInit ==
  /\ registered = {<<ZDO, c>> : c \in BindRequests \cup Responses}
  /\ queue = <<>> /\ air = {} /\ transID = 0 /\ matchED = NoMatch /\ timer = FALSE
  /\ bound \in BindTables
  /\ presses = <<>> /\ base = NoBase /\ dropped = {}
  /\ memory = [stray |-> FALSE, twice |-> FALSE] /\ troubles = 0

Troubled(n) == troubles + n <= MaxTroubles /\ troubles' = troubles + n

Device(press) == presses[press].dev

----------------------------------------------------------------------------
(* The tasks that hear of ZDO messages.                                    *)

ZDO_RegisterForZDOMsg(task, cluster) == registered' = registered \cup {<<task, cluster>>}
ZDO_RemoveRegisteredCB(task, cluster) == registered' = registered \ {<<task, cluster>>}

\* The host asks for the messages too, or no longer.
HostRegisters ==
  /\ \E c \in Hosted :
       IF <<"MT", c>> \in registered THEN ZDO_RemoveRegisteredCB("MT", c)
       ELSE ZDO_RegisterForZDOMsg("MT", c)
  /\ Troubled(1)
  /\ UNCHANGED <<queue, air, transID, matchED, timer, bound, presses, Histories, memory>>

Answered(ps, press, status) == [ps EXCEPT ![press].answers = Append(@, status)]

(* ZDP_IncomingData with ZDO_SendMsgCBs: a copy for each task, as far as   *)
(* there is memory; a request nobody got a copy of is refused.             *)
ZDO_SendMsgCBs(m) ==
  LET tasks == {t \in {ZDO, "MT"} : <<t, m.kind>> \in registered}
  IN \E without \in SUBSET tasks :
       /\ Troubled(Cardinality(without))
       /\ queue' = IF ZDO \in tasks \ without THEN Append(queue, m) ELSE queue
       /\ presses' = IF tasks \ without = {} /\ m.kind \in BindRequests
                     THEN Answered(presses, m.press, "NOT_SUPPORTED") ELSE presses
       /\ dropped' = IF ZDO \in without /\ tasks # without /\ m.kind \in BindRequests
                     THEN dropped \cup {m.press} ELSE dropped
       /\ air' = air \ {m}
       /\ UNCHANGED <<registered, transID, matchED, timer, bound, base, memory>>

----------------------------------------------------------------------------
(* Pairing.                                                                *)

(* ZDO_CopyMatchInfo, with the allocations that succeed: after a failure   *)
(* what was allocated is freed, and still pointed at.                      *)
CopyMatchInfo(press, ok) ==
  LET p == presses[press].lists
      all == (p.in = <<>> \/ "in" \in ok) /\ (p.out = <<>> \/ "out" \in ok)
      Pointer(list, which) == IF list = <<>> \/ which \notin ok THEN "NULL"
                              ELSE IF all THEN "held" ELSE "freed"
  IN [ed |-> [press |-> press, in |-> p.in, out |-> p.out,
              pIn |-> Pointer(p.in, "in"), pOut |-> Pointer(p.out, "out")],
      ok |-> all]

\* ZDO_CompareClusterLists: for each of the first list, the places it has in the second.
CompareClusterLists(list1, list2) ==
  FlattenSeq([x \in 1..Len(list1) |-> SelectSeq(list2, LAMBDA z : z = list1[x])])

PointersOf(m) == <<m.p1, m.p2, m.ed1.pIn, m.ed1.pOut, m.ed2.pIn, m.ed2.pOut>>
(* ZDO_RemoveMatchMemory. *)
RemoveMatchMemory(m) ==
  /\ matchED' = NoMatch
  /\ memory' = [memory EXCEPT !.twice = @ \/ \E i \in 1..6 : PointersOf(m)[i] = "freed"]

Held(p) == IF p = "held" THEN 1 ELSE 0

(* What ZDMatchSendState does next with the pair m: it asks a device, or   *)
(* tells the ones that wait and is done.  sent is false if AF refuses.     *)
Goes(m, rspStatus, sent) ==
  LET first == m.n1 > 0
      ed == IF first THEN m.ed1 ELSE m.ed2
      other == IF first THEN m.ed2 ELSE m.ed1
  IN IF rspStatus = "SUCCESS" /\ (first \/ m.n2 > 0)
     THEN /\ matchED' = [m EXCEPT !.transSeq = transID]
          /\ timer' = TRUE
          /\ UNCHANGED <<presses, memory>>
          /\ IF sent
             THEN /\ air' = air \cup {[kind |-> IF m.sending = "UNBIND" THEN "Unbind_req" ELSE "Bind_req",
                                       to |-> Device(ed.press), seq |-> transID,
                                       cluster |-> IF first THEN m.list1[m.n1] ELSE m.list2[m.n2],
                                       dst |-> Device(other.press)]}
                  /\ transID' = (transID + 1) % 256
             ELSE UNCHANGED <<air, transID>>
     ELSE /\ presses' = IF m.state = "SENDING_BINDS"
                        THEN Answered(Answered(presses, m.ed1.press, rspStatus), m.ed2.press, rspStatus)
                        ELSE Answered(presses, m.ed1.press, rspStatus)
          /\ RemoveMatchMemory(m)
          /\ timer' = FALSE
          /\ UNCHANGED <<air, transID>>

\* Mutant: the next binding's turn comes even if this one was not there to be removed.
DealtWithAlways(m) ==
  IF m.n1 > 0 THEN [m EXCEPT !.n1 = @ - 1]
  ELSE IF m.n2 > 0 THEN [m EXCEPT !.n2 = @ - 1] ELSE m

(* A request was answered: the binding it was about is dealt with, unless  *)
(* it was not there to be removed.  After a time-out nothing goes on.      *)
DealtWith(m) ==
  IF m.sending # "UNBIND" THEN m
  ELSE IF m.n1 > 0 THEN [m EXCEPT !.n1 = @ - 1]
  ELSE IF m.n2 > 0 THEN [m EXCEPT !.n2 = @ - 1] ELSE m

ZDMatchSendState(reason, status, seq, sent) ==
  IF matchED = NoMatch \/ (reason # "TIMEOUT" /\ seq # matchED.transSeq)
  THEN UNCHANGED <<matchED, air, transID, timer, presses, memory>>
  ELSE LET sending == CASE reason = "BIND_RSP" -> "UNBIND"
                        [] reason = "UNBIND_RSP" -> IF status = "SUCCESS" THEN "UNBIND" ELSE "BIND"
                        [] reason = "TIMEOUT" -> matchED.sending
           rspStatus == CASE reason = "BIND_RSP" -> status
                          [] reason = "UNBIND_RSP" -> "SUCCESS"
                          [] reason = "TIMEOUT" -> "TIMEOUT"
       IN Goes(DealtWith([matchED EXCEPT !.sending = sending]), rspStatus, sent)

(* The first request is kept.  Without memory it is refused; the state of  *)
(* matchED is read all the same, and what is found through the NULL        *)
(* pointer may have somebody else told.                                    *)
FirstRequest(press, whole, copy) ==
  LET m == [state |-> "WAIT_REQ", ed1 |-> copy.ed, ed2 |-> Empty, sending |-> "NOT",
            transSeq |-> 0, n1 |-> 0, n2 |-> 0, list1 |-> <<>>, list2 |-> <<>>,
            p1 |-> "NULL", p2 |-> "NULL"]
  IN /\ UNCHANGED <<air, transID, dropped, base>>
     /\ IF whole /\ copy.ok
        THEN matchED' = m /\ timer' = TRUE /\ UNCHANGED <<presses, memory>>
        ELSE /\ presses' = Answered(presses, press, "NO_ENTRY")
             /\ UNCHANGED timer
             /\ IF whole THEN RemoveMatchMemory(m)
                ELSE /\ UNCHANGED matchED
                     /\ \E garbage \in BOOLEAN : memory' = [memory EXCEPT !.stray = @ \/ garbage]

(* A further request takes the second place, whoever has it.  No memory    *)
(* for a list of matches is told as no match.                              *)
SecondRequest(press, copy, ok, sent) ==
  LET list1 == CompareClusterLists(matchED.ed1.out, copy.ed.in)
      list2 == CompareClusterLists(copy.ed.out, matchED.ed1.in)
      Place(list, which, old) == IF list = <<>> THEN old ELSE IF which \in ok THEN "held" ELSE "NULL"
      m == [matchED EXCEPT !.state = "SENDING_BINDS", !.ed2 = copy.ed,
              !.n1 = Len(list1), !.n2 = Len(list2), !.list1 = list1, !.list2 = list2,
              !.p1 = Place(list1, "1", @), !.p2 = Place(list2, "2", @)]
      fine == copy.ok /\ (list1 = <<>> \/ "1" \in ok) /\ (list2 = <<>> \/ "2" \in ok)
  IN /\ dropped' = dropped \cup ({matchED.ed2.press} \ {0})
     /\ IF fine /\ list1 \o list2 # <<>>
        THEN Goes([m EXCEPT !.sending = "UNBIND"], "SUCCESS", sent) /\ base' = [bound |-> bound, third |-> matchED.state = "SENDING_BINDS"]
        ELSE /\ presses' = Answered(Answered(presses, press, "NO_MATCH"), m.ed1.press, "NO_MATCH")
             /\ RemoveMatchMemory(m)
             /\ UNCHANGED <<air, transID, timer, base>>

(* ZDO_MatchEndDeviceBind, with the allocations that fail.                 *)
ZDO_MatchEndDeviceBind(press, fails, sent) ==
  LET copy == CopyMatchInfo(press, {"in", "out"} \ fails)
  IN IF matchED = NoMatch THEN FirstRequest(press, "whole" \notin fails, copy)
     ELSE SecondRequest(press, copy, {"1", "2"} \ fails, sent)

Reason(kind) == IF kind = "Bind_rsp" THEN "BIND_RSP" ELSE "UNBIND_RSP"

(* The ZDO's task takes its next message.                                  *)
ZDApp_ProcessMsgCBs ==
  /\ queue # <<>>
  /\ queue' = Tail(queue)
  /\ LET m == Head(queue)
     IN \E sent \in BOOLEAN, fails \in SUBSET {"whole", "in", "out", "1", "2"} :
          /\ Troubled(Cardinality(fails) + IF sent THEN 0 ELSE 1)
          /\ m.kind \in Responses => fails = {}
          /\ IF m.kind \in Responses
             THEN ZDMatchSendState(Reason(m.kind), m.status, m.seq, sent) /\ UNCHANGED Histories
             ELSE ZDO_MatchEndDeviceBind(m.press, fails, sent)
  /\ UNCHANGED <<registered, bound>>

\* Mutant: the time-out gives up the pair and tells nobody.
TimeoutUntold ==
  /\ timer /\ air = {} /\ queue = <<>>
  /\ timer' = FALSE /\ matchED' = NoMatch
  /\ UNCHANGED <<registered, queue, air, transID, bound, presses, Histories, memory, troubles>>

(* ZDO_EndDeviceBindMatchTimeoutCB, from the timer in APS.                 *)
ZDO_EndDeviceBindMatchTimeoutCB ==
  /\ timer /\ air = {} /\ queue = <<>>
  /\ IF matchED = NoMatch
     THEN timer' = FALSE /\ UNCHANGED <<matchED, air, transID, presses, memory>>
     ELSE ZDMatchSendState("TIMEOUT", "TIMEOUT", 0, TRUE)
  /\ UNCHANGED <<registered, queue, bound, Histories, troubles>>

----------------------------------------------------------------------------
(* The devices, and the rest of the coordinator.                           *)

\* ZDP_EndDeviceBindReq at a device whose button is pressed.
Press(d, p) ==
  /\ Len(presses) < MaxPresses /\ ~\E m \in air : m.kind \in BindRequests
  /\ presses' = Append(presses, [dev |-> d, lists |-> p, answers |-> <<>>])
  /\ air' = air \cup {[kind |-> "End_Device_Bind_req", to |-> ZDO, press |-> Len(presses) + 1]}
  /\ UNCHANGED <<registered, queue, transID, matchED, timer, bound, Histories, memory, troubles>>

\* The application at the coordinator binds a device to another address on its own.
OwnRequest(d, c) ==
  /\ Troubled(1)
  /\ air' = air \cup {[kind |-> "Bind_req", to |-> d, seq |-> transID, cluster |-> c, dst |-> Elsewhere]}
  /\ transID' = (transID + 1) % 256
  /\ UNCHANGED <<registered, queue, matchED, timer, bound, presses, Histories, memory>>

(* ProcessBindUnbindReq at a device.                                   *)
ProcessBindUnbindReq(m) ==
  LET entry == <<m.to, m.cluster, m.dst>>
      full == Cardinality({b \in bound : b[1] = m.to}) >= TableMax
      status == IF m.kind = "Bind_req" THEN IF full THEN "TABLE_FULL" ELSE "SUCCESS"
                ELSE IF entry \in bound THEN "SUCCESS" ELSE "NO_ENTRY"
  IN /\ bound' = IF status # "SUCCESS" THEN bound
                 ELSE IF m.kind = "Bind_req" THEN bound \cup {entry} ELSE bound \ {entry}
     /\ air' = (air \ {m}) \cup
          {[kind |-> IF m.kind = "Bind_req" THEN "Bind_rsp" ELSE "Unbind_rsp", to |-> ZDO,
            seq |-> m.seq, status |-> status]}
     /\ UNCHANGED <<registered, queue, transID, matchED, timer, presses, Histories, memory, troubles>>

Lose(m) ==
  /\ Troubled(1)
  /\ air' = air \ {m}
  /\ dropped' = IF m.kind \in BindRequests THEN dropped \cup {m.press} ELSE dropped
  /\ UNCHANGED <<registered, queue, transID, matchED, timer, bound, presses, base, memory>>

BindNext ==
  \/ HostRegisters \/ ZDApp_ProcessMsgCBs \/ ZDO_EndDeviceBindMatchTimeoutCB
  \/ \E d \in Devices, p \in Pressed : Press(d, p)
  \/ \E d \in Devices, p \in Pressed : p.out # <<>> /\ OwnRequest(d, p.out[1])
  \/ \E m \in air : \/ m.to = ZDO /\ ZDO_SendMsgCBs(m)
                    \/ m.to # ZDO /\ ProcessBindUnbindReq(m)
                    \/ Lose(m)

BindSpec == BindInit /\ [][BindNext]_bindVars

----------------------------------------------------------------------------
(* Properties.                                                             *)

\* The bindings the pair m is about, each as often as it is in a list of matches.
Pairs(m) ==
  [i \in 1..Len(m.list1) |-> <<Device(m.ed1.press), m.list1[i], Device(m.ed2.press)>>]
  \o [i \in 1..Len(m.list2) |-> <<Device(m.ed2.press), m.list2[i], Device(m.ed1.press)>>]

(* Two devices are told of success only after each binding between them    *)
(* was changed to what it was not: a binding that is in both lists, that   *)
(* of a device with itself, twice.  Only a response to a request of the    *)
(* coordinator's own whose number is 0 ends the wait for the second device *)
(* with success (ZDMatchSendState on a matchED whose transSeq is unset),   *)
(* and after a third press the requests of the pair before may still be    *)
(* on their way.                                                           *)
SuccessToggles ==
  [][LET m == matchED
     IN (m # NoMatch /\ matchED' = NoMatch /\ Last(presses'[m.ed1.press].answers) = "SUCCESS")
        => \/ m.state = "WAIT_REQ" /\ m.transSeq = 0
           \/ base.third
           \/ \A b \in Devices \X (UNION {ToSet(p.out) : p \in Pressed}) \X Devices :
                LET times == Len(SelectSeq(Pairs(m), LAMBDA x : x = b))
                IN (b \in bound') <=> IF times % 2 = 0 THEN b \in base.bound ELSE b \notin base.bound]_bindVars

(* A press that has arrived is answered once: until then it has a place in *)
(* matchED and the timer runs.  The exceptions are the press that loses    *)
(* its place to a third one, the request that is lost, and the one there   *)
(* is no memory for while the host hears of it.  While memory lasts, no    *)
(* block is freed twice and nobody is told through a NULL pointer.         *)
Unanswered == {p \in DOMAIN presses : presses[p].answers = <<>>}
PressesAnswered ==
  /\ \A p \in DOMAIN presses : Len(presses[p].answers) <= 1
  /\ \A p \in Unanswered :
       \/ \E m \in air \cup ToSet(queue) : m.kind = "End_Device_Bind_req" /\ m.press = p
       \/ matchED # NoMatch /\ p \in {matchED.ed1.press, matchED.ed2.press}
       \/ p \in dropped
  /\ matchED # NoMatch => timer
  /\ troubles = 0 => ~memory.stray /\ ~memory.twice
==============================================================================
