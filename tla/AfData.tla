------------------------------- MODULE AfData -------------------------------
(***************************************************************************)
(* The application framework (AF.c): the list of endpoints, data requests, *)
(* their confirmations and incoming data; and the stub APS (stub_aps.c),   *)
(* which sends and hears frames of other PANs and moves the device to      *)
(* their channel and back.                                                 *)
(*                                                                         *)
(* External are APS (it takes or refuses a request, and confirms once what *)
(* it took; it knows the groups), the MAC (busy or not; it confirms what   *)
(* it sent) and the network layer, which is told to be idle while the      *)
(* device is on another channel.  osal_mem_alloc may fail.                 *)
(***************************************************************************)
EXTENDS Integers, Sequences, SequencesExt, FiniteSetsExt, TLC

CONSTANTS Descriptors,                          \* endPointDesc_t: [ep, task, profile, cb, match]; cb: described by a callback
          Groups,                               \* the group table: a sequence of <<group, endpoint>>
          Addresses,                            \* what an application may put in its address: [mode, to, ep, pan]
          Asks,                                 \* lengths of data, in octets, with the options of the request
          Frames,                               \* frames APS hands up: [mode, ep, group, profile]
          Fragments,                            \* apsfSendFragmented is there
          MaxEntries, MaxRequests, MaxShortages  \* bounds: endpoints, requests, and what goes wrong for want of memory

ASSUME DescriptorsAssumption ==
    \A d \in Descriptors : d = [ep |-> d.ep, task |-> d.task, profile |-> d.profile, cb |-> d.cb, match |-> d.match]

AF_BROADCAST_ENDPOINT == 255
STUBAPS_INTER_PAN_EP == 254
ZDO_EP == 0
ZDO_PROFILE_ID == 0
NoProfile == 65535
Own == "own"                 \* NLME_GetShortAddr()
NwkPan == "nwk pan"          \* _NIB.nwkPanId; the panId 0 is "none"
NwkChannel == 11
OtherChannels == {12, 13}

VARIABLES epList,       \* the endpoints, oldest first
          addrMode,     \* the mode in the applications' afAddrType_t
          afTransID,    \* of each endpoint, its application's transaction number
          taken,        \* requests that are to be confirmed: [path, ep, trans, id]
          requests,     \* history: of each request its endpoint, number, whether it was taken and who
                        \* was told of its end
          heard,        \* history: the last frame that came in and who heard it
          shortages,
          stub          \* the stub APS: its application and the move to a channel, see Init

afVars == <<epList, addrMode, afTransID, taken, requests, heard, shortages, stub>>

Nobody == -1
NoApp == [ep |-> 0, task |-> "none"]
Nothing == [frame |-> [mode |-> "none"], by |-> <<>>, short |-> FALSE]

AfInit ==
  /\ epList = <<>> /\ taken = {} /\ requests = <<>> /\ heard = Nothing /\ shortages = 0
  /\ addrMode = "16Bit"
  /\ afTransID = [e \in {d.ep : d \in Descriptors} |-> 0]
  /\ stub = [app |-> NoApp, channel |-> NwkChannel, idle |-> FALSE, rxOn |-> TRUE,
             changing |-> FALSE, newChannel |-> NwkChannel, retry |-> FALSE, astray |-> FALSE]

Lacking(n) == shortages + n <= MaxShortages /\ shortages' = shortages + n

----------------------------------------------------------------------------
(* The endpoints.  They come before the first request and the first frame  *)
(* to another PAN (a bound).                                               *)

StartingUp == requests = <<>> /\ ~stub.changing /\ stub.channel = NwkChannel

afFindEndPointDescList(ep) == SelectSeq(epList, LAMBDA e : e.ep = ep)
Registered(ep) == \E i \in DOMAIN epList : epList[i].ep = ep
Entry(ep) == Head(afFindEndPointDescList(ep))

afRegisterExtended(d) == epList' = Append(epList, [d EXCEPT !.match = TRUE])

\* afRegister looks for the endpoint first; a callback comes with afRegisterExtended.
Register(d) ==
  /\ ~d.cb => ~Registered(d.ep)
  /\ Len(epList) < MaxEntries /\ StartingUp
  /\ afRegisterExtended(d)
  /\ UNCHANGED <<addrMode, afTransID, taken, requests, shortages, stub>>

afSetMatch(ep) ==
  /\ Registered(ep) /\ StartingUp /\ Len(epList) = 1     \* a bound
  /\ LET i == SelectInSeq(epList, LAMBDA e : e.ep = ep)
     IN epList' = [epList EXCEPT ![i].match = ~@]
  /\ UNCHANGED <<addrMode, afTransID, taken, requests, shortages, stub>>
afGetMatch(ep) == Registered(ep) /\ Entry(ep).match

\* afEndPoints, as the active endpoints are told.
afEndPoints(skipZDO) ==
  LET all == [i \in 1..Len(epList) |-> epList[i].ep]
  IN SelectSeq(all, LAMBDA ep : ~skipZDO \/ ep # ZDO_EP)

(* The profile of an endpoint; a callback without memory names none.       *)
ProfileOf(e, without) == IF e.cb /\ e.ep \in without THEN NoProfile ELSE e.profile

----------------------------------------------------------------------------
(* Confirmations.                                                          *)

(* afDataConfirm: the task of the endpoint, or the host, is told, if the   *)
(* endpoint is there and there is memory.                                  *)
afDataConfirm(ep, told) == Append(told, IF Registered(ep) THEN ep ELSE Nobody)

(* Whoever took a request confirms it: APS to the endpoint, the MAC to the *)
(* stub, and that to the one endpoint it knows (INTERP_DataConfirm).       *)
Confirm(t) ==
  /\ taken' = taken \ {t}
  /\ \E short \in BOOLEAN :
       /\ Lacking(IF short THEN 1 ELSE 0)
       /\ requests' = IF short THEN requests
                      ELSE [requests EXCEPT ![t.id].told =
                              afDataConfirm(IF t.path = "mac" THEN stub.app.ep ELSE t.ep, @)]
  /\ UNCHANGED <<epList, addrMode, afTransID, stub>>

----------------------------------------------------------------------------
(* Data requests.                                                          *)

StubAPS_InterPan(pan, ep) ==
  /\ pan # "none"
  /\ \/ stub.channel # NwkChannel
     \/ pan # NwkPan
     \/ ep = STUBAPS_INTER_PAN_EP

Broadcast(to) == to = "all"
(* The mode after AF_DataRequest has looked at it, in the application's    *)
(* own address: a 16-bit address that is a broadcast one makes it so.      *)
ModeAfter(a) == IF a.mode \in {"16Bit", "Broadcast"} /\ Broadcast(a.to) THEN "Broadcast" ELSE a.mode

Routed(a) == a.to = Own \/ a.to = "routed"
LimitRefuses(a, options) == IF "concentrator" \notin options THEN "no"
                            ELSE IF a.mode # "16Bit" THEN "INVALID_PARAMETER"
                            ELSE IF ~Routed(a) THEN "NO_ROUTE" ELSE "no"

AddressRefused(a) ==
  \/ a.mode \notin {"16Bit", "Broadcast", "64Bit", "Group"}
  \/ a.mode = "Broadcast" /\ ~Broadcast(a.to)

(* afDataReqMTU and INTERP_DataReqMTU, in octets.                          *)
MTU(secure) == IF secure THEN 70 ELSE 88
MAC_A_MAX_FRAME_SIZE == 102
STUB_NWK_HDR_LEN == 2
INTERP_DataReqMTU == MAC_A_MAX_FRAME_SIZE - STUB_NWK_HDR_LEN - (1 + 2 + 2 + 2)

\* What INTERP_DataReq refuses of itself.
InterpRefuses(a, options) ==
  IF stub.changing THEN "FAILURE"
  ELSE IF options \cap {"security"} # {} \/ ("ack" \in options /\ a.mode \notin {"Broadcast", "Group"})
  THEN "NOT_SUPPORTED" ELSE "no"

(* AF_DataRequest, called by the endpoint's application with its address.  *)
(* verdict is what the layer below says.                                   *)
Status(a, mode, len, options, verdict) ==
  LET b == [a EXCEPT !.mode = mode]
      limit == LimitRefuses(a, options)
  IN IF a.mode = "NotPresent" THEN "INVALID_PARAMETER"
     ELSE IF limit # "no" THEN limit
     ELSE IF AddressRefused(b) THEN "INVALID_PARAMETER"
     ELSE IF StubAPS_InterPan(a.pan, a.ep)
     THEN IF len > INTERP_DataReqMTU THEN "INVALID_PARAMETER"
          ELSE IF InterpRefuses(b, options) # "no" THEN InterpRefuses(b, options) ELSE verdict
     ELSE IF len > MTU("security" \in options) /\ ~Fragments THEN "INVALID_PARAMETER" ELSE verdict

\* The request went past the checks, to the layer below or its refusal for the length.
Reached(a, mode, options) ==
  a.mode # "NotPresent" /\ LimitRefuses(a, options) = "no" /\ ~AddressRefused([a EXCEPT !.mode = mode])

(* Mutant: the transaction number stays when APS takes the request. *)
AF_DataRequestSameNumber(ep, to, len, options) ==
  /\ Registered(ep) /\ Len(requests) < MaxRequests
  /\ \E status \in {"SUCCESS", "MEM_FAIL"} :
       /\ Lacking(IF status = "SUCCESS" THEN 0 ELSE 1)
       /\ requests' = Append(requests, [ep |-> ep, trans |-> afTransID[ep], taken |-> status = "SUCCESS",
                                        inter |-> FALSE, loop |-> FALSE, told |-> <<>>])
       /\ taken' = IF status = "SUCCESS"
                   THEN taken \cup {[path |-> "aps", ep |-> ep, trans |-> afTransID[ep], id |-> Len(requests) + 1]}
                   ELSE taken
  /\ UNCHANGED <<epList, addrMode, afTransID, stub>>

(* An application may set all of its address, or leave the mode ("kept").  *)
AF_DataRequest(ep, to, len, options) ==
  /\ Registered(ep) /\ Len(requests) < MaxRequests
  /\ LET a == [to EXCEPT !.mode = IF to.mode = "kept" THEN addrMode ELSE @]
         mode == IF LimitRefuses(a, options) # "no" THEN a.mode ELSE ModeAfter(a)
         id == Len(requests) + 1
         inter == StubAPS_InterPan(a.pan, a.ep)
         loop == Reached(a, mode, options) /\ mode = "16Bit" /\ a.to = Own
     IN \E verdict \in {"SUCCESS", "MEM_FAIL"}, short \in BOOLEAN :
          LET status == Status(a, mode, len, options, verdict)
          IN /\ (short => loop) /\ (verdict # "SUCCESS" => status = verdict)
             /\ Lacking((IF verdict = "SUCCESS" THEN 0 ELSE 1) + IF short THEN 1 ELSE 0)
             /\ addrMode' = mode
             /\ requests' =
                  IF status # "SUCCESS" /\ ~loop THEN requests     \* nothing comes of it
                  ELSE Append(requests,
                    [ep |-> ep, trans |-> afTransID[ep], taken |-> status = "SUCCESS", inter |-> inter,
                     loop |-> loop, told |-> IF loop /\ ~short THEN afDataConfirm(ep, <<>>) ELSE <<>>])
             /\ afTransID' = IF status = "SUCCESS" THEN [afTransID EXCEPT ![ep] = (@ + 1) % 256] ELSE afTransID
             /\ taken' = IF status = "SUCCESS" /\ (inter \/ ~loop)
                         THEN taken \cup {[path |-> IF inter THEN "mac" ELSE "aps", ep |-> ep,
                                           trans |-> afTransID[ep], id |-> id]}
                         ELSE taken
  /\ UNCHANGED <<epList, stub>>

----------------------------------------------------------------------------
(* Incoming data.                                                          *)

Members(group) ==
  [i \in 1..Len(SelectSeq(Groups, LAMBDA g : g[1] = group)) |->
     SelectSeq(Groups, LAMBDA g : g[1] = group)[i][2]]

(* Mutant: a group is delivered to its first member only. *)
VisitedFirst(f) ==
  IF f.mode = "Group"
  THEN LET all == Members(f.group)
       IN IF all # <<>> /\ Registered(all[1]) THEN <<Entry(all[1])>> ELSE <<>>
  ELSE IF f.ep = AF_BROADCAST_ENDPOINT THEN epList
  ELSE IF Registered(f.ep) THEN <<Entry(f.ep)>> ELSE <<>>

(* The endpoints afIncomingData goes over.  It takes the members of a      *)
(* group one after the other and ends at one that is not registered.       *)
Visited(f) ==
  IF f.mode = "Group"
  THEN LET all == Members(f.group)
           absent == {i \in DOMAIN all : ~Registered(all[i])}
           known == IF absent = {} THEN all ELSE SubSeq(all, 1, Min(absent) - 1)
       IN [i \in DOMAIN known |-> Entry(known[i])]
  ELSE IF f.ep = AF_BROADCAST_ENDPOINT THEN epList
  ELSE IF Registered(f.ep) THEN <<Entry(f.ep)>> ELSE <<>>

Wanted(e, f, without) ==
  f.profile = ProfileOf(e, without) \/ (e.ep = ZDO_EP /\ f.profile = ZDO_PROFILE_ID)

(* afIncomingData, with afBuildMSGIncoming for each endpoint that shares   *)
(* the frame's profile: a message to its task, if there is memory.  Requests    *)
(* bear on none of it: frames come before the first (a bound).             *)
afIncomingData(f) ==
  requests = <<>> /\ \E without \in SUBSET {e.ep : e \in ToSet(epList)} :
    LET by == SelectSeq(Visited(f), LAMBDA e : Wanted(e, f, without) /\ e.ep \notin without)
    IN /\ Lacking(Cardinality(without))
       /\ heard' = [frame |-> f, by |-> [i \in DOMAIN by |-> by[i].ep], short |-> without # {}]
       /\ UNCHANGED <<epList, addrMode, afTransID, taken, requests, stub>>

----------------------------------------------------------------------------
(* Frames of other PANs: two octets of network header, one of frame        *)
(* control, the group if it is for one, the cluster, the profile, data.    *)

ProtocolVersion == 2
STUB_FRAME == 3      \* both STUB_NWK_FRAME_TYPE and STUB_APS_FRAME
APS_FC_DM == ("Unicast" :> 0) @@ ("Indirect" :> 4) @@ ("Broadcast" :> 8) @@ ("Group" :> 12)

Octets(n) == <<n % 256, n \div 256>>
Number(o, i) == o[i] + 256 * o[i + 1]

StubNWK_BuildMsg == <<STUB_FRAME + 4 * ProtocolVersion, 0>>
StubAPS_BuildMsg(q) ==
  StubNWK_BuildMsg \o <<STUB_FRAME + APS_FC_DM[q.mode]>>
  \o (IF q.mode = "Group" THEN Octets(q.group) ELSE <<>>)
  \o Octets(q.cluster) \o Octets(q.profile) \o q.data

(* StubAPS_ParseMsg. *)
StubAPS_ParseMsg(o) ==
  LET mode == CHOOSE m \in DOMAIN APS_FC_DM : APS_FC_DM[m] = 4 * ((o[3] \div 4) % 4)
      at == IF mode = "Group" THEN 6 ELSE 4
  IN [mode |-> mode, group |-> IF mode = "Group" THEN Number(o, 4) ELSE 0,
      cluster |-> Number(o, at), profile |-> Number(o, at + 2), data |-> SubSeq(o, at + 4, Len(o))]

(* StubAPS_ZMacCallback takes what has the frame types of the stub;        *)
(* INTERP_DataIndication also minds the version and every other flag.      *)
ForStub(o) == o[1] % 4 = STUB_FRAME /\ o[3] % 4 = STUB_FRAME
Sound(o) ==
  /\ (o[1] \div 4) % 16 = ProtocolVersion
  /\ o[1] \div 64 = 0 /\ o[2] % 32 = 0
  /\ (o[3] \div 4) % 4 # 1
  /\ (o[3] \div 32) % 2 = 0 /\ o[3] \div 128 = 0

\* A frame of another PAN comes in on the channel the device is on.
INTERP_DataIndication(q, o) ==
  LET p == StubAPS_ParseMsg(o)
  IN /\ ForStub(o) /\ Sound(o)
     /\ afIncomingData([mode |-> p.mode, ep |-> stub.app.ep, group |-> p.group, profile |-> p.profile,
                        cluster |-> p.cluster, data |-> p.data, sent |-> q])

----------------------------------------------------------------------------
(* The channel of the other PAN.  busy: a frame is being sent, or the MAC  *)
(* is not idle.                                                            *)

StubAPS_RegisterApp(e) ==
  /\ StartingUp
  /\ stub' = [stub EXCEPT !.app = [ep |-> e.ep, task |-> e.task]]
  /\ UNCHANGED <<epList, addrMode, afTransID, taken, requests, shortages>>

(* StubAPS_SetNewChannel, with what is left of the state when it succeeds. *)
OnChannel(s, channel) ==
  [s EXCEPT !.channel = channel, !.rxOn = TRUE, !.changing = FALSE, !.astray = channel = NwkChannel]

StubAPS_SetInterPanChannel(channel) ==
  /\ ~stub.changing /\ stub.channel # channel
  /\ \E busy \in BOOLEAN :
       LET leaving == [stub EXCEPT !.changing = TRUE, !.idle = TRUE, !.rxOn = FALSE]
       IN stub' = IF busy THEN [leaving EXCEPT !.newChannel = channel, !.retry = TRUE]
                  ELSE OnChannel(leaving, channel)
  /\ UNCHANGED <<epList, addrMode, afTransID, taken, requests, shortages>>

StubAPS_SetIntraPanChannel ==
  /\ ~stub.changing /\ stub.channel # NwkChannel
  /\ stub' = [stub EXCEPT !.channel = NwkChannel, !.rxOn = TRUE, !.idle = FALSE, !.astray = FALSE]
  /\ UNCHANGED <<epList, addrMode, afTransID, taken, requests, shortages>>

(* Mutant: a failing further try leaves the network layer idle. *)
ChannelChangeEvtIdle ==
  /\ stub.retry
  /\ \E busy \in BOOLEAN :
       stub' = [(IF busy THEN [stub EXCEPT !.rxOn = TRUE, !.changing = FALSE]
                 ELSE OnChannel(stub, stub.newChannel)) EXCEPT !.retry = FALSE, !.newChannel = NwkChannel]
  /\ UNCHANGED <<epList, addrMode, afTransID, taken, requests, shortages>>

(* CHANNEL_CHANGE_EVT: the one further try; the application is told.  The  *)
(* channel it went to is forgotten here, as nothing reads it any more.     *)
ChannelChangeEvt ==
  /\ stub.retry
  /\ \E busy \in BOOLEAN :
       LET s == IF busy
                THEN [stub EXCEPT !.rxOn = TRUE, !.idle = FALSE, !.changing = FALSE,
                                  !.astray = stub.channel # NwkChannel]
                ELSE OnChannel(stub, stub.newChannel)
       IN stub' = [s EXCEPT !.retry = FALSE, !.newChannel = NwkChannel]
  /\ UNCHANGED <<epList, addrMode, afTransID, taken, requests, shortages>>

----------------------------------------------------------------------------
(* What came in is forgotten with the next step.                           *)
Others ==
  \/ \E d \in Descriptors : Register(d)
  \/ \E e \in ToSet(epList) :
       \/ afSetMatch(e.ep) \/ StubAPS_RegisterApp(e)
       \/ \E ask \in Asks, a \in Addresses : AF_DataRequest(e.ep, a, ask[1], ask[2])
  \/ \E t \in taken : Confirm(t)
  \/ \E c \in OtherChannels \cup {NwkChannel} : StubAPS_SetInterPanChannel(c)
  \/ StubAPS_SetIntraPanChannel \/ ChannelChangeEvt

AfNext ==
  \/ Others /\ heard' = Nothing
  \/ \E f \in Frames : "octets" \notin DOMAIN f /\ afIncomingData(f)
  \/ \E f \in Frames : "octets" \in DOMAIN f /\ INTERP_DataIndication(f, f.octets)

AfSpec == AfInit /\ [][AfNext]_afVars

----------------------------------------------------------------------------
(* Properties.                                                             *)

(* A frame reaches each endpoint it is meant for once: the one it names,   *)
(* all of them, or the members of its group, as far as they have its       *)
(* profile and memory lasts.  A member of a group that is not registered   *)
(* hides those behind it, and an endpoint registered twice hears a         *)
(* broadcast twice.  What came from another PAN is what was sent there.    *)
MeantFor(f, e) ==
  /\ Wanted(e, f, {})
  /\ CASE f.mode = "Group" -> \E i \in DOMAIN Groups :
                                 /\ Groups[i] = <<f.group, e.ep>>
                                 /\ \A j \in 1..i : Groups[j][1] = f.group => Registered(Groups[j][2])
       [] f.mode # "Group" -> f.ep \in {e.ep, AF_BROADCAST_ENDPOINT}
HeardByAll ==
  heard # Nothing /\ ~heard.short =>
    LET f == heard.frame
        Times(ep) == Len(SelectSeq(heard.by, LAMBDA x : x = ep))
    IN /\ ToSet(heard.by) = {e.ep : e \in {x \in ToSet(epList) : MeantFor(f, x)}}
       /\ \A ep \in ToSet(heard.by) : Times(ep) > 1 => f.ep = AF_BROADCAST_ENDPOINT
                                                       /\ Len(afFindEndPointDescList(ep)) = Times(ep)
       /\ "sent" \in DOMAIN f => \A x \in {"mode", "group", "cluster", "profile", "data"} :
                                    f[x] = f.sent[x]

(* What was taken is confirmed once, to the endpoint that asked, under a   *)
(* number that names no other request of its that was taken among the 255  *)
(* before and after: the number has eight bits.  The known exceptions are  *)
(* a request to the device itself: refused, it is confirmed all the same,  *)
(* and sent through the stub twice; and what the stub sent, which is       *)
(* confirmed to the stub's application whoever asked.                      *)
ConfirmedOnce ==
  \A i \in DOMAIN requests :
    LET r == requests[i]
    IN /\ Len(r.told) <= (IF r.loop /\ r.inter THEN 2 ELSE 1)
       /\ r.told # <<>> => r.taken \/ r.loop
       /\ \A k \in DOMAIN r.told : r.told[k] = r.ep \/ r.inter
       /\ (r.taken /\ r.told = <<>>) =>
             (\E t \in taken : t.id = i) \/ shortages > 0
       /\ \A j \in DOMAIN requests \ {i} :
             (i - j \in -255 .. 255 /\ requests[j].ep = r.ep /\ requests[j].trans = r.trans /\ requests[j].taken
              /\ r.told # <<>>) => (r.loop /\ ~r.taken)

(* The network layer rests exactly while the device is away from its       *)
(* channel or about to leave it, and the receiver is off only for the      *)
(* move.  The application breaks this by going back to the     *)
(* network's channel as if it were another PAN's, and by a move from one   *)
(* foreign channel to another that fails.                                  *)
RestsWhileAway ==
  /\ ~stub.astray => (stub.idle <=> stub.channel # NwkChannel \/ stub.changing)
  /\ ~stub.rxOn => stub.retry
  /\ stub.changing <=> stub.retry

\* Data: what was taken is confirmed once, and the network rests while the
\* device is on a foreign channel.
DataSound == ConfirmedOnce /\ RestsWhileAway
=============================================================================
