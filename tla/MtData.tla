------------------------------- MODULE MtData -------------------------------
(***************************************************************************)
(* The AF commands of monitor and test: end points and data for the host.  *)
(* A message that is too long for one frame is kept in a store, s: s.in    *)
(* holds what came over the air until the host fetched it, newest first,   *)
(* s.req the request the host hands over in pieces.  Both age: a tick each *)
(* second, counted by one timer that every new entry starts over.          *)
(*                                                                         *)
(* An entry of s.in says whether its block was freed: a list that still    *)
(* holds it reads and frees memory that is not its own any more.           *)
(***************************************************************************)
EXTENDS MtRpc

CONSTANT MT_AF_EXEC_CNT

MT_AF_REQ_MSG_LEN == 10
MT_AF_REQ_MSG_EXT == 10
MT_AF_INC_MSG_LEN == 17
MT_AF_INC_MSG_EXT == 10
afAddr64Bit == 3
afStatus_FAILED == 1
afStatus_INVALID_PARAMETER == 2
afStatus_MEM_FAIL == 16

NoRequest == [data |-> NotHere]
EmptyStore == [in |-> <<>>, req |-> NoRequest]

\* The steps, the store behind them, and whether the timer was started over.
After(steps, s, starts) == [steps |-> steps, s |-> s, starts |-> starts]
Only(steps, s) == After(steps, s, FALSE)

-----------------------------------------------------------------------------
(* Ageing.                                                                 *)

Aged(entry) == [entry EXCEPT !.tick = @ - 1]

\* Mutant: the pending request never ages.
MT_AfExecKeepsRequest(s) ==
    LET in == SelectSeq([i \in DOMAIN s.in |-> Aged(s.in[i])], LAMBDA e : e.tick # 0)
        left == [in |-> in, req |-> s.req]
    IN  After(<<>>, left, left # EmptyStore)

MT_AfExec(s) ==
    LET in == SelectSeq([i \in DOMAIN s.in |-> Aged(s.in[i])], LAMBDA e : e.tick # 0)
        req == IF s.req = NoRequest \/ s.req.tick = 1 THEN NoRequest ELSE Aged(s.req)
        left == [in |-> in, req |-> req]
    IN  After(<<>>, left, left # EmptyStore)

-----------------------------------------------------------------------------
(* Requests.                                                               *)

MT_AfRegister(m, s) ==
    LET built == MT_BuildEndpointDesc(m, EndPointLayout)
        ok == built.status = ZSuccess
    IN  Only((IF ok THEN Called("afRegister", built.desc) ELSE <<>>)
               \o RpcAnswers(m, <<IF ok THEN m.returns ELSE built.status>>), s)

DataTail == <<U8("srcEp"), U16("cluster"), U8("trans"), U8("options"), U8("radius")>>
DataLayout == <<U16("addr"), U8("ep")>> \o DataTail \o <<U8("len"), Rest("data")>>
DataLayoutExt ==
    <<U8("mode"), Bytes("addr", Z_EXTADDR_LEN), U8("ep"), U16("pan")>> \o DataTail
      \o <<U16("len"), Rest("data")>>

DataLen(fields) == IF Len(fields.len) = 2 THEN Word16(fields.len) ELSE fields.len[1]

\* The data of a request that is too long comes later, in pieces.
MT_AfDataRequest(m, s) ==
    LET ext == m.id = "DATA_REQUEST_EXT"
        f == Picked(IF ext THEN DataLayoutExt ELSE DataLayout, m.octets)
        n == DataLen(f)
        long == n + MT_AF_REQ_MSG_LEN + (IF ext THEN MT_AF_REQ_MSG_EXT ELSE 0) > MT_RPC_DATA_MAX
        told(steps, status) == steps \o (IF m.type = "SREQ" THEN RpcAnswers(m, <<status>>) ELSE <<>>)
    IN  IF f.srcEp[1] \notin m.known THEN Only(told(<<>>, afStatus_INVALID_PARAMETER), s)
        ELSE IF ~long THEN Only(told(Called("AF_DataRequest", f), m.returns), s)
        ELSE IF s.req # NoRequest THEN Only(told(<<>>, afStatus_INVALID_PARAMETER), s)
        ELSE IF ~m.memory THEN Only(told(<<>>, afStatus_MEM_FAIL), s)
        ELSE After(told(<<>>, ZSuccess),
                   [s EXCEPT !.req = [fields |-> f, data |-> Unset(n), tick |-> MT_AF_EXEC_CNT]],
                   TRUE)

MT_AfDataRequestSrcRtg(m, s) ==
    LET f == Picked(<<U16("addr"), U8("ep")>> \o DataTail \o <<Counted("relays", 2), Counted("data", 1)>>,
                    m.octets)
        known == f.srcEp[1] \in m.known
    IN  IF ~m.memory THEN Only(RpcAnswers(m, <<afStatus_MEM_FAIL>>), s)
        ELSE IF ~known THEN Only(RpcAnswers(m, <<afStatus_INVALID_PARAMETER>>), s)
        ELSE Only(Called("AF_DataRequestSrcRtg", f) \o RpcAnswers(m, <<m.returns>>), s)

InterPanClr == 0
InterPanSet == 1
InterPanReg == 2
InterPanChk == 3
MT_AfInterPanCtl(m, s) ==
    LET what == m.octets[1]
        calls(fn, layout) == Called(fn, Picked(<<U8("what")>> \o layout, m.octets))
        does ==
            CASE what = InterPanClr -> [steps |-> calls("StubAPS_SetIntraPanChannel", <<>>), status |-> m.returns]
              [] what = InterPanSet -> [steps |-> calls("StubAPS_SetInterPanChannel", <<U8("channel")>>), status |-> m.returns]
              [] what = InterPanReg ->
                    IF m.octets[2] \in m.known
                    THEN [steps |-> calls("StubAPS_RegisterApp", <<U8("ep")>>), status |-> ZSuccess]
                    ELSE [steps |-> <<>>, status |-> ZFailure]
              [] what = InterPanChk ->
                    [steps |-> calls("StubAPS_InterPan", <<U16("pan"), U8("ep")>>), status |-> m.returns]
              [] OTHER -> [steps |-> <<>>, status |-> afStatus_INVALID_PARAMETER]
    IN  Only(does.steps \o RpcAnswers(m, <<does.status>>), s)

\* The first entry with the time stamp.  The search leaves the entry itself
\* as its own predecessor: only the head of the list is taken out of it.
MT_AfDataRetrieve(m, s) ==
    LET f == Picked(<<U32("stamp"), U16("index"), U8("len")>>, m.octets)
        at == {i \in DOMAIN s.in : s.in[i].stamp = f.stamp}
        i == Min(at)
        n == f.len[1]
    IN  IF at = {} THEN Only(RpcAnswers(m, <<afStatus_FAILED, 0>>), s)
        ELSE IF n = 0
        THEN Only(RpcAnswers(m, <<ZSuccess, 0>>),
                  [s EXCEPT !.in = IF i = 1 THEN Tail(@) ELSE [@ EXCEPT ![i].freed = TRUE]])
        ELSE IF ~m.memory THEN Only(RpcAnswers(m, <<afStatus_MEM_FAIL, 0>>), s)
        ELSE Only(RpcAnswers(m, <<ZSuccess, n>> \o Slice(s.in[i].data, Word16(f.index) + 1, n)), s)

\* Octets in place of those from an index on, however long the sequence is.
Spliced(octets, index, piece) ==
    [k \in 1 .. Max({Len(octets), index + Len(piece)}) |->
        IF k \in index + 1 .. index + Len(piece) THEN piece[k - index] ELSE At(octets, k)]

\* Mutant: the piece is put one octet too far.
MT_AfDataStoreNext(m, s) ==
    LET f == Picked(<<U16("index"), Counted("piece", 1)>>, m.octets) IN
    IF s.req = NoRequest THEN Only(RpcAnswers(m, <<afStatus_MEM_FAIL>>), s)
    ELSE IF f.piece = <<>>
    THEN Only(Called("AF_DataRequest", [s.req.fields EXCEPT !.data = s.req.data])
                \o RpcAnswers(m, <<m.returns>>), [s EXCEPT !.req = NoRequest])
    ELSE Only(RpcAnswers(m, <<ZSuccess>>),
              [s EXCEPT !.req.data = Spliced(@, Word16(f.index) + 1, f.piece)])

\* An empty piece sends what was put together.
MT_AfDataStore(m, s) ==
    LET f == Picked(<<U16("index"), Counted("piece", 1)>>, m.octets) IN
    IF s.req = NoRequest THEN Only(RpcAnswers(m, <<afStatus_MEM_FAIL>>), s)
    ELSE IF f.piece = <<>>
    THEN Only(Called("AF_DataRequest", [s.req.fields EXCEPT !.data = s.req.data])
                \o RpcAnswers(m, <<m.returns>>), [s EXCEPT !.req = NoRequest])
    ELSE Only(RpcAnswers(m, <<ZSuccess>>),
              [s EXCEPT !.req.data = Spliced(@, Word16(f.index), f.piece)])

MT_AfCommandProcessing(m, s) ==
    LET done(after) == [status |-> MT_RPC_SUCCESS] @@ after IN
    CASE m.id = "REGISTER" -> done(MT_AfRegister(m, s))
      [] m.id \in {"DATA_REQUEST", "DATA_REQUEST_EXT"} -> done(MT_AfDataRequest(m, s))
      [] m.id = "DATA_RETRIEVE" -> done(MT_AfDataRetrieve(m, s))
      [] m.id = "DATA_STORE" -> done(MT_AfDataStore(m, s))
      [] m.id = "DATA_REQUEST_SRCRTG" /\ m.build -> done(MT_AfDataRequestSrcRtg(m, s))
      [] m.id = "INTER_PAN_CTL" /\ m.build -> done(MT_AfInterPanCtl(m, s))
      [] OTHER -> [status |-> MT_RPC_ERR_COMMAND_ID] @@ Only(<<>>, s)

-----------------------------------------------------------------------------
(* Indications.  w is the confirmation or the message.                     *)

MT_AfDataConfirm(w) == Indicates(w, "AF", "DATA_CONFIRM", <<w.status, w.ep, w.seq>>)

\* A message that does not fit one frame is indicated without its data and
\* kept; the sender's address takes the room of an extended one.
MT_AfIncomingMsg(w, s) ==
    LET n == Len(w.octets)
        ext == \/ w.interPan \/ w.mode = afAddr64Bit
               \/ n + MT_AF_INC_MSG_LEN > MT_RPC_DATA_MAX - MT_AF_INC_MSG_EXT
        long == n + MT_AF_INC_MSG_LEN + (IF ext THEN MT_AF_INC_MSG_EXT ELSE 0) > MT_RPC_DATA_MAX
        from == IF ext
                THEN <<w.mode>> \o (IF w.mode = afAddr64Bit THEN w.ieee
                                    ELSE w.src \o Unset(Z_EXTADDR_LEN - 2))
                       \o <<w.srcEp>> \o (IF w.build THEN w.pan ELSE <<0, 0>>)
                ELSE w.src \o <<w.srcEp>>
        counted == IF ext THEN <<0, n % 256, n \div 256>> ELSE <<w.seq, n>>
        frame == w.group \o w.clusterId \o from \o <<w.ep, w.broadcast, w.lqi, w.security>>
                   \o w.stamp \o counted \o (IF long THEN <<>> ELSE w.octets)
        told == Indicates(w, "AF", IF ext THEN "INCOMING_MSG_EXT" ELSE "INCOMING_MSG", frame)
    IN  IF w.memory = 0 \/ (long /\ w.memory = 1) THEN Only(<<>>, s)
        ELSE IF ~long THEN Only(told, s)
        ELSE After(told,
                   [s EXCEPT !.in = <<[stamp |-> w.stamp, data |-> w.octets,
                                       tick |-> MT_AF_EXEC_CNT, freed |-> FALSE]>> \o @], TRUE)

-----------------------------------------------------------------------------
(***************************************************************************)
(* The commands of monitor and test for the simple interface, for the      *)
(* applications and for debug messages, and what these report to the host. *)
(***************************************************************************)

\* Items a host may neither read nor write as configuration.
Hidden == {33, 34, 35, 130}
ZB_IEEE_SEARCH == 1
INVALID_TASK == 3

-----------------------------------------------------------------------------
(* The simple interface.                                                   *)

DoesAndAnswers(m, fn, layout) == Called(fn, Picked(layout, m.octets)) \o RpcAnswers(m, <<>>)

MT_SapiSystemReset(m) == Called("zb_SystemReset", <<>>)
MT_SapiStart(m) == DoesAndAnswers(m, "zb_StartRequest", <<>>)

\* m.registered: an end point was registered before.  Of the end point
\* asked for it is the frame's length that is tested.
MT_SapiAppRegister(m) ==
    LET built == MT_BuildEndpointDesc(m, EndPointLayout)
        ok == built.status = ZSuccess
    IN  IF m.registered \/ m.len = 0 THEN RpcAnswers(m, <<ZApsIllegalRequest>>)
        ELSE (IF ok THEN Called("afRegister", built.desc) \o Called("afSetMatch", [ep |-> built.desc.endPoint])
              ELSE <<>>)
               \o RpcAnswers(m, <<IF ok THEN m.returns ELSE built.status>>)

\* An address of all zeroes or all ones is none.
MT_SapiBindDevice(m) ==
    LET f == Picked(<<U8("create"), U16("command"), IEEE("ieee")>>, m.octets)
        valid == f.ieee \notin {Zeros(Z_EXTADDR_LEN), Ones(Z_EXTADDR_LEN)}
    IN  Called("zb_BindDevice", [f EXCEPT !.ieee = IF valid THEN @ ELSE NotHere]) \o RpcAnswers(m, <<>>)

MT_SapiAllowBind(m) == DoesAndAnswers(m, "zb_AllowBind", <<U8("timeout")>>)
MT_SapiSendData(m) ==
    DoesAndAnswers(m, "zb_SendDataRequest",
                   <<U16("destination"), U16("command"), U8("handle"), U8("txOptions"), U8("radius"),
                     Counted("data", 1)>>)

MT_SapiReadCfg(m) ==
    LET id == m.octets[1]
        status == IF m.item = NotHere \/ id \in Hidden THEN ZInvalidParameter
                  ELSE IF m.returns = ZSuccess THEN ZSuccess ELSE ZFailure
        value == IF status = ZSuccess THEN m.item ELSE <<>>
    IN  IF ~m.memory THEN <<>> ELSE RpcAnswers(m, <<status, id, Len(value)>> \o value)

MT_SapiWriteCfg(m) ==
    IF m.octets[1] \in Hidden THEN RpcAnswers(m, <<ZInvalidParameter>>)
    ELSE Called("zb_WriteConfiguration", Picked(<<U8("id"), Counted("value", 1)>>, m.octets))
           \o RpcAnswers(m, <<IF m.returns = ZSuccess THEN ZSuccess ELSE ZFailure>>)

\* Eight octets are told of a parameter that may be shorter.
MT_SapiGetDevInfo(m) ==
    IF ~m.memory THEN <<>> ELSE RpcAnswers(m, <<m.octets[1]>> \o Slice(m.item, 1, Z_EXTADDR_LEN))

MT_SapiFindDev(m) == DoesAndAnswers(m, "zb_FindDeviceRequest", <<IEEE("ieee")>>)
MT_SapiPermitJoin(m) == Asks(m, "zb_PermitJoiningRequest", <<U16("destination"), U8("timeout")>>)

MT_SapiCommandProcessing(m) ==
    CASE m.id = "START_REQ" -> RpcDone(MT_SapiStart(m))
      [] m.id = "BIND_DEVICE_REQ" -> RpcDone(MT_SapiBindDevice(m))
      [] m.id = "ALLOW_BIND_REQ" -> RpcDone(MT_SapiAllowBind(m))
      [] m.id = "SEND_DATA_REQ" -> RpcDone(MT_SapiSendData(m))
      [] m.id = "READ_CFG_REQ" -> RpcDone(MT_SapiReadCfg(m))
      [] m.id = "WRITE_CFG_REQ" -> RpcDone(MT_SapiWriteCfg(m))
      [] m.id = "GET_DEV_INFO_REQ" -> RpcDone(MT_SapiGetDevInfo(m))
      [] m.id = "FIND_DEV_REQ" -> RpcDone(MT_SapiFindDev(m))
      [] m.id = "PMT_JOIN_REQ" -> RpcDone(MT_SapiPermitJoin(m))
      [] m.id = "SYS_RESET" -> RpcDone(MT_SapiSystemReset(m))
      [] m.id = "APP_REGISTER_REQ" -> RpcDone(MT_SapiAppRegister(m))
      [] OTHER -> UnknownCommand

ReportsSapi(w, id, octets) == Indicates(w, "SAPI", id, octets)
zb_MTCallbackStartConfirm(w) == ReportsSapi(w, "START_CNF", <<w.status>>)
zb_MTCallbackSendDataConfirm(w) == ReportsSapi(w, "SEND_DATA_CNF", <<w.handle, w.status>>)
zb_MTCallbackBindConfirm(w) == ReportsSapi(w, "BIND_CNF", w.clusterId \o <<w.status>>)
\* Three octets are told of two that were written.
zb_MTCallbackAllowBindConfirm(w) == ReportsSapi(w, "ALLOW_BIND_CNF", w.src \o Unset(1))
zb_MTCallbackFindDeviceConfirm(w) ==
    ReportsSapi(w, "FIND_DEV_CNF", <<ZB_IEEE_SEARCH>> \o w.nwkAddr \o w.ieee)
\* The loop that copies the data counts with a signed octet; longer data
\* would not end it.
zb_MTCallbackReceiveDataIndication(w) ==
    IF w.memory = 0 \/ Len(w.octets) > 127 THEN <<>>
    ELSE ReportsSapi(w, "RCV_DATA_IND", w.src \o w.clusterId \o <<Len(w.octets), 0>> \o w.octets)

-----------------------------------------------------------------------------
(* Applications and debugging.                                             *)

\* The octets behind the end point go to the task it belongs to; a frame
\* without any makes the count of them wrap.
MT_AppMsg(m) ==
    LET n == (m.len - 1) % 256 IN
    IF m.octets[1] \notin m.known \/ ~m.memory THEN RpcAnswers(m, <<ZFailure>>)
    ELSE Called("osal_msg_send", [ep |-> m.octets[1], data |-> Slice(m.octets, 2, n)])
           \o RpcAnswers(m, <<ZSuccess>>)

\* None of the test applications is built.
MT_AppUserCmd(m) == RpcAnswers(m, <<INVALID_TASK>>)

MT_AppCommandProcessing(m) ==
    CASE m.id = "MSG" -> RpcDone(MT_AppMsg(m))
      [] m.id = "USER_TEST" -> RpcDone(MT_AppUserCmd(m))
      [] OTHER -> UnknownCommand

MT_DebugSetThreshold(m) ==
    Called("threshold", Picked(<<U8("component"), U8("threshold")>>, m.octets)) \o RpcAnswers(m, <<ZSuccess>>)

MT_DebugCommandProcessing(m) ==
    IF m.id = "SET_THRESHOLD" THEN RpcDone(MT_DebugSetThreshold(m)) ELSE UnknownCommand

MT_ProcessDebugMsg(w) ==
    IF w.memory = 0 THEN <<>>
    ELSE Indicates(w, "DBG", "DEBUG_MSG",
                   <<w.component, w.severity, Len(w.params) \div 2>> \o w.params \o w.stamp2)
MT_ProcessDebugStr(w) == IF w.memory = 0 THEN <<>> ELSE Indicates(w, "DBG", "DEBUG_STR", w.octets)
=============================================================================
