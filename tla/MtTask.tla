------------------------------ MODULE MtTask -------------------------------
(***************************************************************************)
(* The task of monitor and test: serial requests, debug messages and       *)
(* timers come as events; the stack's reports reach the host by calls; and *)
(* the system commands, which the task serves by itself: reset, version,   *)
(* non-volatile items, timers, converter, pins and the radio's tuning.     *)
(* Time is abstract: a timer that runs may expire at any moment.           *)
(* `mtTold' is the last thing the task did: for whom, and by which steps.  *)
(* A host asks for everything there is to ask, in good and bad             *)
(* circumstances, and the stack reports everything it reports, one at a    *)
(* time ("catalogue"); or the host uses long messages, long requests and   *)
(* timers, Budget of them ("store").                                       *)
(***************************************************************************)
EXTENDS MtRpc, FiniteSets

CONSTANT MT_AF_EXEC_CNT
CONSTANT Budget    \* bound: what the host sends in "store"

Data == INSTANCE MtData
Stack == INSTANCE MtStack

-----------------------------------------------------------------------------
(* System commands.                                                        *)

ZCD_NV_EXTADDR == 1
MT_NV_ITEM_MAX_LENGTH == 250
MTVersionString == <<2, 0, 2, 3, 1>>
MT_CAPABILITIES == <<121, 3>>
HAL_ADC_CHANNELS == 0 .. 7
HAL_ADC_CHANNEL_TEMP == 14
HAL_ADC_CHANNEL_VDD == 15
HAL_ADC_RESOLUTION_14 == 4
STK_TX_PWR == 0
STK_RX_ON_IDLE == 1
MT_SysOsalEventIds == 0 .. 3

\* Items a host may not read: the certificate, and the keys in a build
\* without key management.
Certificates == {105, 106, 107}
Keys == {58, 59, 98} \cup 257 .. 511 \cup 513 .. 767 \cup 769 .. 1023

MT_SysReset(m) ==
    Called(IF m.octets[1] = 0 THEN "SystemReset" ELSE "SystemResetSoft", <<>>)

MT_SysPing(m) == RpcAnswers(m, MT_CAPABILITIES)
MT_SysVersion(m) == RpcAnswers(m, MTVersionString)

\* The radio is told first; the item is written only when it agreed.
MT_SysSetExtAddr(m) ==
    LET ieee == Slice(m.octets, 1, Z_EXTADDR_LEN) IN
    Called("ZMacSetReq", [ieee |-> ieee])
      \o (IF m.returns = ZSuccess THEN Called("osal_nv_write", [id |-> ZCD_NV_EXTADDR, data |-> ieee])
          ELSE <<>>)
      \o RpcAnswers(m, <<IF m.returns = ZSuccess THEN m.writes ELSE ZFailure>>)

MT_SysGetExtAddr(m) == RpcAnswers(m, m.item)

\* The item's whole length is asked for at the offset, into an answer that
\* has room for what is behind the offset: the step names both.
MT_SysOsalNVRead(m) ==
    LET id == Word16(m.octets)
        offset == m.octets[3]
        nvItemLen == FoldSet(LAMBDA a, b : IF a < b THEN a ELSE b, MT_NV_ITEM_MAX_LENGTH,
                             {Len(m.item) % 256})
        n == nvItemLen - offset
    IN  IF id \in Certificates \/ (~m.build /\ id \in Keys)
        THEN RpcAnswers(m, <<ZInvalidParameter, 0>>)
        ELSE IF ~m.memory THEN <<>>
        ELSE IF nvItemLen > 0 /\ n > 0
        THEN Called("osal_nv_read", [asked |-> nvItemLen, room |-> n])
               \o RpcAnswers(m, <<IF m.returns = ZSuccess THEN ZSuccess ELSE ZFailure, n>>
                               \o (IF m.returns = ZSuccess THEN Slice(m.item, offset + 1, n)
                                   ELSE Zeros(n)))
        ELSE RpcAnswers(m, <<ZFailure, 0>>)

NvWriteLayout == <<U16("id"), U8("offset"), Counted("data", 1)>>

\* The extended address goes to the radio as well.
MT_SysOsalNVWrite(m) ==
    LET item == Picked(NvWriteLayout, m.octets)
        told == Word16(item.id) = ZCD_NV_EXTADDR /\ m.writes = ZSuccess
    IN  Called("zgSetItem", item) \o Called("osal_nv_write", item)
          \o (IF told THEN Called("ZMacSetReq", [ieee |-> item.data]) ELSE <<>>)
          \o RpcAnswers(m, <<IF m.writes # ZSuccess THEN ZFailure
                          ELSE IF told THEN m.returns ELSE ZSuccess>>)

IfTimer(m, fn, layout) ==
    IF m.octets[1] \in MT_SysOsalEventIds THEN Asks(m, fn, layout)
    ELSE RpcAnswers(m, <<ZInvalidParameter>>)
MT_SysOsalStartTimer(m) == IfTimer(m, "osal_start_timerEx", <<U8("timer"), U16("timeout")>>)
MT_SysOsalStopTimer(m) == IfTimer(m, "osal_stop_timerEx", <<U8("timer")>>)

MT_SysRandom(m) == Called("Onboard_rand", <<>>) \o RpcAnswers(m, m.item)

\* Temperature and supply are read at full resolution whatever was asked.
MT_SysAdcRead(m) ==
    LET channel == m.octets[1]
        reads(resolution) ==
            Called("HalAdcRead", [channel |-> channel, resolution |-> resolution]) \o RpcAnswers(m, m.item)
    IN  IF channel \in HAL_ADC_CHANNELS THEN reads(m.octets[2])
        ELSE IF channel \in {HAL_ADC_CHANNEL_TEMP, HAL_ADC_CHANNEL_VDD}
        THEN reads(HAL_ADC_RESOLUTION_14)
        ELSE RpcAnswers(m, <<0, 0>>)

\* Whatever the operation did, the state of the four pins is the answer.
MT_SysGpio(m) == Called("GPIO", Picked(<<U8("op"), U8("val")>>, m.octets)) \o RpcAnswers(m, <<m.returns>>)

MT_SysStackTune(m) ==
    LET what == m.octets[1]
        asks == what = STK_RX_ON_IDLE /\ m.octets[2] \notin {0, 1}
    IN  IF what \in {STK_TX_PWR, STK_RX_ON_IDLE}
        THEN Called(IF asks THEN "ZMacGetReq" ELSE "ZMacSetReq", Picked(<<U8("what"), U8("value")>>, m.octets))
               \o RpcAnswers(m, <<m.returns>>)
        ELSE RpcAnswers(m, <<ZInvalidParameter>>)

MT_SysCommandProcessing(m) ==
    CASE m.id = "RESET_REQ" -> RpcDone(MT_SysReset(m))
      [] m.id = "PING" -> RpcDone(MT_SysPing(m))
      [] m.id = "VERSION" -> RpcDone(MT_SysVersion(m))
      [] m.id = "SET_EXTADDR" -> RpcDone(MT_SysSetExtAddr(m))
      [] m.id = "GET_EXTADDR" -> RpcDone(MT_SysGetExtAddr(m))
      [] m.id = "OSAL_NV_READ" -> RpcDone(MT_SysOsalNVRead(m))
      [] m.id = "OSAL_NV_WRITE" -> RpcDone(MT_SysOsalNVWrite(m))
      [] m.id = "OSAL_START_TIMER" -> RpcDone(MT_SysOsalStartTimer(m))
      [] m.id = "OSAL_STOP_TIMER" -> RpcDone(MT_SysOsalStopTimer(m))
      [] m.id = "RANDOM" -> RpcDone(MT_SysRandom(m))
      [] m.id = "ADC_READ" -> RpcDone(MT_SysAdcRead(m))
      [] m.id = "GPIO" -> RpcDone(MT_SysGpio(m))
      [] m.id = "STACK_TUNE" -> RpcDone(MT_SysStackTune(m))
      [] OTHER -> UnknownCommand

MT_SysResetInd(w) == Indicates(w, "SYS", "RESET_IND", <<w.status>> \o MTVersionString)
MT_SysOsalTimerExpired(w) == Indicates(w, "SYS", "OSAL_TIMER_EXPIRED", <<w.timer>>)

-----------------------------------------------------------------------------
(***************************************************************************)
(* The utility commands of monitor and test: what the device is and how it *)
(* is set up, subscriptions, keys and lights, and the tables of neighbours *)
(* and keys.                                                               *)
(***************************************************************************)

ZMacUnsupported == 245
ZMacSrcMatchInvalidIndex == 255
SizeOfAssociatedDevice == 18
Addr16Bit == 2
Addr64Bit == 3

-----------------------------------------------------------------------------
(* Settings.                                                               *)

\* Status, extended and short address, type, state and the devices below;
\* m.item is what the stack holds of them, m.devices the list.
MT_UtilGetDeviceInfo(m) ==
    LET devices == IF m.router THEN m.devices ELSE <<>> IN
    IF ~m.memory THEN <<>>
    ELSE RpcAnswers(m, <<ZSuccess>> \o m.item \o <<Len(devices) \div 2>> \o devices)

\* The items of the answer, the bit of each in the status and its octets;
\* m.nv maps an item to what is stored, none when it cannot be read.  The
\* channels are told high octet first.
NvInfo == <<[item |-> "EXTADDR", bit |-> 1, size |-> Z_EXTADDR_LEN],
            [item |-> "CHANLIST", bit |-> 2, size |-> 4],
            [item |-> "PANID", bit |-> 4, size |-> 2],
            [item |-> "SECURITY_LEVEL", bit |-> 8, size |-> 1],
            [item |-> "PRECFGKEY", bit |-> 16, size |-> SEC_KEY_LEN]>>

MT_UtilGetNvInfo(m) ==
    LET missing == {i \in DOMAIN NvInfo : m.nv[NvInfo[i].item] = NotHere}
        told(i) == IF i \in missing THEN Ones(NvInfo[i].size)
                   ELSE IF NvInfo[i].item = "CHANLIST" THEN Reverse(m.nv["CHANLIST"])
                   ELSE m.nv[NvInfo[i].item]
    IN  IF ~m.memory THEN <<>>
        ELSE RpcAnswers(m, <<FoldSet(LAMBDA i, sum : sum + NvInfo[i].bit, 0, missing)>>
                          \o FlattenSeq([i \in DOMAIN NvInfo |-> told(i)]))

WritesItem(m, item, n) ==
    Called("osal_nv_write", [item |-> item, data |-> Slice(m.octets, 1, n)]) \o RpcAnswers(m, <<m.returns>>)
MT_UtilSetPanID(m) == WritesItem(m, "PANID", 2)
MT_UtilSetChannels(m) == WritesItem(m, "CHANLIST", 4)
MT_UtilSetSecLevel(m) == WritesItem(m, "SECURITY_LEVEL", 1)
MT_UtilSetPreCfgKey(m) == WritesItem(m, "PRECFGKEY", SEC_KEY_LEN)

\* One subsystem, named by the low bits of the second octet, or all of them.
MT_UtilCallbackSub(m) ==
    IF ~m.build THEN RpcAnswers(m, <<ZFailure>>)
    ELSE Called("subscribe", [all |-> Slice(m.octets, 1, 2) = <<255, 255>>, system |-> m.octets[2] % 32,
                              on |-> m.octets[3] # 0])
           \o RpcAnswers(m, <<ZSuccess>>)

MT_UtilKeyEvent(m) == Asks(m, "OnBoard_SendKeys", <<U8("keys"), U8("shift")>>)

MT_UtilTimeAlive(m) == RpcAnswers(m, m.item)

Leds == 1 .. 4 \cup {255}
LedModes == 0 .. 4
MT_UtilLedControl(m) ==
    IF m.octets[1] \in Leds /\ m.octets[2] \in LedModes
    THEN Called("HalLedSet", Picked(<<U8("led"), U8("mode")>>, m.octets)) \o RpcAnswers(m, <<ZSuccess>>)
    ELSE RpcAnswers(m, <<ZFailure>>)

-----------------------------------------------------------------------------
(* The radio's table of devices with pending data.                         *)

AsksRadio(m, fn, fields) ==
    IF m.build THEN Called(fn, fields) \o RpcAnswers(m, <<m.returns>>) ELSE RpcAnswers(m, <<ZMacUnsupported>>)

\* Extended addresses come in the opposite order of octets.
MT_UtilSpi2Addr(octets) ==
    CASE octets[1] = Addr16Bit -> Slice(octets, 2, 2)
      [] octets[1] = Addr64Bit -> MT_ReverseBytes(Slice(octets, 2, Z_EXTADDR_LEN))
      [] OTHER -> Unset(Z_EXTADDR_LEN)

Matched(m) == [addr |-> MT_UtilSpi2Addr(m.octets), pan |-> Slice(m.octets, 2 + Z_EXTADDR_LEN, 2)]

MT_UtilSrcMatchEnable(m) ==
    AsksRadio(m, "ZMacSrcMatchEnable", Picked(<<U8("type"), U8("num")>>, m.octets))
MT_UtilSrcMatchAddEntry(m) == AsksRadio(m, "ZMacSrcMatchAddEntry", Matched(m))
MT_UtilSrcMatchDeleteEntry(m) == AsksRadio(m, "ZMacSrcMatchDeleteEntry", Matched(m))
MT_UtilSrcMatchCheckSrcAddr(m) == RpcAnswers(m, <<ZMacUnsupported, ZMacSrcMatchInvalidIndex>>)
MT_UtilSrcMatchAckAllPending(m) ==
    AsksRadio(m, "ZMacSrcMatchAckAllPending", Picked(<<U8("on")>>, m.octets))
MT_UtilSrcMatchCheckAllPending(m) ==
    RpcAnswers(m, IF m.build THEN <<ZSuccess, m.returns>> ELSE <<ZMacUnsupported, 0>>)

-----------------------------------------------------------------------------
(* Network.  m.item is the address, key or device the stack found.         *)

MT_UtilDataReq(m) == Asks(m, "NwkPollReq", <<U8("secure")>>)

\* Whether the address was found is not looked at: the host gets back the
\* octets it sent, or octets nobody wrote.
MT_UtilAddrMgrExtAddrLookup(m) ==
    RpcAnswers(m, IF m.item # NotHere THEN m.item ELSE Slice(m.octets, 1, Z_EXTADDR_LEN))
MT_UtilAddrMgrEntryLookupNwk(m) ==
    RpcAnswers(m, IF m.item # NotHere THEN m.item ELSE Unset(Z_EXTADDR_LEN))

\* The key and its two frame counters; an item that cannot be read leaves
\* them unset under the status of success.
MT_UtilAPSME_LinkKeyDataGet(m) ==
    LET n == SEC_KEY_LEN + 8 IN
    RpcAnswers(m, IF m.returns # ZSuccess THEN <<m.returns>> \o Ones(n)
               ELSE IF m.memory /\ m.item # NotHere THEN <<ZSuccess>> \o m.item
               ELSE <<ZSuccess>> \o Unset(n))

MT_UtilAPSME_LinkKeyNvIdGet(m) ==
    RpcAnswers(m, <<m.returns>> \o (IF m.returns = ZSuccess THEN m.item ELSE Ones(2)))

MT_UtilAssocCount(m) == RpcAnswers(m, m.item)

packDev_t(device) ==
    IF device = NotHere THEN <<254, 255>> \o Unset(SizeOfAssociatedDevice - 2) ELSE device

MT_UtilAssocFindDevice(m) == Called("AssocFindDevice", Picked(<<U8("number")>>, m.octets)) \o RpcAnswers(m, packDev_t(m.item))
MT_UtilAssocGetWithAddress(m) ==
    Called("AssocGetWithAddress", Picked(<<IEEE("ieee"), U16("nwkAddr")>>, m.octets)) \o RpcAnswers(m, packDev_t(m.item))

-----------------------------------------------------------------------------
(* Key establishment.                                                      *)

MT_UtilzclGeneral_KeyEstablish_InitiateKeyEstablishment(m) ==
    Asks(m, "zclGeneral_KeyEstablish_InitiateKeyEstablishment",
         <<U8("task"), U8("seq"), U8("ep"), U8("mode"), Bytes("addr", Z_EXTADDR_LEN)>>)

\* Without the smart energy join nothing is signed and nothing answered.
MT_UtilzclGeneral_KeyEstablishment_ECDSASign(m) ==
    IF ~m.build THEN <<>>
    ELSE IF ~m.memory THEN RpcAnswers(m, <<ZFailure>>)
    ELSE Called("zclGeneral_KeyEstablishment_ECDSASign", Picked(<<Counted("input", 1)>>, m.octets))
           \o RpcAnswers(m, <<m.returns>> \o m.item)

MT_UtilKeyEstablishInd(w) ==
    Indicates(w, "UTIL", "ZCL_KEY_ESTABLISH_IND", <<w.task, w.event, w.status, w.wait>> \o w.suite)

\* The host's request is given back as an indication.
MT_UtilSync(m) == TellsHost(m.room, "AREQ", "UTIL", "SYNC_REQ", 0, <<>>)

MT_UtilCommandProcessing(m) ==
    CASE m.id = "GET_DEVICE_INFO" -> RpcDone(MT_UtilGetDeviceInfo(m))
      [] m.id = "GET_NV_INFO" -> RpcDone(MT_UtilGetNvInfo(m))
      [] m.id = "SET_PANID" -> RpcDone(MT_UtilSetPanID(m))
      [] m.id = "SET_CHANNELS" -> RpcDone(MT_UtilSetChannels(m))
      [] m.id = "SET_SECLEVEL" -> RpcDone(MT_UtilSetSecLevel(m))
      [] m.id = "SET_PRECFGKEY" -> RpcDone(MT_UtilSetPreCfgKey(m))
      [] m.id = "CALLBACK_SUB_CMD" -> RpcDone(MT_UtilCallbackSub(m))
      [] m.id = "KEY_EVENT" -> RpcDone(MT_UtilKeyEvent(m))
      [] m.id = "TIME_ALIVE" -> RpcDone(MT_UtilTimeAlive(m))
      [] m.id = "LED_CONTROL" -> RpcDone(MT_UtilLedControl(m))
      [] m.id = "TEST_LOOPBACK" -> RpcDone(AnswersWith(m, m.len, m.octets))
      [] m.id = "DATA_REQ" -> RpcDone(MT_UtilDataReq(m))
      [] m.id = "SRC_MATCH_ENABLE" -> RpcDone(MT_UtilSrcMatchEnable(m))
      [] m.id = "SRC_MATCH_ADD_ENTRY" -> RpcDone(MT_UtilSrcMatchAddEntry(m))
      [] m.id = "SRC_MATCH_DEL_ENTRY" -> RpcDone(MT_UtilSrcMatchDeleteEntry(m))
      [] m.id = "SRC_MATCH_CHECK_SRC_ADDR" -> RpcDone(MT_UtilSrcMatchCheckSrcAddr(m))
      [] m.id = "SRC_MATCH_ACK_ALL_PENDING" -> RpcDone(MT_UtilSrcMatchAckAllPending(m))
      [] m.id = "SRC_MATCH_CHECK_ALL_PENDING" -> RpcDone(MT_UtilSrcMatchCheckAllPending(m))
      [] m.id = "ADDRMGR_EXT_ADDR_LOOKUP" -> RpcDone(MT_UtilAddrMgrExtAddrLookup(m))
      [] m.id = "ADDRMGR_NWK_ADDR_LOOKUP" -> RpcDone(MT_UtilAddrMgrEntryLookupNwk(m))
      [] m.id = "APSME_LINK_KEY_DATA_GET" -> RpcDone(MT_UtilAPSME_LinkKeyDataGet(m))
      [] m.id = "APSME_LINK_KEY_NV_ID_GET" -> RpcDone(MT_UtilAPSME_LinkKeyNvIdGet(m))
      [] m.id = "ASSOC_COUNT" -> RpcDone(MT_UtilAssocCount(m))
      [] m.id = "ASSOC_FIND_DEVICE" -> RpcDone(MT_UtilAssocFindDevice(m))
      [] m.id = "ASSOC_GET_WITH_ADDRESS" -> RpcDone(MT_UtilAssocGetWithAddress(m))
      [] m.id = "ZCL_KEY_ESTABLISH_INIT_EST" ->
            RpcDone(MT_UtilzclGeneral_KeyEstablish_InitiateKeyEstablishment(m))
      [] m.id = "ZCL_KEY_ESTABLISH_SIGN" -> RpcDone(MT_UtilzclGeneral_KeyEstablishment_ECDSASign(m))
      [] m.id = "SYNC_REQ" -> RpcDone(MT_UtilSync(m))
      [] OTHER -> UnknownCommand

-----------------------------------------------------------------------------
(* The task.                                                               *)

VARIABLES
    queue,      \* messages for the task
    mtEvents,   \* its event flags
    timers,     \* the timers that run for it
    store,      \* long messages and the long request
    mtTold

mtVars == <<queue, mtEvents, timers, store, mtTold>>

MT_AF_EXEC_EVT == "AF_EXEC"
OsalEvents == <<"OSAL_EVENT_0", "OSAL_EVENT_1", "OSAL_EVENT_2", "OSAL_EVENT_3">>
Subsystems == {"SYS", "MAC", "NWK", "AF", "ZDO", "SAPI", "UTIL", "DBG", "APP"}

Idle == [for |-> [id |-> "none"], steps |-> <<>>]

MtInit ==
    /\ queue = <<>> /\ mtEvents = {} /\ timers = {}
    /\ store = Data!EmptyStore /\ mtTold = Idle

-----------------------------------------------------------------------------
(* A list that still holds a block that was freed: whatever happens next   *)
(* reads memory of somebody else, and nothing more is said of it here.     *)

Dangling == \E i \in DOMAIN store.in : store.in[i].freed

\* The table of subsystems; all but AF keep no state of their own.
Processing(m) ==
    CASE m.sys = "SYS" -> MT_SysCommandProcessing(m)
      [] m.sys = "MAC" -> Stack!MT_MacCommandProcessing(m)
      [] m.sys = "NWK" -> Stack!MT_NwkCommandProcessing(m)
      [] m.sys = "AF" -> Data!MT_AfCommandProcessing(m, store)
      [] m.sys = "ZDO" -> Stack!MT_ZdoCommandProcessing(m)
      [] m.sys = "SAPI" -> Data!MT_SapiCommandProcessing(m)
      [] m.sys = "UTIL" -> MT_UtilCommandProcessing(m)
      [] m.sys = "DBG" -> Data!MT_DebugCommandProcessing(m)
      [] m.sys = "APP" -> Data!MT_AppCommandProcessing(m)

AfAfter(m) ==
    IF m.sys = "AF" /\ m.len <= MT_RPC_DATA_MAX THEN Data!MT_AfCommandProcessing(m, store)
    ELSE [s |-> store, starts |-> FALSE]

\* The timers the steps start and stop.
TimersNamed(steps, fn, status) ==
    {OsalEvents[s.fields.timer[1] + 1] :
        s \in {t \in ToSet(steps) : t.is = "call" /\ t.fn = fn /\ status = ZSuccess}}

Serial(m) ==
    \E steps \in {MT_ProcessIncoming(m, Subsystems, Processing)}, after \in {AfAfter(m)} :
        /\ mtTold' = [for |-> m, steps |-> steps]
        /\ store' = after.s
        /\ timers' = (timers \ TimersNamed(steps, "osal_stop_timerEx", m.returns))
                       \cup TimersNamed(steps, "osal_start_timerEx", m.returns)
                       \cup (IF after.starts THEN {MT_AF_EXEC_EVT} ELSE {})

Told1(w, steps) == mtTold' = [for |-> w, steps |-> steps] /\ UNCHANGED <<timers, store>>

MT_ProcessIncomingCommand(msg) ==
    CASE msg.event = "CMD_SERIAL_MSG" -> Serial(msg.m)
      [] msg.event = "CMD_DEBUG_MSG" -> Told1(msg.m, Data!MT_ProcessDebugMsg(msg.m))
      [] msg.event = "CMD_DEBUG_STR" -> Told1(msg.m, Data!MT_ProcessDebugStr(msg.m))
      [] msg.event = "MT_SYS_APP_RSP_MSG" -> Told1(msg.m, MTProcessAppRspMsg(msg.m))
      [] msg.event = "ZCL_KEY_ESTABLISH_IND" -> Told1(msg.m, MT_UtilKeyEstablishInd(msg.m))
      [] msg.event = "ZDO_STATE_CHANGE" -> Told1(msg.m, Stack!MT_ZdoStateChangeCB(msg.m))

-----------------------------------------------------------------------------
(* MT_ProcessEvent: messages before the store's clock before the host's    *)
(* timers, one kind in a call.                                             *)

\* The loop takes every message there is; the flag goes with the last one.
Message ==
    /\ queue # <<>> /\ "SYS" \in mtEvents /\ ~Dangling
    /\ MT_ProcessIncomingCommand(Head(queue))
    /\ queue' = Tail(queue)
    /\ mtEvents' = IF Len(queue) = 1 THEN mtEvents \ {"SYS"} ELSE mtEvents

AfExec ==
    /\ "SYS" \notin mtEvents /\ MT_AF_EXEC_EVT \in mtEvents /\ ~Dangling
    /\ LET a == Data!MT_AfExec(store) IN
       /\ store' = a.s /\ timers' = IF a.starts THEN timers \cup {MT_AF_EXEC_EVT} ELSE timers
    /\ mtEvents' = mtEvents \ {MT_AF_EXEC_EVT} /\ mtTold' = Idle
    /\ UNCHANGED queue

\* All of the host's timers whose events are set are told in one call.
OsalTimers ==
    LET expired == SelectSeq(<<0, 1, 2, 3>>, LAMBDA i : OsalEvents[i + 1] \in mtEvents) IN
    /\ mtEvents \cap {"SYS", MT_AF_EXEC_EVT} = {} /\ expired # <<>> /\ ~Dangling
    /\ mtTold' = [for |-> [id |-> "timers", expired |-> expired],
                  steps |-> FlattenSeq([i \in DOMAIN expired |->
                      MT_SysOsalTimerExpired([room |-> TRUE, timer |-> expired[i]])])]
    /\ mtEvents' = mtEvents \ ToSet(OsalEvents)
    /\ UNCHANGED <<queue, timers, store>>

-----------------------------------------------------------------------------
(* What meets the task.                                                    *)

Posted(msg) ==
    /\ queue' = Append(queue, msg) /\ mtEvents' = mtEvents \cup {"SYS"}
    /\ mtTold' = Idle
    /\ UNCHANGED <<timers, store>>

Expires(t) ==
    /\ t \in timers
    /\ timers' = timers \ {t} /\ mtEvents' = mtEvents \cup {t} /\ mtTold' = Idle
    /\ UNCHANGED <<queue, store>>

\* A message for an end point of the host comes in.
MT_AfIncomingMsg(w) ==
    LET a == Data!MT_AfIncomingMsg(w, store) IN
    /\ ~Dangling
    /\ mtTold' = [for |-> w, steps |-> a.steps]
    /\ store' = a.s
    /\ timers' = IF a.starts THEN timers \cup {MT_AF_EXEC_EVT} ELSE timers
    /\ UNCHANGED <<queue, mtEvents>>

\* Any other report of the stack.
Reported(w, steps) ==
    /\ mtTold' = [for |-> w, steps |-> steps]
    /\ UNCHANGED <<queue, mtEvents, timers, store>>

Runs == Message \/ AfExec \/ OsalTimers
-----------------------------------------------------------------------------
(* The host and the stack about the task.                                  *)

F == INSTANCE ZdpFrames

VARIABLES
    which,      \* what this run is about
    left,       \* what may still arrive
    pieces      \* what the host handed over of the long request

hostVars == <<mtVars, which, left, pieces>>

-----------------------------------------------------------------------------
(* Requests.                                                               *)

Ramp(n) == [i \in 1 .. n |-> i % 251]

ItemSize(sys, id) ==
    CASE id \in {"GET_EXTADDR", "ADDRMGR_EXT_ADDR_LOOKUP", "ADDRMGR_NWK_ADDR_LOOKUP", "GET_DEV_INFO_REQ"} -> 8
      [] id \in {"RANDOM", "ADC_READ", "APSME_LINK_KEY_NV_ID_GET", "ASSOC_COUNT"} -> 2
      [] id = "GET_DEVICE_INFO" -> 12
      [] id = "TIME_ALIVE" -> 4
      [] id = "APSME_LINK_KEY_DATA_GET" -> 24
      [] id \in {"ASSOC_FIND_DEVICE", "ASSOC_GET_WITH_ADDRESS"} -> 18
      [] id = "ZCL_KEY_ESTABLISH_SIGN" -> 42
      [] id = "GET_LINK_KEY" -> 16
      [] sys = "MAC" -> 15
      [] sys = "NWK" -> 10
      [] OTHER -> 6

NvItems == ("EXTADDR" :> Ramp(8)) @@ ("CHANLIST" :> <<0, 248, 255, 7>>) @@ ("PANID" :> <<1, 2>>)
             @@ ("SECURITY_LEVEL" :> <<5>>) @@ ("PRECFGKEY" :> Ramp(16))

Fine(sys, id) ==
    [room |-> TRUE, memory |-> TRUE, returns |-> 0, writes |-> 0, item |-> Ramp(ItemSize(sys, id)),
     build |-> TRUE, router |-> TRUE, coordinator |-> TRUE, known |-> {1}, registered |-> FALSE,
     self |-> <<0, 0>>, devices |-> <<1, 1, 2, 2>>, nv |-> NvItems]

Circumstances(sys, id) ==
    LET f == Fine(sys, id) IN
    {f, [f EXCEPT !.memory = FALSE], [f EXCEPT !.room = FALSE],
     [f EXCEPT !.returns = 1, !.writes = 1, !.item = NotHere, !.known = {3}, !.nv.PANID = NotHere],
     [f EXCEPT !.build = FALSE, !.router = FALSE, !.coordinator = FALSE, !.registered = TRUE]}

Payloads == {Ramp(60), Zeros(60), Ones(60), <<105, 0, 0>> \o Ramp(40), <<1, 0, 3>> \o Ramp(40)}

Ids ==
    [SYS |-> {"RESET_REQ", "PING", "VERSION", "SET_EXTADDR", "GET_EXTADDR", "OSAL_NV_READ", "OSAL_NV_WRITE",
              "OSAL_START_TIMER", "OSAL_STOP_TIMER", "RANDOM", "ADC_READ", "GPIO", "STACK_TUNE"},
     MAC |-> {"RESET_REQ", "INIT", "START_REQ", "SYNC_REQ", "DATA_REQ", "ASSOCIATE_REQ", "DISASSOCIATE_REQ",
              "GET_REQ", "SET_REQ", "GTS_REQ", "SCAN_REQ", "POLL_REQ", "PURGE_REQ", "SET_RX_GAIN_REQ",
              "ASSOCIATE_RSP", "ORPHAN_RSP"},
     NWK |-> {"INIT", "NLDE_DATA_REQ", "NETWORK_FORMATION_REQ", "PERMIT_JOINING_REQ", "JOIN_REQ", "LEAVE_REQ",
              "RESET_REQ", "GET_REQ", "SET_REQ", "NETWORK_DISCOVERY_REQ", "ROUTE_DISCOVERY_REQ",
              "DIRECT_JOIN_REQ", "ORPHAN_JOIN_REQ", "START_ROUTER_REQ"},
     AF |-> {"REGISTER", "DATA_REQUEST", "DATA_REQUEST_EXT", "DATA_RETRIEVE", "DATA_STORE",
             "DATA_REQUEST_SRCRTG", "INTER_PAN_CTL"},
     ZDO |-> {"NWK_ADDR_REQ", "IEEE_ADDR_REQ", "NODE_DESC_REQ", "POWER_DESC_REQ", "SIMPLE_DESC_REQ",
              "ACTIVE_EP_REQ", "MATCH_DESC_REQ", "COMPLEX_DESC_REQ", "USER_DESC_REQ", "END_DEV_ANNCE",
              "USER_DESC_SET", "SERVICE_DISC_REQ", "END_DEV_BIND_REQ", "BIND_REQ", "UNBIND_REQ",
              "SET_LINK_KEY", "REMOVE_LINK_KEY", "GET_LINK_KEY", "MGMT_NWKDISC_REQ", "MGMT_LQI_REQ",
              "MGMT_RTG_REQ", "MGMT_BIND_REQ", "MGMT_LEAVE_REQ", "MGMT_DIRECT_JOIN_REQ",
              "MGMT_PERMIT_JOIN_REQ", "MGMT_NWK_UPDATE_REQ", "STARTUP_FROM_APP", "MSG_CB_REGISTER",
              "MSG_CB_REMOVE"},
     SAPI |-> {"START_REQ", "BIND_DEVICE_REQ", "ALLOW_BIND_REQ", "SEND_DATA_REQ", "READ_CFG_REQ",
               "WRITE_CFG_REQ", "GET_DEV_INFO_REQ", "FIND_DEV_REQ", "PMT_JOIN_REQ", "SYS_RESET",
               "APP_REGISTER_REQ"},
     UTIL |-> {"GET_DEVICE_INFO", "GET_NV_INFO", "SET_PANID", "SET_CHANNELS", "SET_SECLEVEL", "SET_PRECFGKEY",
               "CALLBACK_SUB_CMD", "KEY_EVENT", "TIME_ALIVE", "LED_CONTROL", "TEST_LOOPBACK", "DATA_REQ",
               "SRC_MATCH_ENABLE", "SRC_MATCH_ADD_ENTRY", "SRC_MATCH_DEL_ENTRY", "SRC_MATCH_CHECK_SRC_ADDR",
               "SRC_MATCH_ACK_ALL_PENDING", "SRC_MATCH_CHECK_ALL_PENDING", "ADDRMGR_EXT_ADDR_LOOKUP",
               "ADDRMGR_NWK_ADDR_LOOKUP", "APSME_LINK_KEY_DATA_GET", "APSME_LINK_KEY_NV_ID_GET",
               "ASSOC_COUNT", "ASSOC_FIND_DEVICE", "ASSOC_GET_WITH_ADDRESS", "ZCL_KEY_ESTABLISH_INIT_EST",
               "ZCL_KEY_ESTABLISH_SIGN", "SYNC_REQ"},
     DBG |-> {"SET_THRESHOLD"},
     APP |-> {"MSG", "USER_TEST"}]

KnownId(m) == m.sys \in Subsystems /\ m.id \in Ids[m.sys]
                /\ (m.id \in {"DATA_REQUEST_SRCRTG", "INTER_PAN_CTL"} => m.build)

Request(type, sys, id, octets, c) ==
    [type |-> type, sys |-> sys, id |-> id, octets |-> octets, len |-> Len(octets)] @@ c

Catalogue ==
    UNION {UNION {{Request(type, sys, id, octets, c) :
                      type \in {"SREQ", "AREQ"}, octets \in Payloads, c \in Circumstances(sys, id)} :
                  id \in Ids[sys] \cup {"NONE"}} : sys \in Subsystems}
      \cup {Request(type, "RES1", "NONE", Ramp(60), Fine("RES1", "NONE")) : type \in {"SREQ", "AREQ"}}
      \cup {Request("SREQ", "UTIL", "TEST_LOOPBACK", Ramp(n), Fine("UTIL", "TEST_LOOPBACK")) : n \in {250, 251}}
      \cup {[Request("SREQ", sys, id, Ramp(60), Fine(sys, id)) EXCEPT !.len = 0] :
              sys \in {"APP", "SAPI"}, id \in {"MSG", "APP_REGISTER_REQ"}}

\* What the host wants the device to ask of a peer, in numbers, and how it
\* writes it down.  The device's own extended address is 1.
HostLayouts ==
    [END_DEV_ANNCE |-> <<U16("aoi"), IEEE("ieee"), U8("cap")>>,
     END_DEV_BIND_REQ |-> <<U16("dst"), U16("aoi"), IEEE("ieee"), U8("ep"), U16("profile"),
                            Counted("in", 2), Counted("out", 2)>>,
     BIND_REQ |-> <<U16("dst"), IEEE("ieee"), U8("ep"), U16("cluster"), U8("mode"), Bytes("to", 8), U8("toEp")>>,
     UNBIND_REQ |-> <<U16("dst"), IEEE("ieee"), U8("ep"), U16("cluster"), U8("mode"), Bytes("to", 8), U8("toEp")>>]

Itself == 1
Wants ==
    [END_DEV_ANNCE |-> {[aoi |-> 4660, ieee |-> Itself, cap |-> c] : c \in {0, 142}},
     END_DEV_BIND_REQ |-> {[dst |-> 0, aoi |-> 4660, ieee |-> Itself, ep |-> 8, profile |-> 260, in |-> in, out |-> out] :
                              in \in {<<>>, <<6>>, <<6, 768>>}, out \in {<<>>, <<513>>}},
     BIND_REQ |-> {[dst |-> 4660, ieee |-> 2, ep |-> 8, cluster |-> 1282, mode |-> F!Addr64Bit, to |-> 3, toEp |-> 9],
                   [dst |-> 4660, ieee |-> 2, ep |-> 8, cluster |-> 6, mode |-> F!AddrGroup, to |-> 515, toEp |-> 0]},
     UNBIND_REQ |-> {[dst |-> 4660, ieee |-> 2, ep |-> 8, cluster |-> 6, mode |-> F!AddrGroup, to |-> 515, toEp |-> 0]}]

InOctets(q) ==
    [f \in DOMAIN q |->
        CASE f = "ieee" -> F!ExtOctets(q[f])
          [] f = "to" -> IF q.mode = F!AddrGroup THEN F!Word(q.to) \o Zeros(6) ELSE F!ExtOctets(q.to)
          [] f \in {"in", "out"} -> F!Words(q[f])
          [] f \in {"ep", "toEp", "mode", "cap"} -> <<q[f]>>
          [] OTHER -> F!Word(q[f])]

Wanted ==
    UNION {{[wants |-> q] @@ Request("SREQ", "ZDO", id, Written(HostLayouts[id], InOctets(q)), Fine("ZDO", id)) :
               q \in Wants[id]} : id \in DOMAIN Wants}

-----------------------------------------------------------------------------
(* Reports.                                                                *)

W == [room |-> TRUE, memory |-> 2, status |-> 7, ep |-> 1, seq |-> 9, octets |-> Ramp(20), interPan |-> FALSE,
      mode |-> 2, ieee |-> Ramp(8), src |-> <<11, 12>>, srcEp |-> 3, build |-> TRUE, pan |-> <<13, 14>>,
      pan2 |-> <<15, 16>>, group |-> <<0, 0>>, clusterId |-> <<6, 0>>, broadcast |-> 0, lqi |-> 99, security |-> 0,
      stamp |-> <<1, 2, 3, 4>>, stamp2 |-> <<5, 6>>, cluster |-> "Node_Desc_rsp", answer |-> TRUE,
      nwkAddr |-> <<17, 18>>, devs |-> <<1, 1, 2, 2>>, start |-> 0, cap |-> 142, relays |-> <<1, 1>>,
      macDst |-> <<19, 20>>, handle |-> 5, networks |-> <<Ramp(9), Ramp(9)>>, channel |-> 11, page |-> 0,
      coord |-> [mode |-> 2, addr |-> <<21, 22>>], to |-> [mode |-> 3, addr |-> Ramp(8)], superframe |-> <<1, 2>>,
      gts |-> 0, pend |-> 17, pending |-> Ramp(10), correlation |-> 100, rssi |-> 200, reason |-> 2,
      results |-> Ramp(32), scan |-> Ramp(7), component |-> 1, severity |-> 2, params |-> <<1, 0, 2, 0>>,
      timer |-> 2, task |-> 3, event |-> 1, wait |-> 4, suite |-> <<1, 0>>, id |-> "w"]

Happens ==
    {W, [W EXCEPT !.room = FALSE], [W EXCEPT !.memory = 0],
     [W EXCEPT !.octets = Ramp(4), !.devs = <<>>, !.ieee = NotHere, !.networks = <<>>, !.results = <<1, 2>>,
               !.coord = [mode |-> 0, addr |-> Ramp(8)], !.cap = 2, !.cluster = "Simple_Desc_rsp"],
     [W EXCEPT !.octets = Ramp(150), !.cluster = "IEEE_addr_rsp", !.coord = [mode |-> 3, addr |-> Ramp(8)]],
     [W EXCEPT !.cluster = "Device_annce", !.answer = FALSE],
     [W EXCEPT !.answer = FALSE, !.pending = Ramp(40), !.pend = 119]}

Reports(w) ==
    LET ieee == IF w.ieee = NotHere THEN Ramp(8) ELSE w.ieee
        v == [w EXCEPT !.ieee = ieee]
    IN {MT_SysResetInd(w), Stack!MT_ZdoDirectCB(v), Stack!MT_ZdoSrcRtgCB(w), Stack!MT_ZdoSendMsgCB(w),
        Data!MT_AfDataConfirm(w), Stack!nwk_MTCallbackSubDataConfirm(w), Stack!nwk_MTCallbackSubDataIndication(w),
        Stack!nwk_MTCallbackSubInitCoordConfirm(w), Stack!nwk_MTCallbackSubStartRouterConfirm(w),
        Stack!nwk_MTCallbackSubJoinConfirm(v), Stack!nwk_MTCallbackSubNetworkDiscoveryConfirm(w),
        Stack!nwk_MTCallbackSubJoinIndication(v), Stack!nwk_MTCallbackSubLeaveConfirm(v),
        Stack!nwk_MTCallbackSubLeaveIndication(w), Stack!nwk_MTCallbackSubSyncIndication(w),
        Stack!nwk_MTCallbackSubPollConfirm(w), Stack!nwk_MTCallbackSubNwkSyncLossInd(w),
        Stack!nwk_MTCallbackSubNwkAssociateInd(v), Stack!nwk_MTCallbackSubNwkAssociateCnf(w),
        Stack!nwk_MTCallbackSubNwkBeaconNotifyInd(w), Stack!nwk_MTCallbackSubNwkDataCnf(w),
        Stack!nwk_MTCallbackSubNwkDataInd(w), Stack!nwk_MTCallbackSubNwkDisassociateInd(v),
        Stack!nwk_MTCallbackSubNwkDisassociateCnf(w), Stack!nwk_MTCallbackSubNwkOrphanInd(v),
        Stack!nwk_MTCallbackSubNwkPollCnf(w), Stack!nwk_MTCallbackSubNwkScanCnf(w),
        Stack!nwk_MTCallbackSubCommStatusInd(w), Stack!nwk_MTCallbackSubNwkStartCnf(w),
        Stack!nwk_MTCallbackSubNwkRxEnableCnf(w), Stack!nwk_MTCallbackSubNwkPurgeCnf(w),
        Data!zb_MTCallbackStartConfirm(w), Data!zb_MTCallbackSendDataConfirm(w), Data!zb_MTCallbackBindConfirm(w),
        Data!zb_MTCallbackAllowBindConfirm(w), Data!zb_MTCallbackFindDeviceConfirm(v),
        Data!zb_MTCallbackReceiveDataIndication(w)}

ForTheTask == {"CMD_DEBUG_MSG", "CMD_DEBUG_STR", "MT_SYS_APP_RSP_MSG", "ZCL_KEY_ESTABLISH_IND", "ZDO_STATE_CHANGE"}

-----------------------------------------------------------------------------
(* The host that uses the store.                                           *)

LongRequest ==
    Written(<<U8("mode"), Bytes("addr", 8), U8("ep"), U16("pan"), U8("srcEp"), U16("cluster"), U8("trans"),
              U8("options"), U8("radius"), U16("len")>>,
            [mode |-> <<2>>, addr |-> Zeros(8), ep |-> <<1>>, pan |-> <<0, 0>>, srcEp |-> <<1>>, cluster |-> <<6, 0>>,
             trans |-> <<1>>, options |-> <<0>>, radius |-> <<30>>, len |-> <<240, 0>>])

Piece(index, n, octet) == <<index % 256, index \div 256, n>> \o [i \in 1 .. n |-> octet]
Fetch(stamp, n) == <<stamp, 2, 3, 4, 0, 0, n>>

Using ==
    {Request("SREQ", "AF", "DATA_REQUEST_EXT", LongRequest, Fine("AF", "DATA_REQUEST_EXT")),
     Request("SREQ", "SYS", "OSAL_START_TIMER", <<1, 10, 0>>, Fine("SYS", "OSAL_START_TIMER")),
     Request("SREQ", "SYS", "OSAL_STOP_TIMER", <<1>>, Fine("SYS", "OSAL_STOP_TIMER"))}
      \cup {Request("SREQ", "AF", "DATA_STORE", p, Fine("AF", "DATA_STORE")) :
               p \in {Piece(0, 238, 1), Piece(237, 3, 2), Piece(0, 0, 0)}}
      \cup {Request("SREQ", "AF", "DATA_RETRIEVE", Fetch(stamp, n), Fine("AF", "DATA_RETRIEVE")) :
               stamp \in {1, 2}, n \in {0, 3}}

Arriving == {[W EXCEPT !.octets = Ramp(240), !.stamp[1] = t] : t \in {1, 2}}

-----------------------------------------------------------------------------

Serving(msgs) == \E m \in msgs : Posted([event |-> "CMD_SERIAL_MSG", m |-> m])

Asking == which = "catalogue" /\ Serving(Catalogue \cup Wanted)
Hearing ==
    /\ which = "catalogue"
    /\ \E w \in Happens :
         \/ \E steps \in Reports(w) : Reported(w, steps)
         \/ MT_AfIncomingMsg(w)
         \/ MT_AfIncomingMsg([w EXCEPT !.mode = 3, !.ieee = Ramp(8)])
         \/ MT_AfIncomingMsg([w EXCEPT !.interPan = TRUE, !.build = FALSE])
Hinting == which = "catalogue" /\ \E w \in Happens, e \in ForTheTask : Posted([event |-> e, m |-> w])
Long == which = "store" /\ (Serving(Using) \/ \E w \in Arriving : MT_AfIncomingMsg(w))

HostInit ==
    /\ MtInit /\ pieces = <<>>
    /\ \/ which = "catalogue" /\ left = 1
       \/ which = "store" /\ left = Budget

Arrives ==
    /\ left > 0 /\ Len(queue) < 2 /\ left' = left - 1
    /\ (Asking \/ Hearing \/ Hinting \/ Long)
    /\ UNCHANGED <<which, pieces>>

PiecesAfter ==
    LET m == mtTold'.for
        done(id) == m.id = id /\ mtTold'.steps # <<>>
    IN  IF done("DATA_REQUEST_EXT") /\ store.req # store'.req THEN <<>>
        ELSE IF done("DATA_STORE") /\ m.octets[3] > 0 /\ store.req # Data!NoRequest
        THEN Append(pieces, [index |-> Word16(m.octets), octets |-> Slice(m.octets, 4, m.octets[3])])
        ELSE pieces

Works ==
    /\ Message /\ pieces' = IF which = "store" THEN PiecesAfter ELSE pieces
    /\ UNCHANGED <<which, left>>
Ticks == AfExec /\ UNCHANGED <<which, left, pieces>>
Tells == OsalTimers /\ UNCHANGED <<which, left, pieces>>
Elapses(t) == Expires(t) /\ UNCHANGED <<which, left, pieces>>
Timers == {MT_AF_EXEC_EVT} \cup ToSet(OsalEvents)

HostNext == Arrives \/ Works \/ Ticks \/ Tells \/ \E t \in Timers : Elapses(t)

\* A step that takes a message is a step of Works, and the two are enabled
\* together.
Takes == queue # <<>> /\ "SYS" \in mtEvents /\ ~Dangling /\ queue' = Tail(queue)

\* The task loop runs what is pending, and a timer that runs ends.
HostSpec ==
    /\ HostInit /\ [][HostNext]_hostVars
    /\ WF_queue(Takes) /\ WF_hostVars(Ticks) /\ WF_hostVars(Tells)
    /\ WF_hostVars(Elapses(MT_AF_EXEC_EVT))

-----------------------------------------------------------------------------
(* Properties.                                                             *)

ToHost(steps) == SelectSeq(steps, LAMBDA s : s.is = "frame")
Served == "type" \in DOMAIN mtTold.for

\* Commands that the stack carries out without a word, always or when there
\* is no memory for the answer.
NeverAnswers == {<<"SYS", "RESET_REQ">>, <<"NWK", "INIT">>, <<"MAC", "GTS_REQ">>, <<"SAPI", "SYS_RESET">>}
NeedMemory == {<<"ZDO", "GET_LINK_KEY">>, <<"SYS", "OSAL_NV_READ">>, <<"UTIL", "GET_DEVICE_INFO">>,
               <<"UTIL", "GET_NV_INFO">>, <<"MAC", "GET_REQ">>, <<"SAPI", "READ_CFG_REQ">>,
               <<"SAPI", "GET_DEV_INFO_REQ">>}
Silent(m) ==
    \/ ~m.room \/ <<m.sys, m.id>> \in NeverAnswers
    \/ ~m.memory /\ <<m.sys, m.id>> \in NeedMemory
    \/ ~m.build /\ m.id = "ZCL_KEY_ESTABLISH_SIGN"

IsAnswer(frame, m) ==
    /\ frame.type = (IF m.id = "SYNC_REQ" /\ m.sys = "UTIL" THEN "AREQ" ELSE "SRSP")
    /\ IF KnownId(m) /\ m.len <= MT_RPC_DATA_MAX THEN frame.sys = m.sys /\ frame.id = m.id
       ELSE frame.sys = "RES0" /\ SubSeq(frame.octets, 2, 3) = <<m.sys, m.id>>

\* A host that waits for an answer gets exactly one, and it is the answer to
\* its own command: of the subsystem and the id it asked for, or an error
\* that names both.  A request that cannot be served and wants no answer is
\* told nothing.  Each of some 130 handlers builds its answer on its own, on
\* every path (MT_TASK.c:182 to the subsystem's handler and back to
\* MT_ProcessIncoming, MT.c:307-346).
AnsweredOnce ==
    Served =>
        LET m == mtTold.for
            frames == ToHost(mtTold.steps)
            known == KnownId(m) /\ m.len <= MT_RPC_DATA_MAX
        IN  IF known /\ Silent(m)
            THEN \A i \in DOMAIN frames : m.sys = "SYS" /\ IsAnswer(frames[i], m)
            ELSE IF m.type = "SREQ" /\ m.room THEN Len(frames) = 1 /\ IsAnswer(frames[1], m)
            ELSE known \/ frames = <<>>

\* Octets that the code does send without ever having written them.
Leaks(m, frame) ==
    \/ frame.id \in {"ADDRMGR_NWK_ADDR_LOOKUP", "APSME_LINK_KEY_DATA_GET", "ASSOC_FIND_DEVICE",
                     "ASSOC_GET_WITH_ADDRESS", "GET_DEV_INFO_REQ"} /\ (m.item = NotHere \/ ~m.memory)
    \/ <<frame.sys, frame.id>> = <<"NWK", "GET_REQ">> /\ Len(m.item) < 10
    \/ frame.id \in {"NETWORK_DISCOVERY_CONF", "ALLOW_BIND_CNF"}
    \/ frame.id = "SCAN_CNF" /\ Len(m.results) < 32
    \/ frame.id = "INCOMING_MSG_EXT" /\ frame.octets[5] # 3
    \/ frame.id \in {"NWK_addr_rsp", "IEEE_addr_rsp"} /\ m.devs = <<>>
    \/ frame.id = "DATA_RETRIEVE"

\* Every octet that goes to the host was written for it: the lengths, which
\* are counted by hand beside the code that writes (or are constants, as
\* those of MT_MAC.c:66-100), never reach beyond what was written.
WholeAnswers ==
    \A i \in DOMAIN mtTold.steps :
        LET s == mtTold.steps[i] IN
        s.is = "frame" /\ s.sys # "RES0" /\ ~Leaks(mtTold.for, s) => \A k \in DOMAIN s.octets : s.octets[k] # Junk

Numbered(v) == IF Len(v) = 1 THEN v[1] ELSE Word16(v)
NumberedList(v) == [i \in 1 .. Len(v) \div 2 |-> v[2 * i - 1] + 256 * v[2 * i]]

\* What the peer's parser makes of the frame that the device builds from the
\* parameters the handler called the builder with.
Heard(step) ==
    LET p == step.fields IN
    CASE step.fn = "ZDP_DeviceAnnce" ->
            F!ParseDeviceAnnce(F!DeviceAnnce([aoi |-> Numbered(p.aoi), ieee |-> F!ExtAt(p.ieee, 0),
                                              cap |-> p.cap[1]]).octets)
      [] step.fn = "ZDP_EndDeviceBindReq" ->
            F!ParseEndDeviceBindReq(
                F!EndDeviceBindReq([aoi |-> Numbered(p.aoi), ieee |-> Itself, ep |-> p.ep[1],
                                    profile |-> Numbered(p.profile), in |-> NumberedList(p.in),
                                    out |-> NumberedList(p.out)]).octets, TRUE)
      [] OTHER ->
            F!ParseBindUnbindReq(
                F!BindUnbindReq([ieee |-> F!ExtAt(p.ieee, 0), ep |-> p.ep[1], cluster |-> Numbered(p.cluster),
                                 mode |-> p.mode[1],
                                 dst |-> IF p.mode[1] = F!Addr64Bit THEN F!ExtAt(p.to, 0) ELSE Word16(p.to),
                                 dstEp |-> p.toEp[1]]).octets)

\* What the host wants a peer to be told is what the peer's parser hears:
\* through the fields the handler picks out of the host's frame, the
\* parameters it passes on, and the frame that is built of them.  The three
\* layouts are written in three places and differ (MT_ZDO.c:819-884 steps
\* over an address that the over-the-air frame has).
PeerHears ==
    Served /\ "wants" \in DOMAIN mtTold.for =>
        LET q == mtTold.for.wants
            heard == Heard(mtTold.steps[1])
            same(f) == f \in DOMAIN q => heard[f] = q[f]
        IN  /\ mtTold.steps[1].is = "call"
            /\ \A f \in DOMAIN heard \ {"dst", "dstEp"} : same(f)
            /\ "to" \in DOMAIN q => heard.dst = q.to /\ heard.dstEp = q.toEp

\* The message that goes out is the pieces the host stored since its
\* request, each where it belongs, and a piece over another replaces it: also
\* when a request before it ran out of time with pieces of its own
\* (MT_AF.c:317-438, 876-906 and 171-215).
PiecesMakeTheMessage ==
    Served /\ which = "store" /\ mtTold.for.id = "DATA_STORE" /\ mtTold.steps # <<>>
      /\ Head(mtTold.steps).is = "call" =>
        LET data == Head(mtTold.steps).fields.data
            covers(i, k) == k \in pieces[i].index + 1 .. pieces[i].index + Len(pieces[i].octets)
        IN  \A k \in DOMAIN data :
              LET by == {i \in DOMAIN pieces : covers(i, k)} IN
              data[k] = IF by = {} THEN Junk
                        ELSE pieces[Max(by)].octets[k - pieces[Max(by)].index]

\* Whatever the host forgets, the store gives back in the end: nothing it
\* holds stays when host and radio are quiet (MT_AF.c:171-215).
StoreDrains == <>[](Dangling \/ store = Data!EmptyStore)

\* The list of long messages holds no block that was freed.
ListHoldsLiveBlocks == ~Dangling
=============================================================================
