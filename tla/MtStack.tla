------------------------------ MODULE MtStack ------------------------------
(***************************************************************************)
(* The commands of monitor and test that the stack serves, and what the    *)
(* stack reports to the host.                                              *)
(*                                                                         *)
(* MAC: security fields are stepped over and cleared in both directions;   *)
(* an extended address of the host is turned round, one for it is not, but *)
(* for the two that are copied on their own.                               *)
(*                                                                         *)
(* ZDO: requests the host has the device send over the air, and what it is *)
(* told of the answers and of other things the device heard.               *)
(***************************************************************************)
EXTENDS MtRpc

ZMacDenied == 226
ZMacBeaconMSDU == 69
SADDR_MODE_NONE == 0
MT_MAC_BEACON_PAYLOAD_MAX == 16
MT_MAC_PEND_LEN_MAX == 32
MT_MAC_SDU_LEN_MAX == 32
MT_MAC_SCAN_RESULT_LEN_MAX == 32
ZTEST_DEFAULT_PARAM_LEN == 16
MT_MAC_LEN_ASSOCIATE_IND == 20
MT_MAC_LEN_ASSOCIATE_CNF == 14
MT_MAC_LEN_DISASSOCIATE_IND == 20
MT_MAC_LEN_DISASSOCIATE_CNF == 12
MT_MAC_LEN_BEACON_NOTIFY_IND == 99
MT_MAC_LEN_ORPHAN_IND == 19
MT_MAC_LEN_SCAN_CNF == 9
MT_MAC_LEN_SYNC_LOSS_IND == 16
\* Mutant: the octet of the reason is counted twice.
LenCommStatusReasonTwice == 34
MT_MAC_LEN_COMM_STATUS_IND == 33
MT_MAC_LEN_DATA_CNF == 8
MT_MAC_LEN_DATA_IND == 44
MT_MAC_LEN_PURGE_CNF == 2
Addr16Bit == 2
Addr64Bit == 3

MT_MacRevExtCpy(octets) == Reverse(octets)
MT_MacSpi2Sec == Zeros(ZTEST_DEFAULT_SEC_LEN)

MT_MacSpi2Addr(mode, octets) ==
    CASE mode = Addr16Bit -> Slice(octets, 1, 2)
      [] mode = Addr64Bit -> MT_MacRevExtCpy(octets)
      [] OTHER -> Unset(Z_EXTADDR_LEN)

MT_MacAddr2Spi(address) ==
    IF address.mode = Addr16Bit THEN address.addr \o Zeros(Z_EXTADDR_LEN - 2) ELSE address.addr

-----------------------------------------------------------------------------
(* Requests.                                                               *)

Sec == Bytes("sec", ZTEST_DEFAULT_SEC_LEN)

\* What the MAC gets of a request with security fields and an address.
Cleared(fields) == ("sec" :> MT_MacSpi2Sec) @@ fields
Turned(fields) == ("addr" :> MT_MacSpi2Addr(fields.mode[1], fields.addr)) @@ fields
AsksMac(m, fn, fields) == Called(fn, fields) \o RpcAnswers(m, <<m.returns>>)
Denied(m) == RpcAnswers(m, <<ZMacDenied>>)

MT_MacResetReq(m) == Asks(m, "ZMacReset", <<U8("setDefault")>>)
MT_MacInit(m) == Asks(m, "ZMacInit", <<>>)

StartLayout ==
    <<U32("StartTime"), U16("PANID"), U8("LogicalChannel"), U8("ChannelPage"), U8("BeaconOrder"),
      U8("SuperframeOrder"), U8("PANCoordinator"), U8("BatteryLifeExt"), U8("CoordRealignment"),
      Bytes("sec", ZTEST_DEFAULT_SEC_LEN), Bytes("BeaconSec", ZTEST_DEFAULT_SEC_LEN)>>
MT_MacStartReq(m) ==
    IF ~m.router THEN Denied(m)
    ELSE AsksMac(m, "ZMacStartReq", ("BeaconSec" :> MT_MacSpi2Sec) @@ Cleared(Picked(StartLayout, m.octets)))

MT_MacSyncReq(m) ==
    Asks(m, "ZMacSyncReq", <<U8("LogicalChannel"), U8("ChannelPage"), U8("TrackBeacon")>>)

Address == <<U8("mode"), Bytes("addr", Z_EXTADDR_LEN)>>

DataLayout ==
    Address \o <<U16("DstPANId"), U8("SrcAddrMode"), U8("Handle"), U8("TxOptions"), U8("Channel"),
                 U8("Power"), Sec, Counted("msdu", 1)>>
MT_MacDataReq(m) == AsksMac(m, "ZMacDataReq", Cleared(Turned(Picked(DataLayout, m.octets))))

AssociateLayout ==
    <<U8("LogicalChannel"), U8("ChannelPage")>> \o Address \o <<U16("CoordPANId"), U8("CapabilityFlags"), Sec>>
MT_MacAssociateReq(m) == AsksMac(m, "ZMacAssociateReq", Cleared(Turned(Picked(AssociateLayout, m.octets))))

DisassociateLayout == Address \o <<U16("DevicePanId"), U8("reason"), U8("TxIndirect"), Sec>>
MT_MacDisassociateReq(m) ==
    AsksMac(m, "ZMacDisassociateReq", Cleared(Turned(Picked(DisassociateLayout, m.octets))))

MT_MacGetReq(m) ==
    IF ~m.memory THEN <<>>
    ELSE RpcAnswers(m, Slice(<<m.returns>> \o m.item \o Zeros(ZTEST_DEFAULT_PARAM_LEN), 1, ZTEST_DEFAULT_PARAM_LEN))

\* The beacon's payload is copied to a place that stays: the radio reads it later.
MT_MacSetReq(m) ==
    LET beacon == m.octets[1] = ZMacBeaconMSDU
        value == IF beacon THEN Slice(m.octets, 2, MT_MAC_BEACON_PAYLOAD_MAX) ELSE Tail(m.octets)
    IN  Called("ZMacSetReq", [attribute |-> m.octets[1], kept |-> beacon, value |-> value])
          \o RpcAnswers(m, <<m.returns>>)

ScanLayout == <<U32("ScanChannels"), U8("ScanType"), U8("ScanDuration"), U8("ChannelPage"), U8("MaxResults"), Sec>>
MT_MacScanReq(m) == AsksMac(m, "ZMacScanReq", Cleared(Picked(ScanLayout, m.octets)))

MT_MacPollReq(m) ==
    AsksMac(m, "ZMacPollReq", Cleared(Turned(Picked(Address \o <<U16("CoordPanId"), Sec>>, m.octets))))
MT_MacPurgeReq(m) == Asks(m, "ZMacPurgeReq", <<U8("handle")>>)
MT_MacSetRxGainReq(m) ==
    IF m.build THEN Called("HAL_PA_LNA", [high |-> m.octets[1] # 0]) \o RpcAnswers(m, <<ZSuccess>>)
    ELSE RpcAnswers(m, <<ZFailure>>)

ToDevice(layout, m) ==
    LET f == Cleared(Picked(<<IEEE("ieee")>> \o layout \o <<Sec>>, m.octets)) IN
    [f EXCEPT !.ieee = MT_MacRevExtCpy(@)]
MT_MacAssociateRsp(m) ==
    IF m.router THEN AsksMac(m, "ZMacAssociateRsp", ToDevice(<<U16("short"), U8("status")>>, m)) ELSE Denied(m)
MT_MacOrphanRsp(m) == AsksMac(m, "ZMacOrphanRsp", ToDevice(<<U16("short"), U8("member")>>, m))

MT_MacCommandProcessing(m) ==
    CASE m.id = "RESET_REQ" -> RpcDone(MT_MacResetReq(m))
      [] m.id = "INIT" -> RpcDone(MT_MacInit(m))
      [] m.id = "START_REQ" -> RpcDone(MT_MacStartReq(m))
      [] m.id = "SYNC_REQ" -> RpcDone(MT_MacSyncReq(m))
      [] m.id = "DATA_REQ" -> RpcDone(MT_MacDataReq(m))
      [] m.id = "ASSOCIATE_REQ" -> RpcDone(MT_MacAssociateReq(m))
      [] m.id = "DISASSOCIATE_REQ" -> RpcDone(MT_MacDisassociateReq(m))
      [] m.id = "GET_REQ" -> RpcDone(MT_MacGetReq(m))
      [] m.id = "SET_REQ" -> RpcDone(MT_MacSetReq(m))
      [] m.id = "GTS_REQ" -> RpcDone(<<>>)
      [] m.id = "SCAN_REQ" -> RpcDone(MT_MacScanReq(m))
      [] m.id = "POLL_REQ" -> RpcDone(MT_MacPollReq(m))
      [] m.id = "PURGE_REQ" -> RpcDone(MT_MacPurgeReq(m))
      [] m.id = "SET_RX_GAIN_REQ" -> RpcDone(MT_MacSetRxGainReq(m))
      [] m.id = "ASSOCIATE_RSP" -> RpcDone(MT_MacAssociateRsp(m))
      [] m.id = "ORPHAN_RSP" -> RpcDone(MT_MacOrphanRsp(m))
      [] OTHER -> UnknownCommand

-----------------------------------------------------------------------------
(* Reports.  w is the MAC's indication or confirmation.                    *)

\* As many octets are sent as the report is declared to have.
Reports(w, id, len, octets) ==
    IF w.memory = 0 THEN <<>> ELSE TellsHost(w.room, "AREQ", "MAC", id, len, octets)

nwk_MTCallbackSubNwkSyncLossInd(w) ==
    Reports(w, "SYNC_LOSS_IND", MT_MAC_LEN_SYNC_LOSS_IND, <<w.status>> \o w.pan \o <<w.channel, w.page>> \o MT_MacSpi2Sec)

\* The device's address is taken for an address with a mode, which is then
\* the octet behind it: the capabilities.
nwk_MTCallbackSubNwkAssociateInd(w) ==
    Reports(w, "ASSOCIATE_IND", MT_MAC_LEN_ASSOCIATE_IND,
            MT_MacAddr2Spi([mode |-> w.cap, addr |-> IF w.cap = Addr16Bit THEN Slice(w.ieee, 1, 2) ELSE w.ieee])
              \o <<w.cap>> \o MT_MacSpi2Sec)

nwk_MTCallbackSubNwkAssociateCnf(w) ==
    Reports(w, "ASSOCIATE_CNF", MT_MAC_LEN_ASSOCIATE_CNF, <<w.status>> \o w.nwkAddr \o MT_MacSpi2Sec)

PendLen(spec) == 2 * (spec % 8) + 8 * ((spec \div 16) % 8)
Padded(octets, n) == Slice(octets \o Zeros(n), 1, n)

nwk_MTCallbackSubNwkBeaconNotifyInd(w) ==
    Reports(w, "BEACON_NOTIFY_IND", MT_MAC_LEN_BEACON_NOTIFY_IND,
            <<w.seq>> \o w.stamp \o <<w.coord.mode>> \o MT_MacAddr2Spi(w.coord) \o w.pan \o w.superframe
              \o <<w.channel, w.gts, w.lqi, w.security>> \o MT_MacSpi2Sec
              \o <<w.pend>> \o Padded(Slice(w.pending, 1, Min({PendLen(w.pend), Len(w.pending)})), MT_MAC_PEND_LEN_MAX)
              \o <<Len(w.octets)>> \o Padded(w.octets, MT_MAC_SDU_LEN_MAX))

nwk_MTCallbackSubNwkDataCnf(w) == Reports(w, "DATA_CNF", MT_MAC_LEN_DATA_CNF, <<w.status, w.handle>> \o w.stamp \o w.stamp2)

nwk_MTCallbackSubNwkDataInd(w) ==
    LET n == Min({Len(w.octets), ZTEST_DEFAULT_DATA_LEN})
        from == IF w.coord.mode = SADDR_MODE_NONE THEN Zeros(Z_EXTADDR_LEN) ELSE MT_MacAddr2Spi(w.coord)
    IN  Reports(w, "DATA_IND", MT_MAC_LEN_DATA_IND + ZTEST_DEFAULT_DATA_LEN,
                <<w.coord.mode>> \o from \o <<w.to.mode>> \o MT_MacAddr2Spi(w.to) \o w.stamp \o w.stamp2
                  \o w.pan \o w.pan2 \o <<w.lqi, w.correlation, w.rssi, w.seq>> \o MT_MacSpi2Sec
                  \o <<n>> \o Padded(Slice(w.octets, 1, n), ZTEST_DEFAULT_DATA_LEN))

nwk_MTCallbackSubNwkDisassociateInd(w) ==
    Reports(w, "DISASSOCIATE_IND", MT_MAC_LEN_DISASSOCIATE_IND, MT_MacRevExtCpy(w.ieee) \o <<w.reason>> \o MT_MacSpi2Sec)
nwk_MTCallbackSubNwkDisassociateCnf(w) ==
    Reports(w, "DISASSOCIATE_CNF", MT_MAC_LEN_DISASSOCIATE_CNF, <<w.status, w.coord.mode>> \o MT_MacAddr2Spi(w.coord) \o w.pan)
nwk_MTCallbackSubNwkOrphanInd(w) ==
    Reports(w, "ORPHAN_IND", MT_MAC_LEN_ORPHAN_IND, MT_MacRevExtCpy(w.ieee) \o MT_MacSpi2Sec)
nwk_MTCallbackSubNwkPollCnf(w) == Indicates(w, "MAC", "POLL_CNF", <<w.status>>)

\* As many octets as are left over are cleared, from the first result on,
\* and not those behind the results.
nwk_MTCallbackSubNwkScanCnf(w) ==
    LET n == Min({Len(w.results), MT_MAC_SCAN_RESULT_LEN_MAX})
        left == MT_MAC_SCAN_RESULT_LEN_MAX - n
    IN  Reports(w, "SCAN_CNF", MT_MAC_LEN_SCAN_CNF + MT_MAC_SCAN_RESULT_LEN_MAX + 1,
                <<w.status, 0>> \o w.scan \o <<MT_MAC_SCAN_RESULT_LEN_MAX>>
                  \o [i \in 1 .. MT_MAC_SCAN_RESULT_LEN_MAX |-> IF i <= left THEN 0 ELSE At(w.results, i)])

nwk_MTCallbackSubCommStatusInd(w) ==
    Reports(w, "COMM_STATUS_IND", MT_MAC_LEN_COMM_STATUS_IND,
            <<w.status, w.coord.mode>> \o MT_MacAddr2Spi(w.coord) \o <<w.to.mode>> \o MT_MacAddr2Spi(w.to)
              \o w.pan \o <<w.reason>> \o MT_MacSpi2Sec)
nwk_MTCallbackSubNwkStartCnf(w) == Indicates(w, "MAC", "START_CNF", <<w.status>>)
nwk_MTCallbackSubNwkRxEnableCnf(w) == Indicates(w, "MAC", "RX_ENABLE_CNF", <<w.status>>)
nwk_MTCallbackSubNwkPurgeCnf(w) == Reports(w, "PURGE_CNF", MT_MAC_LEN_PURGE_CNF, <<w.status, w.handle>>)

-----------------------------------------------------------------------------
(***************************************************************************)
(* The network layer's commands of monitor and test, and what the network  *)
(* layer reports to the host.                                              *)
(***************************************************************************)

CAPINFO_RCVR_ON_IDLE == 8
ZNwkInvalidParam == 193
SizeOfNetworkDesc == 24

-----------------------------------------------------------------------------
(* Requests.                                                               *)

MT_Nwk_DataRequest(m, f, n) ==
    IF ~m.memory THEN RpcAnswers(m, <<ZMemError>>)
    ELSE Called("NLDE_DataReq", [f EXCEPT !.nsdu = Slice(m.octets, 4, n)]) \o RpcAnswers(m, <<m.returns>>)

\* The data take the room of the longest; the handle is read and not used.
NldeLayout ==
    <<U16("dst"), U8("len"), Bytes("nsdu", ZTEST_DEFAULT_DATA_LEN), U8("handle"), U16("options"),
      U8("secure"), U8("discoverRoute"), U8("radius")>>
MT_NldeDataRequest(m) ==
    LET f == Picked(NldeLayout, m.octets) IN MT_Nwk_DataRequest(m, f, f.len[1])

MT_NlmeNetworkFormationRequest(m) ==
    AsksIf(m.coordinator, m, "NLME_NetworkFormationRequest",
           <<U16("pan"), U32("channels"), U8("duration"), U8("beaconOrder"), U8("superframe"), U8("battery")>>)
MT_NlmePermitJoiningRequest(m) ==
    AsksIf(m.router, m, "NLME_PermitJoiningRequest", <<U8("duration")>>)
MT_NlmeStartRouterRequest(m) ==
    AsksIf(m.router, m, "NLME_StartRouterRequest", <<U8("beaconOrder"), U8("superframe"), U8("battery")>>)

\* The octets behind the parent are read again as capabilities.
MT_NlmeJoinRequest(m) ==
    LET awake == (m.octets[7] \div CAPINFO_RCVR_ON_IDLE) % 2 = 1 IN
    Called("NLME_JoinRequest", Picked(<<U16("pan"), U8("channel"), U8("cap")>>, m.octets))
      \o (IF awake THEN Called("NLME_SetPollRate", <<0>>) \o Called("NLME_SetQueuedPollRate", <<0>>)
                          \o Called("NLME_SetResponseRate", <<0>>)
          ELSE <<>>)
      \o RpcAnswers(m, <<m.returns>>)

\* An address of zeroes means the device itself.
MT_NlmeLeaveRequest(m) ==
    LET ieee == Slice(m.octets, 1, Z_EXTADDR_LEN) IN
    Called("NLME_LeaveReq", [ieee |-> IF ieee = Zeros(Z_EXTADDR_LEN) THEN NotHere ELSE ieee])
      \o RpcAnswers(m, <<m.returns>>)

MT_NlmeResetRequest(m) == Asks(m, "NLME_ResetRequest", <<>>)

\* Ten octets are told of an attribute that may be shorter.
MT_NlmeGetRequest(m) ==
    Called("NLME_GetRequest", Picked(<<U8("attr"), U8("index")>>, m.octets))
      \o RpcAnswers(m, <<m.returns>> \o Slice(m.item, 1, 10))

MT_NlmeSetRequest(m) ==
    Called("NLME_SetRequest", Picked(<<U8("attr"), U8("index"), Rest("value")>>, m.octets))
      \o Called("ZDApp_NVUpdate", <<>>) \o RpcAnswers(m, <<m.returns>>)
MT_NlmeNetworkDiscoveryRequest(m) ==
    Asks(m, "NLME_NetworkDiscoveryRequest", <<U32("channels"), U8("duration")>>)
MT_NlmeRouteDiscoveryRequest(m) ==
    AsksIf(m.router, m, "NLME_RouteDiscoveryRequest", <<U16("dst"), U8("options"), U8("radius")>>)
MT_NlmeDirectJoinRequest(m) ==
    AsksIf(m.router, m, "NLME_DirectJoinRequest", <<IEEE("ieee"), U8("cap")>>)

\* The channels of a list, as the loop over its bits sees them: 1 << i is a
\* 16-bit number, so that bit 15 stands for itself and all above it and no
\* bit above it is ever tested.
Bit(list, i) == (list[1 + (i \div 8)] \div 2^(i % 8)) % 2 = 1
ChannelsSeen(list) ==
    {i \in 0 .. 14 : Bit(list, i)} \cup (IF \E i \in 15 .. 31 : Bit(list, i) THEN {15} ELSE {})

MT_NlmeOrphanJoinRequest(m) ==
    LET f == Picked(<<U32("channels"), U8("duration")>>, m.octets)
        seen == ChannelsSeen(f.channels)
    IN  IF m.router THEN RpcAnswers(m, <<ZUnsupportedMode>>)
        ELSE IF Cardinality(seen) # 1 THEN RpcAnswers(m, <<ZNwkInvalidParam>>)
        ELSE Called("NIB", [channel |-> Max(seen), state |-> "DEV_NWK_ORPHAN"])
               \o Called("NLME_OrphanJoinRequest", f) \o RpcAnswers(m, <<m.returns>>)

MT_NwkCommandProcessing(m) ==
    CASE m.id = "INIT" -> RpcDone(Called("nwk_init", <<>>))
      [] m.id = "NLDE_DATA_REQ" -> RpcDone(MT_NldeDataRequest(m))
      [] m.id = "NETWORK_FORMATION_REQ" -> RpcDone(MT_NlmeNetworkFormationRequest(m))
      [] m.id = "PERMIT_JOINING_REQ" -> RpcDone(MT_NlmePermitJoiningRequest(m))
      [] m.id = "JOIN_REQ" -> RpcDone(MT_NlmeJoinRequest(m))
      [] m.id = "LEAVE_REQ" -> RpcDone(MT_NlmeLeaveRequest(m))
      [] m.id = "RESET_REQ" -> RpcDone(MT_NlmeResetRequest(m))
      [] m.id = "GET_REQ" -> RpcDone(MT_NlmeGetRequest(m))
      [] m.id = "SET_REQ" -> RpcDone(MT_NlmeSetRequest(m))
      [] m.id = "NETWORK_DISCOVERY_REQ" -> RpcDone(MT_NlmeNetworkDiscoveryRequest(m))
      [] m.id = "ROUTE_DISCOVERY_REQ" -> RpcDone(MT_NlmeRouteDiscoveryRequest(m))
      [] m.id = "DIRECT_JOIN_REQ" -> RpcDone(MT_NlmeDirectJoinRequest(m))
      [] m.id = "ORPHAN_JOIN_REQ" -> RpcDone(MT_NlmeOrphanJoinRequest(m))
      [] m.id = "START_ROUTER_REQ" -> RpcDone(MT_NlmeStartRouterRequest(m))
      [] OTHER -> UnknownCommand

-----------------------------------------------------------------------------
(* Reports.                                                                *)

ReportsNwk(w, id, octets) == Indicates(w, "NWK", id, octets)
IfMemory(w, steps) == IF w.memory = 0 THEN <<>> ELSE steps

nwk_MTCallbackSubDataConfirm(w) == ReportsNwk(w, "NLDE_DATA_CONF", <<w.handle, w.status>>)

nwk_MTCallbackSubDataIndication(w) ==
    IfMemory(w, ReportsNwk(w, "NLDE_DATA_IND",
        w.src \o <<Len(w.octets)>> \o Slice(w.octets \o Zeros(ZTEST_DEFAULT_DATA_LEN), 1, ZTEST_DEFAULT_DATA_LEN)
          \o <<w.lqi>>))

nwk_MTCallbackSubInitCoordConfirm(w) == ReportsNwk(w, "NETWORK_FORMATION_CONF", <<w.status>>)
nwk_MTCallbackSubStartRouterConfirm(w) == ReportsNwk(w, "START_ROUTER_CONF", <<w.status>>)
nwk_MTCallbackSubJoinConfirm(w) == ReportsNwk(w, "JOIN_CONF", w.ieee \o w.pan \o <<w.status>>)

\* w.networks is the list of networks, nine octets each; the answer has the
\* room of as many descriptors of the stack.
nwk_MTCallbackSubNetworkDiscoveryConfirm(w) ==
    LET n == Len(w.networks)
        said == <<n>> \o FlattenSeq(w.networks)
    IN  IfMemory(w, ReportsNwk(w, "NETWORK_DISCOVERY_CONF", Slice(said, 1, 1 + n * SizeOfNetworkDesc)))

nwk_MTCallbackSubJoinIndication(w) ==
    IfMemory(w, ReportsNwk(w, "JOIN_IND", w.nwkAddr \o w.ieee \o <<w.cap>>))
nwk_MTCallbackSubLeaveConfirm(w) == IfMemory(w, ReportsNwk(w, "LEAVE_CONF", w.ieee \o <<w.status>>))
nwk_MTCallbackSubLeaveIndication(w) ==
    ReportsNwk(w, "LEAVE_IND", (IF w.ieee = NotHere THEN Zeros(Z_EXTADDR_LEN) ELSE w.ieee) \o <<0>>)
nwk_MTCallbackSubSyncIndication(w) == ReportsNwk(w, "SYNC_IND", <<>>)
nwk_MTCallbackSubPollConfirm(w) == ReportsNwk(w, "POLL_CONF", <<w.status>>)

-----------------------------------------------------------------------------
(* ZDO.                                                                    *)

MTZDO_MAX_MATCH_CLUSTERS == 16
MTZDO_MAX_ED_BIND_CLUSTERS == 15
ZDP_INVALID_REQTYPE == 128
AddrBroadcast == 15

Dst == U16("dst")
Aoi == U16("aoi")

MT_ZdoNWKAddressRequest(m) == Asks(m, "ZDP_NwkAddrReq", <<IEEE("ieee"), U8("type"), U8("start")>>)
MT_ZdoIEEEAddrRequest(m) == Asks(m, "ZDP_IEEEAddrReq", <<Aoi, U8("type"), U8("start")>>)
MT_ZdoNodeDescRequest(m) == Asks(m, "ZDP_NodeDescReq", <<Dst, Aoi>>)
MT_ZdoPowerDescRequest(m) == Asks(m, "ZDP_PowerDescReq", <<Dst, Aoi>>)
MT_ZdoSimpleDescRequest(m) == Asks(m, "ZDP_SimpleDescReq", <<Dst, Aoi, U8("ep")>>)
MT_ZdoActiveEpRequest(m) == Asks(m, "ZDP_ActiveEPReq", <<Dst, Aoi>>)
MT_ZdoComplexDescRequest(m) == Asks(m, "ZDP_ComplexDescReq", <<Dst, Aoi>>)
MT_ZdoUserDescRequest(m) == Asks(m, "ZDP_UserDescReq", <<Dst, Aoi>>)
MT_ZdoEndDevAnnce(m) == Asks(m, "ZDP_DeviceAnnce", <<Aoi, IEEE("ieee"), U8("cap")>>)
MT_ZdoUserDescSet(m) == Asks(m, "ZDP_UserDescSet", <<Dst, Aoi, Counted("desc", 1)>>)
MT_ZdoServiceDiscRequest(m) == Asks(m, "ZDP_ServerDiscReq", <<U16("mask")>>)

\* The lists are copied into arrays of fixed size; one that is too long
\* refuses the request and is not stepped over.
AsksWithin(m, fn, layout, most) ==
    LET fields == Picked(layout, m.octets)
        fits(list) == Len(fields[list]) <= 2 * most
    IN  IF fits("in") /\ fits("out") THEN Asks(m, fn, layout)
        ELSE RpcAnswers(m, <<ZDP_INVALID_REQTYPE>>)

MT_ZdoMatchDescRequest(m) ==
    AsksWithin(m, "ZDP_MatchDescReq",
               <<Dst, Aoi, U16("profile"), Counted("in", 2), Counted("out", 2)>>,
               MTZDO_MAX_MATCH_CLUSTERS)

\* Mutant: the extended address of the device is not stepped over.
MT_ZdoEndDevBindRequestNear(m) ==
    AsksWithin(m, "ZDP_EndDeviceBindReq",
               <<Dst, Aoi, U8("ep"), U16("profile"), Counted("in", 2), Counted("out", 2)>>,
               MTZDO_MAX_ED_BIND_CLUSTERS)

\* The extended address is stepped over: the device puts in its own.
MT_ZdoEndDevBindRequest(m) ==
    AsksWithin(m, "ZDP_EndDeviceBindReq",
               <<Dst, Aoi, IEEE("skipped"), U8("ep"), U16("profile"), Counted("in", 2),
                 Counted("out", 2)>>,
               MTZDO_MAX_ED_BIND_CLUSTERS)

\* A short destination also takes the room of an extended one.
BindLayout ==
    <<Dst, IEEE("ieee"), U8("ep"), U16("cluster"), U8("mode"), IEEE("to"), U8("toEp")>>
MT_ZdoBindRequest(m) == Asks(m, "ZDP_BindReq", BindLayout)
MT_ZdoUnbindRequest(m) == Asks(m, "ZDP_UnbindReq", BindLayout)

MT_ZdoSetLinkKey(m) ==
    Asks(m, "ZDSecMgrAddLinkKey", <<U16("nwkAddr"), IEEE("ieee"), Bytes("key", SEC_KEY_LEN)>>)
MT_ZdoRemoveLinkKey(m) == Asks(m, "ZDSecMgrDeviceRemoveByExtAddr", <<IEEE("ieee")>>)

\* Nothing is answered when there is no memory for the answer.
MT_ZdoGetLinkKey(m) ==
    LET ieee == Slice(m.octets, 1, Z_EXTADDR_LEN) IN
    IF ~m.memory THEN <<>>
    ELSE RpcAnswers(m, IF m.item # NotHere THEN <<ZSuccess>> \o ieee \o m.item
                    ELSE <<m.returns>> \o Ones(Z_EXTADDR_LEN + SEC_KEY_LEN))

MT_ZdoMgmtNwkDiscRequest(m) ==
    Asks(m, "ZDP_MgmtNwkDiscReq", <<Dst, U32("channels"), U8("duration"), U8("start")>>)
MT_ZdoMgmtLqiRequest(m) == Asks(m, "ZDP_MgmtLqiReq", <<Dst, U8("start")>>)
MT_ZdoMgmtRtgRequest(m) == Asks(m, "ZDP_MgmtRtgReq", <<Dst, U8("start")>>)
MT_ZdoMgmtBindRequest(m) == Asks(m, "ZDP_MgmtBindReq", <<Dst, U8("start")>>)
MT_ZdoMgmtLeaveRequest(m) ==
    Asks(m, "ZDP_MgmtLeaveReq", <<Dst, IEEE("ieee"), U8("removeChildren"), U8("rejoin")>>)
MT_ZdoMgmtDirectJoinRequest(m) ==
    Asks(m, "ZDP_MgmtDirectJoinReq", <<Dst, IEEE("ieee"), U8("cap")>>)
MT_ZdoMgmtPermitJoinRequest(m) ==
    Asks(m, "ZDP_MgmtPermitJoinReq", <<Dst, U8("duration"), U8("tcSig")>>)

\* A broadcast is asked of the device itself as well.
MT_ZdoMgmtNwkUpdateRequest(m) ==
    LET layout == <<Dst, U8("mode"), U32("channels"), U8("duration"), U8("count"), U16("manager")>>
        itself == ("dst" :> m.self) @@ Picked(layout, m.octets)
    IN  IF Field(m, layout, "mode") = <<AddrBroadcast>>
        THEN Called("ZDP_MgmtNwkUpdateReq", Picked(layout, m.octets))
               \o Called("ZDP_MgmtNwkUpdateReq", itself) \o RpcAnswers(m, <<m.returns>>)
        ELSE Asks(m, "ZDP_MgmtNwkUpdateReq", layout)

\* These three may also come as requests that want no answer.
IfAsked(m, steps) == IF m.type = "SREQ" THEN steps ELSE <<Head(steps)>>
MT_ZdoStartupFromApp(m) == IfAsked(m, Asks(m, "ZDOInitDevice", <<>>))
MT_ZdoRegisterForZDOMsg(m) == IfAsked(m, Asks(m, "ZDO_RegisterForZDOMsg", <<U16("cluster")>>))
MT_ZdoRemoveRegisteredCB(m) == IfAsked(m, Asks(m, "ZDO_RemoveRegisteredCB", <<U16("cluster")>>))

MT_ZdoCommandProcessing(m) ==
    CASE m.id = "NWK_ADDR_REQ" -> RpcDone(MT_ZdoNWKAddressRequest(m))
      [] m.id = "IEEE_ADDR_REQ" -> RpcDone(MT_ZdoIEEEAddrRequest(m))
      [] m.id = "NODE_DESC_REQ" -> RpcDone(MT_ZdoNodeDescRequest(m))
      [] m.id = "POWER_DESC_REQ" -> RpcDone(MT_ZdoPowerDescRequest(m))
      [] m.id = "SIMPLE_DESC_REQ" -> RpcDone(MT_ZdoSimpleDescRequest(m))
      [] m.id = "ACTIVE_EP_REQ" -> RpcDone(MT_ZdoActiveEpRequest(m))
      [] m.id = "MATCH_DESC_REQ" -> RpcDone(MT_ZdoMatchDescRequest(m))
      [] m.id = "COMPLEX_DESC_REQ" -> RpcDone(MT_ZdoComplexDescRequest(m))
      [] m.id = "USER_DESC_REQ" -> RpcDone(MT_ZdoUserDescRequest(m))
      [] m.id = "END_DEV_ANNCE" -> RpcDone(MT_ZdoEndDevAnnce(m))
      [] m.id = "USER_DESC_SET" -> RpcDone(MT_ZdoUserDescSet(m))
      [] m.id = "SERVICE_DISC_REQ" -> RpcDone(MT_ZdoServiceDiscRequest(m))
      [] m.id = "END_DEV_BIND_REQ" -> RpcDone(MT_ZdoEndDevBindRequest(m))
      [] m.id = "BIND_REQ" -> RpcDone(MT_ZdoBindRequest(m))
      [] m.id = "UNBIND_REQ" -> RpcDone(MT_ZdoUnbindRequest(m))
      [] m.id = "SET_LINK_KEY" -> RpcDone(MT_ZdoSetLinkKey(m))
      [] m.id = "REMOVE_LINK_KEY" -> RpcDone(MT_ZdoRemoveLinkKey(m))
      [] m.id = "GET_LINK_KEY" -> RpcDone(MT_ZdoGetLinkKey(m))
      [] m.id = "MGMT_NWKDISC_REQ" -> RpcDone(MT_ZdoMgmtNwkDiscRequest(m))
      [] m.id = "MGMT_LQI_REQ" -> RpcDone(MT_ZdoMgmtLqiRequest(m))
      [] m.id = "MGMT_RTG_REQ" -> RpcDone(MT_ZdoMgmtRtgRequest(m))
      [] m.id = "MGMT_BIND_REQ" -> RpcDone(MT_ZdoMgmtBindRequest(m))
      [] m.id = "MGMT_LEAVE_REQ" -> RpcDone(MT_ZdoMgmtLeaveRequest(m))
      [] m.id = "MGMT_DIRECT_JOIN_REQ" -> RpcDone(MT_ZdoMgmtDirectJoinRequest(m))
      [] m.id = "MGMT_PERMIT_JOIN_REQ" -> RpcDone(MT_ZdoMgmtPermitJoinRequest(m))
      [] m.id = "MGMT_NWK_UPDATE_REQ" -> RpcDone(MT_ZdoMgmtNwkUpdateRequest(m))
      [] m.id = "STARTUP_FROM_APP" -> RpcDone(MT_ZdoStartupFromApp(m))
      [] m.id = "MSG_CB_REGISTER" -> RpcDone(MT_ZdoRegisterForZDOMsg(m))
      [] m.id = "MSG_CB_REMOVE" -> RpcDone(MT_ZdoRemoveRegisteredCB(m))
      [] OTHER -> UnknownCommand

-----------------------------------------------------------------------------
(* What the device tells the host on its own.  w is what it heard: the     *)
(* cluster, whether it is an answer, its sender and its octets without the *)
(* sequence number.                                                        *)

MT_ZdoStateChangeCB(w) == Indicates(w, "ZDO", "STATE_CHANGE_IND", <<w.status>>)

\* The parsed answer: startIndex was set only when the list is not empty.
MT_ZdoAddrRspCB(w) ==
    Indicates(w, "ZDO", w.cluster,
              <<w.status>> \o w.ieee \o w.nwkAddr
                \o <<IF w.devs = <<>> THEN Junk ELSE w.start, Len(w.devs) \div 2>> \o w.devs)

MT_ZdoEndDevAnnceCB(w) ==
    Indicates(w, "ZDO", "END_DEVICE_ANNCE_IND", w.src \o w.nwkAddr \o w.ieee \o <<w.cap>>)

\* The cases told in a way of their own; a simple descriptor answer without
\* a descriptor is cut to its status.
MT_ZdoHandleExceptions(w) ==
    CASE w.cluster \in {"NWK_addr_rsp", "IEEE_addr_rsp"} -> [handled |-> TRUE, steps |-> MT_ZdoAddrRspCB(w), w |-> w]
      [] w.cluster = "Device_annce" -> [handled |-> TRUE, steps |-> MT_ZdoEndDevAnnceCB(w), w |-> w]
      [] w.cluster = "Simple_Desc_rsp" /\ Len(w.octets) + 1 <= 5 ->
            [handled |-> FALSE, steps |-> <<>>,
             w |-> [w EXCEPT !.cluster = "MtZdoDef_rsp", !.octets = Slice(w.octets, 1, 1)]]
      [] OTHER -> [handled |-> FALSE, steps |-> <<>>, w |-> w]

MT_ZdoDirectCB(w) ==
    LET e == MT_ZdoHandleExceptions(w) IN
    IF e.handled \/ ~w.answer THEN e.steps
    ELSE Indicates(w, "ZDO", e.w.cluster, w.src \o e.w.octets)

MT_ZdoSrcRtgCB(w) ==
    Indicates(w, "ZDO", "SRC_RTG_IND", w.src \o <<Len(w.relays) \div 2>> \o w.relays)

MT_ZdoSendMsgCB(w) ==
    Indicates(w, "ZDO", "MSG_CB_INCOMING",
              w.src \o <<w.broadcast>> \o w.clusterId \o <<w.security, w.seq>> \o w.macDst \o w.octets)
=============================================================================
