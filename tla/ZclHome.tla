------------------------------ MODULE ZclHome ------------------------------
(***************************************************************************)
(* Smart energy (zcl_se.c: simple metering, pricing, messages and load     *)
(* control), colour control (zcl_lighting.c), the thermostat (zcl_hvac.c), *)
(* the protocol tunnels (zcl_pi.c) and security and safety (zcl_ss.c).     *)
(***************************************************************************)
EXTENDS Layouts

Lighting == [MOVE_TO_HUE |-> 0, MOVE_HUE |-> 1, STEP_HUE |-> 2, MOVE_TO_SATURATION |-> 3,
             MOVE_SATURATION |-> 4, STEP_SATURATION |-> 5, MOVE_TO_HUE_AND_SATURATION |-> 6,
             MOVE_TO_COLOR |-> 7, MOVE_COLOR |-> 8, STEP_COLOR |-> 9, MOVE_TO_COLOR_TEMPERATURE |-> 10]
SETPOINT_RAISE_LOWER == 0
Pi == [MATCH_PROTOCOL_ADDR |-> 0, MATCH_PROTOCOL_ADDR_RSP |-> 0, ADVERTISE_PROTOCOL_ADDR |-> 1,
       TRANSFER_NPDU |-> 0, TRANSFER_APDU |-> 0, TRANSFER_APDU_METADATA |-> 1, TRANSFER_METADATA |-> 2]

-----------------------------------------------------------------------------
(* Colour control: every command goes to the server.                       *)

Colour(id, len, layout) == Command("COLOR_CONTROL", id, ToServer, len, layout)

MoveToHue == Colour(Lighting.MOVE_TO_HUE, 4, <<U8("hue"), U8("direction"), U16("transitionTime")>>)
MoveHue == Colour(Lighting.MOVE_HUE, 2, <<U8("moveMode"), U8("rate")>>)
StepHue == Colour(Lighting.STEP_HUE, 3, <<U8("stepMode"), U8("stepSize"), U8("transitionTime")>>)
MoveToSaturation == Colour(Lighting.MOVE_TO_SATURATION, 3, <<U8("saturation"), U16("transitionTime")>>)
MoveSaturation == Colour(Lighting.MOVE_SATURATION, 2, <<U8("moveMode"), U8("rate")>>)
StepSaturation == Colour(Lighting.STEP_SATURATION, 3, <<U8("stepMode"), U8("stepSize"), U8("transitionTime")>>)
MoveToHueAndSaturation == Colour(Lighting.MOVE_TO_HUE_AND_SATURATION, 4,
    <<U8("hue"), U8("saturation"), U16("transitionTime")>>)
MoveToColor == Colour(Lighting.MOVE_TO_COLOR, 6, <<U16("colorX"), U16("colorY"), U16("transitionTime")>>)
MoveColor == Colour(Lighting.MOVE_COLOR, 4, <<U16("rateX"), U16("rateY")>>)
StepColor == Colour(Lighting.STEP_COLOR, 6, <<U16("stepX"), U16("stepY"), U16("transitionTime")>>)
MoveToColorTemperature == Colour(Lighting.MOVE_TO_COLOR_TEMPERATURE, 4,
    <<U16("colorTemperature"), U16("transitionTime")>>)

InMoveToHue(m) == Handed(m, "MoveToHue", <<U8("hue"), U8("direction"), U16("transitionTime")>>, m.returns)

\* A rate of 0 is answered here, with a default response of its own, before the callback is looked for.
AnswersItself == [Refused(CMD_HAS_RSP) EXCEPT !.callback = "itself"]
UnlessRate0(m, callback) ==
    LET layout == <<U8("moveMode"), U8("rate")>>
    IN  IF Picked(layout, m.octets).rate = <<0>> THEN AnswersItself ELSE Handed(m, callback, layout, m.returns)

InMoveHue(m) == UnlessRate0(m, "MoveHue")
InStepHue(m) == Handed(m, "StepHue", <<U8("stepMode"), U8("stepSize"), U8("transitionTime")>>, m.returns)
InMoveToSaturation(m) ==
    Handed(m, "MoveToSaturation", <<U8("saturation"), U16("transitionTime")>>, m.returns)
InMoveSaturation(m) == UnlessRate0(m, "MoveSaturation")
InStepSaturation(m) ==
    Handed(m, "StepSaturation", <<U8("stepMode"), U8("stepSize"), U8("transitionTime")>>, m.returns)
InMoveToHueAndSaturation(m) ==
    Handed(m, "MoveToHueAndSaturation", <<U8("hue"), U8("saturation"), U16("transitionTime")>>, m.returns)
InMoveToColor(m) ==
    Handed(m, "MoveToColor", <<U16("colorX"), U16("colorY"), U16("transitionTime")>>, m.returns)
InMoveColor(m) == Handed(m, "MoveColor", <<U16("rateX"), U16("rateY")>>, SUCCESS)
InStepColor(m) ==
    Handed(m, "StepColor", <<U16("stepX"), U16("stepY"), U16("transitionTime")>>, m.returns)
InMoveToColorTemperature(m) ==
    Handed(m, "MoveToColorTemperature", <<U16("colorTemperature"), U16("transitionTime")>>, m.returns)

\* The direction of the command is not looked at.
ProcessInColorControlCmds(m) ==
    CASE m.id = Lighting.MOVE_TO_HUE -> InMoveToHue(m)
      [] m.id = Lighting.MOVE_HUE -> InMoveHue(m)
      [] m.id = Lighting.STEP_HUE -> InStepHue(m)
      [] m.id = Lighting.MOVE_TO_SATURATION -> InMoveToSaturation(m)
      [] m.id = Lighting.MOVE_SATURATION -> InMoveSaturation(m)
      [] m.id = Lighting.STEP_SATURATION -> InStepSaturation(m)
      [] m.id = Lighting.MOVE_TO_HUE_AND_SATURATION -> InMoveToHueAndSaturation(m)
      [] m.id = Lighting.MOVE_TO_COLOR -> InMoveToColor(m)
      [] m.id = Lighting.MOVE_COLOR -> InMoveColor(m)
      [] m.id = Lighting.STEP_COLOR -> InStepColor(m)
      [] m.id = Lighting.MOVE_TO_COLOR_TEMPERATURE -> InMoveToColorTemperature(m)
      [] OTHER -> Refused(FAILURE)

LightingSpecificCommands(m) ==
    IF m.cluster = "COLOR_CONTROL" THEN ProcessInColorControlCmds(m) ELSE Refused(FAILURE)

-----------------------------------------------------------------------------
(* The thermostat.                                                         *)

SetpointRaiseLower == Command("THERMOSTAT", SETPOINT_RAISE_LOWER, ToServer, 2, <<U8("mode"), U8("amount")>>)

ProcessInPumpCmds(m) == Refused(FAILURE)
ProcessInThermostatCmds(m) ==
    IF m.id = SETPOINT_RAISE_LOWER THEN Offered(m, "SetpointRaiseLower", <<U8("mode"), U8("amount")>>)
    ELSE Refused(FAILURE)

HvacSpecificCommands(m) ==
    CASE m.cluster = "PUMP" -> ProcessInPumpCmds(m)
      [] m.cluster = "THERMOSTAT" -> ProcessInThermostatCmds(m)
      [] OTHER -> Refused(FAILURE)

-----------------------------------------------------------------------------
(* The tunnels.                                                            *)

MatchProtocolAddr == Command("GENERIC_TUNNEL", Pi.MATCH_PROTOCOL_ADDR, ToServer, 1,
    <<Counted("protocolAddr", 1)>>)
MatchProtocolAddrRsp == Command("GENERIC_TUNNEL", Pi.MATCH_PROTOCOL_ADDR_RSP, ToClient, 8 + 1,
    <<IEEE("ieeeAddr"), Counted("protocolAddr", 1)>>)
AdvertiseProtocolAddr == Command("GENERIC_TUNNEL", Pi.ADVERTISE_PROTOCOL_ADDR, ToClient, 1,
    <<Counted("protocolAddr", 1)>>)
BACnetTransferNPDU == Command("BACNET_TUNNEL", Pi.TRANSFER_NPDU, ToServer, 0, <<Rest("npdu")>>)
TransferAPDU == Command("11073_TUNNEL", Pi.TRANSFER_APDU, ToServer, 2, <<Counted16("apdu", 1)>>)
TransferAPDUMetadata == Command("11073_TUNNEL", Pi.TRANSFER_APDU_METADATA, ToServer, 4,
    <<U16("metadata"), Counted16("apdu", 1)>>)
TransferMetadata == Command("11073_TUNNEL", Pi.TRANSFER_METADATA, ToServer, 2, <<U16("metadata")>>)

ProcessIn_GenericTunnelServer(m) ==
    IF m.id # Pi.MATCH_PROTOCOL_ADDR THEN Refused(FAILURE)
    ELSE Offered(m, "MatchProtocolAddr", <<Counted("protocolAddr", 1)>>)

ProcessIn_GenericTunnelClient(m) ==
    CASE m.id = Pi.MATCH_PROTOCOL_ADDR_RSP ->
            Offered(m, "MatchProtocolAddrRsp", <<IEEE("ieeeAddr"), Counted("protocolAddr", 1)>>)
      [] m.id = Pi.ADVERTISE_PROTOCOL_ADDR ->
            Offered(m, "AdvertiseProtocolAddr", <<Counted("protocolAddr", 1)>>)
      [] OTHER -> Refused(FAILURE)

ProcessIn_BACnetTunnelCmds(m) ==
    IF m.id # Pi.TRANSFER_NPDU THEN Refused(FAILURE) ELSE Offered(m, "BACnetTransferNPDU", <<Rest("npdu")>>)

ProcessIn_11073TunnelCmds(m) ==
    CASE m.id = Pi.TRANSFER_APDU -> Offered(m, "TransferAPDU", <<Counted16("apdu", 1)>>)
      [] m.id = Pi.TRANSFER_APDU_METADATA ->
            Offered(m, "TransferAPDUMetadata", <<U16("metadata"), Counted16("apdu", 1)>>)
      [] m.id = Pi.TRANSFER_METADATA -> Offered(m, "TransferMetadata", <<U16("metadata")>>)
      [] OTHER -> Refused(FAILURE)

PiSpecificCommands(m) ==
    CASE m.cluster = "GENERIC_TUNNEL" ->
            IF IsServer(m) THEN ProcessIn_GenericTunnelServer(m) ELSE ProcessIn_GenericTunnelClient(m)
      [] m.cluster = "BACNET_TUNNEL" -> ProcessIn_BACnetTunnelCmds(m)
      [] m.cluster = "11073_TUNNEL" -> ProcessIn_11073TunnelCmds(m)
      [] OTHER -> Refused(FAILURE)

-----------------------------------------------------------------------------
(* Closures (zcl_closures.c) and measurement and sensing (zcl_ms.c) know   *)
(* no command.                                                             *)

ProcessInShadeConfigCmds(m) == Refused(FAILURE)
ClosuresSpecificCommands(m) ==
    IF m.cluster = "SHADE_CONFIG" THEN ProcessInShadeConfigCmds(m) ELSE Refused(FAILURE)
ProcessInMeasurementCmds(m) == Refused(FAILURE)
MsSpecificCommands(m) ==
    IF m.cluster = "TEMPERATURE_MEASUREMENT" THEN ProcessInMeasurementCmds(m) ELSE Refused(FAILURE)

HomeCommands ==
    [MoveToHue |-> MoveToHue, MoveHue |-> MoveHue, StepHue |-> StepHue,
     MoveToSaturation |-> MoveToSaturation, MoveSaturation |-> MoveSaturation,
     StepSaturation |-> StepSaturation, MoveToHueAndSaturation |-> MoveToHueAndSaturation,
     MoveToColor |-> MoveToColor, MoveColor |-> MoveColor, StepColor |-> StepColor,
     MoveToColorTemperature |-> MoveToColorTemperature, SetpointRaiseLower |-> SetpointRaiseLower,
     MatchProtocolAddr |-> MatchProtocolAddr, MatchProtocolAddrRsp |-> MatchProtocolAddrRsp,
     AdvertiseProtocolAddr |-> AdvertiseProtocolAddr, BACnetTransferNPDU |-> BACnetTransferNPDU,
     TransferAPDU |-> TransferAPDU, TransferAPDUMetadata |-> TransferAPDUMetadata,
     TransferMetadata |-> TransferMetadata]

-----------------------------------------------------------------------------
(***************************************************************************)
(* Security and safety (zcl_ss.c): the zones that enrol with the control   *)
(* and indicating equipment, the control panel's commands and the warning  *)
(* device.  A command m also carries the zone table, the id the search for *)
(* a free one starts from and the endpoint; what a function changes of     *)
(* them, and the response it sends itself, are fields of its result.       *)
(***************************************************************************)

CONSTANTS MaxZones,   \* ZCL_SS_MAX_ZONES
          MaxZoneId   \* ZCL_SS_MAX_ZONE_ID

Ss == [CHANGE_NOTIFICATION |-> 0, ENROLL_REQUEST |-> 1, ENROLL_RESPONSE |-> 0,
       ARM |-> 0, BYPASS |-> 1, EMERGENCY |-> 2, FIRE |-> 3, PANIC |-> 4, GET_ZONE_ID_MAP |-> 5,
       GET_ZONE_INFORMATION |-> 6, ARM_RESPONSE |-> 0, GET_ZONE_ID_MAP_RESPONSE |-> 1,
       GET_ZONE_INFORMATION_RESPONSE |-> 2, START_WARNING |-> 0, SQUAWK |-> 1]

ENROLL_NOT_SUPPORTED == 1
ENROLL_NO_PERMIT == 2
ENROLL_TOO_MANY_ZONES == 3
INVALID_ZONE_TYPE == 65535
SupportedZoneTypes == {0, 13, 21, 40, 42, 43, 44, 45, 271, 277, 541, 549}
Unknown == [i \in 1 .. 8 |-> 255]

-----------------------------------------------------------------------------
(* Sending.                                                                *)

ChangeNotification == Command("IAS_ZONE", Ss.CHANGE_NOTIFICATION, ToClient, 3,
    <<U16("zoneStatus"), U8("extendedStatus")>>)
EnrollRequest == Command("IAS_ZONE", Ss.ENROLL_REQUEST, ToClient, 4,
    <<U16("zoneType"), U16("manufacturerCode")>>)
EnrollResponse == Command("IAS_ZONE", Ss.ENROLL_RESPONSE, ToServer, 2,
    <<U8("responseCode"), U8("zoneID")>>)
Arm == Command("IAS_ACE", Ss.ARM, ToServer, 1, <<U8("armMode")>>)
Bypass == Command("IAS_ACE", Ss.BYPASS, ToServer, 1, <<Counted("bypassBuf", 1)>>)
Emergency == Command("IAS_ACE", Ss.EMERGENCY, ToServer, 0, <<>>)
Fire == Command("IAS_ACE", Ss.FIRE, ToServer, 0, <<>>)
Panic == Command("IAS_ACE", Ss.PANIC, ToServer, 0, <<>>)
GetZoneIDMap == Command("IAS_ACE", Ss.GET_ZONE_ID_MAP, ToServer, 0, <<>>)
GetZoneInformation == Command("IAS_ACE", Ss.GET_ZONE_INFORMATION, ToServer, 1, <<U8("zoneID")>>)
ArmResponse == Command("IAS_ACE", Ss.ARM_RESPONSE, ToClient, 1, <<U8("armNotification")>>)
GetZoneIDMapResponse == Command("IAS_ACE", Ss.GET_ZONE_ID_MAP_RESPONSE, ToClient, 32,
    <<Bytes("zoneIDMap", 32)>>)
GetZoneInformationResponse == Command("IAS_ACE", Ss.GET_ZONE_INFORMATION_RESPONSE, ToClient, 11,
    <<U8("zoneID"), U16("zoneType"), IEEE("ieeeAddress")>>)
StartWarning == Command("IAS_WD", Ss.START_WARNING, ToServer, 3, <<U8("warnings"), U16("duration")>>)
Squawk == Command("IAS_WD", Ss.SQUAWK, ToServer, 1, <<U8("squawk")>>)

-----------------------------------------------------------------------------
(* The zone table, in the order of enrolment.                              *)

AddZone(zones, zone) == Append(zones, zone)
\* Mutant: the links of the list are counted, not its items.
CountAllLinks(zones) == IF zones = <<>> THEN 0 ELSE (Len(zones) - 1) % 256

CountAllZones(zones) == Len(zones) % 256
ZoneIDAvailable(zones, id) == id < MaxZoneId /\ \A i \in DOMAIN zones : zones[i].zoneID # id

\* The loop that looks for another id asks about the one it started from, every time.
GetNextFreeZoneID(zones, next) ==
    LET Id(k) == (next + k) % MaxZoneId
        ends == {k \in 1 .. MaxZoneId : Id(k) = next \/ ZoneIDAvailable(zones, next)}
    IN  IF ZoneIDAvailable(zones, next) THEN next ELSE Id(CHOOSE k \in ends : \A j \in ends : k <= j)

FindZone(zones, endpoint, id) ==
    SelectSeq(zones, LAMBDA z : z.endpoint = endpoint /\ z.zoneID = id)

RemoveZone(zones, endpoint, id) ==
    LET hits == {i \in DOMAIN zones : zones[i].endpoint = endpoint /\ zones[i].zoneID = id}
    IN  IF hits = {} THEN zones ELSE RemoveAt(zones, CHOOSE i \in hits : \A j \in hits : i <= j)

UpdateZoneAddress(zones, endpoint, id, addr) ==
    LET hits == {i \in DOMAIN zones : zones[i].endpoint = endpoint /\ zones[i].zoneID = id}
        first == CHOOSE i \in hits : \A j \in hits : i <= j
    IN  IF hits = {} THEN zones ELSE [zones EXCEPT ![first].zoneAddress = addr]

-----------------------------------------------------------------------------
(* Receiving.                                                              *)

Responds(outcome, name, fields) == outcome @@ [reply |-> [name |-> name, fields |-> fields]]

InChangeNotification(m) == Offered(m, "ChangeNotification", <<U16("zoneStatus"), U8("extendedStatus")>>)

\* The zone's id is not set when the enrolment is refused before one was looked for.
InEnrollRequest(m) ==
    LET req == Picked(<<U16("zoneType"), U16("manufacturerCode")>>, m.octets)
        type == Word16(req.zoneType)
        id == GetNextFreeZoneID(m.zones, m.next)
        room == type \in SupportedZoneTypes /\ CountAllZones(m.zones) < MaxZones - 1
        status == IF type \notin SupportedZoneTypes THEN ENROLL_NOT_SUPPORTED
                  ELSE IF ~room THEN ENROLL_TOO_MANY_ZONES
                  ELSE IF ~m.memory THEN ENROLL_NO_PERMIT ELSE SUCCESS
        zone == [endpoint |-> m.endpoint, zoneID |-> id, zoneType |-> type, zoneAddress |-> Unknown]
        told == Calls(m, "EnrollRequest", ("zoneID" :> <<id>>) @@ req, CMD_HAS_RSP)
        outcome == IF status = SUCCESS /\ "EnrollRequest" \in m.cbs THEN told ELSE Refused(CMD_HAS_RSP)
    IN  Responds(outcome, "EnrollResponse",
                 [responseCode |-> <<status>>, zoneID |-> <<IF room THEN id ELSE Junk>>])
          @@ [next |-> IF room THEN id ELSE m.next,
              zones |-> IF status = SUCCESS THEN AddZone(m.zones, zone) ELSE m.zones]

InEnrollResponse(m) == Offered(m, "EnrollResponse", <<U8("responseCode"), U8("zoneID")>>)

InZoneServer(m) == IF m.id = Ss.ENROLL_RESPONSE THEN InEnrollResponse(m) ELSE Refused(FAILURE)
InZoneClient(m) ==
    CASE m.id = Ss.CHANGE_NOTIFICATION -> InChangeNotification(m)
      [] m.id = Ss.ENROLL_REQUEST -> InEnrollRequest(m)
      [] OTHER -> Refused(FAILURE)

\* Without a callback no response is sent, and none is asked of the foundation.
InArm(m) ==
    IF "Arm" \in m.cbs
    THEN Responds(Handed(m, "Arm", <<U8("armMode")>>, CMD_HAS_RSP),
                  "ArmResponse", [armNotification |-> <<m.returns>>])
    ELSE Refused(CMD_HAS_RSP)

InBypass(m) == Offered(m, "Bypass", <<Counted("bypassBuf", 1)>>)
InEmergency(m) == Offered(m, "Emergency", <<>>)
InFire(m) == Offered(m, "Fire", <<>>)
InPanic(m) == Offered(m, "Panic", <<>>)

\* Octet k of the map has a bit for each of the zones 8(k - 1) to 8(k - 1) + 7.
ZoneIDs(m) == {id \in 0 .. 255 : FindZone(m.zones, m.endpoint, id) # <<>>}
MapOctet(ids, k) == SumSet({2 ^ (id % 8) : id \in {id \in ids : id \div 8 = k - 1}})
InGetZoneIDMap(m) ==
    LET ids == ZoneIDs(m)
    IN  Responds(Refused(CMD_HAS_RSP), "GetZoneIDMapResponse",
                 [zoneIDMap |-> [k \in 1 .. 32 |-> MapOctet(ids, k)]])

InGetZoneInformation(m) ==
    LET id == Picked(<<U8("zoneID")>>, m.octets).zoneID[1]
        found == FindZone(m.zones, m.endpoint, id)
        zone == IF found # <<>> THEN found[1]
                ELSE [zoneID |-> id, zoneType |-> INVALID_ZONE_TYPE, zoneAddress |-> Unknown]
    IN  Responds(Refused(CMD_HAS_RSP), "GetZoneInformationResponse",
                 [zoneID |-> <<zone.zoneID>>, zoneType |-> <<zone.zoneType % 256, zone.zoneType \div 256>>,
                  ieeeAddress |-> zone.zoneAddress])

InAceServer(m) ==
    CASE m.id = Ss.ARM -> InArm(m)
      [] m.id = Ss.BYPASS -> InBypass(m)
      [] m.id = Ss.EMERGENCY -> InEmergency(m)
      [] m.id = Ss.FIRE -> InFire(m)
      [] m.id = Ss.PANIC -> InPanic(m)
      [] m.id = Ss.GET_ZONE_ID_MAP -> InGetZoneIDMap(m)
      [] m.id = Ss.GET_ZONE_INFORMATION -> InGetZoneInformation(m)
      [] OTHER -> Refused(FAILURE)

InArmResponse(m) == Offered(m, "ArmResponse", <<U8("armNotification")>>)
InGetZoneIDMapResponse(m) ==
    IF m.memory THEN Offered(m, "GetZoneIDMapResponse", <<Bytes("zoneIDMap", 32)>>) ELSE Refused(SUCCESS)
InGetZoneInformationResponse(m) ==
    Offered(m, "GetZoneInformationResponse", <<U8("zoneID"), U16("zoneType"), IEEE("ieeeAddress")>>)

InAceClient(m) ==
    CASE m.id = Ss.ARM_RESPONSE -> InArmResponse(m)
      [] m.id = Ss.GET_ZONE_ID_MAP_RESPONSE -> InGetZoneIDMapResponse(m)
      [] m.id = Ss.GET_ZONE_INFORMATION_RESPONSE -> InGetZoneInformationResponse(m)
      [] OTHER -> Refused(FAILURE)

InStartWarning(m) == Offered(m, "StartWarning", <<U8("warnings"), U16("duration")>>)
InSquawk(m) == Offered(m, "Squawk", <<U8("squawk")>>)
InWD(m) ==
    CASE m.id = Ss.START_WARNING -> InStartWarning(m)
      [] m.id = Ss.SQUAWK -> InSquawk(m)
      [] OTHER -> Refused(FAILURE)

SsSpecificCommands(m) ==
    CASE m.cluster = "IAS_ZONE" -> IF IsServer(m) THEN InZoneServer(m) ELSE InZoneClient(m)
      [] m.cluster = "IAS_ACE" -> IF IsServer(m) THEN InAceServer(m) ELSE InAceClient(m)
      [] m.cluster = "IAS_WD" -> InWD(m)
      [] OTHER -> Refused(FAILURE)

SsCommands ==
    [ChangeNotification |-> ChangeNotification, EnrollRequest |-> EnrollRequest,
     EnrollResponse |-> EnrollResponse, Arm |-> Arm, Bypass |-> Bypass, Emergency |-> Emergency,
     Fire |-> Fire, Panic |-> Panic, GetZoneIDMap |-> GetZoneIDMap,
     GetZoneInformation |-> GetZoneInformation, ArmResponse |-> ArmResponse,
     GetZoneIDMapResponse |-> GetZoneIDMapResponse,
     GetZoneInformationResponse |-> GetZoneInformationResponse,
     StartWarning |-> StartWarning, Squawk |-> Squawk]

-----------------------------------------------------------------------------
(* Smart energy.                                                           *)

Se == [GET_PROFILE_CMD |-> 0, GET_PROFILE_RSP |-> 0, REQ_MIRROR_CMD |-> 1, REQ_MIRROR_RSP |-> 1,
       MIRROR_REM_CMD |-> 2, MIRROR_REM_RSP |-> 2,
       GET_CURRENT_PRICE |-> 0, GET_SCHEDULED_PRICE |-> 1, PUBLISH_PRICE |-> 0,
       DISPLAY_MESSAGE |-> 0, CANCEL_MESSAGE |-> 1, GET_LAST_MESSAGE |-> 0, MESSAGE_CONFIRMATION |-> 1,
       LOAD_CONTROL_EVENT |-> 0, CANCEL_LOAD_CONTROL_EVENT |-> 1, CANCEL_ALL_LOAD_CONTROL_EVENT |-> 2,
       REPORT_EVENT_STATUS |-> 0, GET_SCHEDULED_EVENT |-> 1]

-----------------------------------------------------------------------------
(* Sending.                                                                *)

GetProfileCmd == Command("METERING", Se.GET_PROFILE_CMD, ToServer, 6,
    <<U8("channel"), U32("endTime"), U8("numOfPeriods")>>)
GetProfileRsp == Command("METERING", Se.GET_PROFILE_RSP, ToClient, 4 + 1 + 1 + 1,
    <<U32("endTime"), U8("status"), U8("profileIntervalPeriod"), Counted("intervals", 3)>>)
ReqMirrorCmd == Command("METERING", Se.REQ_MIRROR_CMD, ToClient, 0, <<>>)
ReqMirrorRsp == Command("METERING", Se.REQ_MIRROR_RSP, ToServer, 2, <<U16("endpointId")>>)
RemMirrorCmd == Command("METERING", Se.MIRROR_REM_CMD, ToClient, 0, <<>>)
RemMirrorRsp == Command("METERING", Se.MIRROR_REM_RSP, ToServer, 2, <<U16("endpointId")>>)

GetCurrentPrice == Command("PRICING", Se.GET_CURRENT_PRICE, ToServer, 1, <<U8("option")>>)
GetScheduledPrice == Command("PRICING", Se.GET_SCHEDULED_PRICE, ToServer, 5,
    <<U32("startTime"), U8("numEvents")>>)
PublishPrice == Command("PRICING", Se.PUBLISH_PRICE, ToClient, 34,
    <<U32("providerId"), Counted("rateLabel", 1), U32("issuerEventId"), U32("currentTime"),
      U8("unitOfMeasure"), U16("currency"), U8("priceTrailingDigit"), U8("priceTier"),
      U32("startTime"), U16("durationInMinutes"), U32("price"), U8("priceRatio"),
      U32("generationPrice"), U8("generationPriceRatio")>>)

DisplayMessage == Command("MESSAGE", Se.DISPLAY_MESSAGE, ToClient, 4 + 1 + 4 + 2 + 1,
    <<U32("messageId"), U8("messageCtrl"), U32("startTime"), U16("durationInMinutes"),
      Counted("msgString", 1)>>)
CancelMessage == Command("MESSAGE", Se.CANCEL_MESSAGE, ToClient, 5,
    <<U32("messageId"), U8("messageCtrl")>>)
GetLastMessage == Command("MESSAGE", Se.GET_LAST_MESSAGE, ToServer, 0, <<>>)
MessageConfirmation == Command("MESSAGE", Se.MESSAGE_CONFIRMATION, ToServer, 8,
    <<U32("messageId"), U32("confirmTime")>>)

LoadControlEvent == Command("LOAD_CONTROL", Se.LOAD_CONTROL_EVENT, ToClient, 23,
    <<U32("issuerEvent"), U24("deviceGroupClass"), U32("startTime"), U16("durationInMinutes"),
      U8("criticalityLevel"), U8("coolingTemperatureOffset"), U8("heatingTemperatureOffset"),
      U16("coolingTemperatureSetPoint"), U16("heatingTemperatureSetPoint"),
      U8("averageLoadAdjustmentPercentage"), U8("dutyCycle"), U8("eventControl")>>)
CancelLoadControlEvent == Command("LOAD_CONTROL", Se.CANCEL_LOAD_CONTROL_EVENT, ToClient, 12,
    <<U32("issuerEventID"), U24("deviceGroupClass"), U8("cancelControl"), U32("effectiveTime")>>)
CancelAllLoadControlEvents == Command("LOAD_CONTROL", Se.CANCEL_ALL_LOAD_CONTROL_EVENT, ToClient, 1,
    <<U8("cancelControl")>>)
\* The signature is computed over the octets before it.
ReportEventStatus == Command("LOAD_CONTROL", Se.REPORT_EVENT_STATUS, ToServer, 18 + 42,
    <<U32("issuerEventID"), U8("eventStatus"), U32("eventStartTime"), U8("criticalityLevelApplied"),
      U16("coolingTemperatureSetPointApplied"), U16("heatingTemperatureSetPointApplied"),
      U8("averageLoadAdjustment"), U8("dutyCycleApplied"), U8("eventControl"), U8("signatureType"),
      Bytes("signature", 42)>>)
GetScheduledEvent == Command("LOAD_CONTROL", Se.GET_SCHEDULED_EVENT, ToServer, 5,
    <<U32("startTime"), U8("numEvents")>>)

-----------------------------------------------------------------------------
(* Receiving.                                                              *)

MAX_INTERVAL_CHANNEL == 1
MAX_PROFILE_INTERVAL_PERIOD == 7
MAX_UNIT_OF_MEASURE == 7
MAX_DURATION_IN_MINUTES == 1440
MAX_CRITICAL_LEVEL == 15
MAX_DUTY_CYCLE == 100

\* Signed and 16-bit fields as the checks see them; 0xFF, 0x8000 and -128 stand for "not used".
BadSetPoint(v) == Word16(v) # 32768 /\ Word16(v) > 32767
Signed8(o) == IF o > 127 THEN o - 256 ELSE o
BadAdjustment(v) == Signed8(v[1]) # -128 /\ (Signed8(v[1]) < -100 \/ Signed8(v[1]) > 100)
BadDutyCycle(v) == v[1] # 255 /\ v[1] > MAX_DUTY_CYCLE

InGetProfileCmd(m) ==
    HandedIf(m, "GetProfileCmd", <<U8("channel"), U32("endTime"), U8("numOfPeriods")>>,
             LAMBDA c : c.channel[1] > MAX_INTERVAL_CHANNEL, CMD_HAS_RSP)

InGetProfileRsp(m) ==
    LET layout == <<U32("endTime"), U8("status"), U8("profileIntervalPeriod"), Counted("intervals", 3)>>
        Bad(c) == c.profileIntervalPeriod[1] > MAX_PROFILE_INTERVAL_PERIOD
        handed == HandedIf(m, "GetProfileRsp", layout, Bad, SUCCESS)
    IN  IF handed.callback # "none" /\ ~m.memory THEN Refused(SOFTWARE_FAILURE) ELSE handed

InReqMirrorCmd(m) == Handed(m, "ReqMirrorCmd", <<>>, SUCCESS)
InReqMirrorRsp(m) == Handed(m, "ReqMirrorRsp", <<U16("endpointId")>>, SUCCESS)
InMirrorRemCmd(m) == Handed(m, "RemMirrorCmd", <<>>, SUCCESS)
InMirrorRemRsp(m) == Handed(m, "RemMirrorRsp", <<U16("endpointId")>>, SUCCESS)

ProcessInSimpleMeteringCmds(m) ==
    CASE IsServer(m) /\ m.id = Se.GET_PROFILE_CMD -> InGetProfileCmd(m)
      [] IsServer(m) /\ m.id = Se.REQ_MIRROR_RSP -> InReqMirrorRsp(m)
      [] IsServer(m) /\ m.id = Se.MIRROR_REM_RSP -> InMirrorRemRsp(m)
      [] ~IsServer(m) /\ m.id = Se.GET_PROFILE_RSP -> InGetProfileRsp(m)
      [] ~IsServer(m) /\ m.id = Se.REQ_MIRROR_CMD -> InReqMirrorCmd(m)
      [] ~IsServer(m) /\ m.id = Se.MIRROR_REM_CMD -> InMirrorRemCmd(m)
      [] OTHER -> Refused(FAILURE)

\* Mutant: the foundation is not told that the application responds.
InGetCurrentPriceTwice(m) == Handed(m, "GetCurrentPrice", <<U8("option")>>, SUCCESS)

InGetCurrentPrice(m) == Handed(m, "GetCurrentPrice", <<U8("option")>>, CMD_HAS_RSP)
InGetScheduledPrice(m) == Handed(m, "GetScheduledPrice", <<U32("startTime"), U8("numEvents")>>, CMD_HAS_RSP)

\* Mutant: the duration is read before the start time.
ParsePublishPriceSwapped ==
    <<U32("providerId"), Label("rateLabel"), U32("issuerEventId"), U32("currentTime"),
      U8("unitOfMeasure"), U16("currency"), U8("priceTrailingDigit"), U8("priceTier"),
      U16("durationInMinutes"), U32("startTime"), U32("price"), U8("priceRatio"),
      U32("generationPrice"), U8("generationPriceRatio")>>

ParsePublishPrice ==
    <<U32("providerId"), Label("rateLabel"), U32("issuerEventId"), U32("currentTime"),
      U8("unitOfMeasure"), U16("currency"), U8("priceTrailingDigit"), U8("priceTier"),
      U32("startTime"), U16("durationInMinutes"), U32("price"), U8("priceRatio"),
      U32("generationPrice"), U8("generationPriceRatio")>>

\* The callback that is looked for is not the one that is called.
InPublishPrice(m) ==
    LET c == Picked(ParsePublishPrice, m.octets)
    IN  IF "GetScheduledPrice" \notin m.cbs THEN Refused(FAILURE)
        ELSE IF Len(c.rateLabel) > 0 /\ ~m.memory THEN Refused(SOFTWARE_FAILURE)
        ELSE IF c.unitOfMeasure[1] > MAX_UNIT_OF_MEASURE THEN Refused(INVALID_FIELD)
        ELSE IF "PublishPrice" \in m.cbs THEN Calls(m, "PublishPrice", c, SUCCESS)
        ELSE Calls(m, "null", <<>>, SUCCESS)

ProcessInPricingCmds(m) ==
    CASE IsServer(m) /\ m.id = Se.GET_CURRENT_PRICE -> InGetCurrentPrice(m)
      [] IsServer(m) /\ m.id = Se.GET_SCHEDULED_PRICE -> InGetScheduledPrice(m)
      [] ~IsServer(m) /\ m.id = Se.PUBLISH_PRICE -> InPublishPrice(m)
      [] OTHER -> Refused(FAILURE)

ParseDisplayMessage ==
    <<U32("messageId"), U8("messageCtrl"), U32("startTime"), U16("durationInMinutes"),
      Counted("msgString", 1)>>

InDisplayMessage(m) ==
    LET c == Picked(ParseDisplayMessage, m.octets)
    IN  IF Len(c.msgString) > 0 /\ ~m.memory THEN Refused(FAILURE)
        ELSE Handed(m, "DisplayMessage", ParseDisplayMessage, SUCCESS)

InCancelMessage(m) == Handed(m, "CancelMessage", <<U32("messageId"), U8("messageCtrl")>>, SUCCESS)
InGetLastMessage(m) == Handed(m, "GetLastMessage", <<>>, CMD_HAS_RSP)
InMessageConfirmation(m) ==
    Handed(m, "MessageConfirmation", <<U32("messageId"), U32("confirmTime")>>, SUCCESS)

ProcessInMessageCmds(m) ==
    CASE IsServer(m) /\ m.id = Se.GET_LAST_MESSAGE -> InGetLastMessage(m)
      [] IsServer(m) /\ m.id = Se.MESSAGE_CONFIRMATION -> InMessageConfirmation(m)
      [] ~IsServer(m) /\ m.id = Se.DISPLAY_MESSAGE -> InDisplayMessage(m)
      [] ~IsServer(m) /\ m.id = Se.CANCEL_MESSAGE -> InCancelMessage(m)
      [] OTHER -> Refused(FAILURE)

ParseLoadControlEvent ==
    <<U32("issuerEvent"), U24("deviceGroupClass"), U32("startTime"), U16("durationInMinutes"),
      U8("criticalityLevel"), U8("coolingTemperatureOffset"), U8("heatingTemperatureOffset"),
      U16("coolingTemperatureSetPoint"), U16("heatingTemperatureSetPoint"),
      U8("averageLoadAdjustmentPercentage"), U8("dutyCycle"), U8("eventControl")>>

\* A field out of its range is reported to the application, which answers.
BadLoadControlEvent(c) ==
    \/ Word16(c.durationInMinutes) > MAX_DURATION_IN_MINUTES
    \/ c.criticalityLevel[1] > MAX_CRITICAL_LEVEL
    \/ BadSetPoint(c.coolingTemperatureSetPoint) \/ BadSetPoint(c.heatingTemperatureSetPoint)
    \/ BadAdjustment(c.averageLoadAdjustmentPercentage)
    \/ BadDutyCycle(c.dutyCycle)

\* One temperature that is not used makes the four not used.
NoneIfOne(c) ==
    LET none == \/ c.coolingTemperatureOffset = <<255>> \/ c.heatingTemperatureOffset = <<255>>
                \/ c.coolingTemperatureSetPoint = <<255, 255>>
                \/ c.heatingTemperatureSetPoint = <<255, 255>>
    IN  IF none THEN [c EXCEPT !.coolingTemperatureOffset = <<255>>, !.heatingTemperatureOffset = <<255>>,
                               !.coolingTemperatureSetPoint = <<255, 255>>,
                               !.heatingTemperatureSetPoint = <<255, 255>>]
        ELSE c

InLoadControlEvent(m) ==
    LET c == Picked(ParseLoadControlEvent, m.octets)
        told == ("status" :> <<IF BadLoadControlEvent(c) THEN INVALID_FIELD ELSE SUCCESS>>)
    IN  IF "LoadControlEvent" \in m.cbs
        THEN Calls(m, "LoadControlEvent", told @@ NoneIfOne(c), CMD_HAS_RSP)
        ELSE Refused(FAILURE)

ParseCancelLoadControlEvent ==
    <<U32("issuerEventID"), U24("deviceGroupClass"), U8("cancelControl"), U32("effectiveTime")>>
InCancelLoadControlEvent(m) ==
    Handed(m, "CancelLoadControlEvent", ParseCancelLoadControlEvent, SUCCESS)
InCancelAllLoadControlEvents(m) ==
    Handed(m, "CancelAllLoadControlEvents", <<U8("cancelControl")>>, SUCCESS)

ParseReportEventStatus ==
    <<U32("issuerEventID"), U8("eventStatus"), U32("eventStartTime"), U8("criticalityLevelApplied"),
      U16("coolingTemperatureSetPointApplied"), U16("heatingTemperatureSetPointApplied"),
      U8("averageLoadAdjustment"), U8("dutyCycleApplied"), U8("eventControl"), U8("signatureType"),
      Bytes("signature", 42)>>

BadReportEventStatus(c) ==
    \/ c.eventStatus[1] \notin (1 .. 7) \cup {254}
    \/ c.criticalityLevelApplied[1] > MAX_CRITICAL_LEVEL
    \/ BadSetPoint(c.coolingTemperatureSetPointApplied) \/ BadSetPoint(c.heatingTemperatureSetPointApplied)
    \/ BadAdjustment(c.averageLoadAdjustment)
    \/ BadDutyCycle(c.dutyCycleApplied)

InReportEventStatus(m) ==
    HandedIf(m, "ReportEventStatus", ParseReportEventStatus, BadReportEventStatus, SUCCESS)
InGetScheduledEvents(m) ==
    Handed(m, "GetScheduledEvent", <<U32("startTime"), U8("numEvents")>>, SUCCESS)

ProcessInLoadControlCmds(m) ==
    CASE IsServer(m) /\ m.id = Se.REPORT_EVENT_STATUS -> InReportEventStatus(m)
      [] IsServer(m) /\ m.id = Se.GET_SCHEDULED_EVENT -> InGetScheduledEvents(m)
      [] ~IsServer(m) /\ m.id = Se.LOAD_CONTROL_EVENT -> InLoadControlEvent(m)
      [] ~IsServer(m) /\ m.id = Se.CANCEL_LOAD_CONTROL_EVENT -> InCancelLoadControlEvent(m)
      [] ~IsServer(m) /\ m.id = Se.CANCEL_ALL_LOAD_CONTROL_EVENT -> InCancelAllLoadControlEvents(m)
      [] OTHER -> Refused(FAILURE)

SeSpecificCommands(m) ==
    CASE m.cluster = "METERING" -> ProcessInSimpleMeteringCmds(m)
      [] m.cluster = "PRICING" -> ProcessInPricingCmds(m)
      [] m.cluster = "MESSAGE" -> ProcessInMessageCmds(m)
      [] m.cluster = "LOAD_CONTROL" -> ProcessInLoadControlCmds(m)
      [] OTHER -> Refused(FAILURE)

SeCommands ==
    [GetProfileCmd |-> GetProfileCmd, GetProfileRsp |-> GetProfileRsp, ReqMirrorCmd |-> ReqMirrorCmd,
     ReqMirrorRsp |-> ReqMirrorRsp, RemMirrorCmd |-> RemMirrorCmd, RemMirrorRsp |-> RemMirrorRsp,
     GetCurrentPrice |-> GetCurrentPrice, GetScheduledPrice |-> GetScheduledPrice,
     PublishPrice |-> PublishPrice, DisplayMessage |-> DisplayMessage, CancelMessage |-> CancelMessage,
     GetLastMessage |-> GetLastMessage, MessageConfirmation |-> MessageConfirmation,
     LoadControlEvent |-> LoadControlEvent, CancelLoadControlEvent |-> CancelLoadControlEvent,
     CancelAllLoadControlEvents |-> CancelAllLoadControlEvents, ReportEventStatus |-> ReportEventStatus,
     GetScheduledEvent |-> GetScheduledEvent]
=============================================================================
