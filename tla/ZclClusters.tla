----------------------------- MODULE ZclClusters -----------------------------
(***************************************************************************)
(* A cluster-specific command on its way from the device that writes it to *)
(* the device that reads it: registration of the file that implements the  *)
(* cluster, the search for it, the handlers, and the answer that goes back *)
(* (zcl_ProcessMessageMSG, zcl.c).                                         *)
(*                                                                         *)
(* First the general clusters (zcl_general.c): how their commands are      *)
(* written, which handler a received one reaches and the fields it reads   *)
(* out of it.  What the group, scene and alarm tables do with a command is *)
(* ZclScenes; here such a command ends in the operation of the table it    *)
(* asks for.  The other files' clusters are in ZclHome.                    *)
(***************************************************************************)
EXTENDS ZclHome, FiniteSets

CONSTANTS Samples,     \* for a command, the values its fields are sent with
          CallbackSets,\* for a file, the sets of callbacks an application may register
          Files        \* the files that implement clusters

Basic == [RESET_FACT_DEFAULT |-> 0]
Ident == [IDENTIFY |-> 0, QUERY |-> 1, QUERY_RSP |-> 0]
Group == [ADD |-> 0, VIEW |-> 1, GET_MEMBERSHIP |-> 2, REMOVE |-> 3, REMOVE_ALL |-> 4,
          ADD_IF_IDENTIFYING |-> 5, ADD_RSP |-> 0, VIEW_RSP |-> 1, GET_MEMBERSHIP_RSP |-> 2, REMOVE_RSP |-> 3]
Scene == [ADD |-> 0, VIEW |-> 1, REMOVE |-> 2, REMOVE_ALL |-> 3, STORE |-> 4, RECALL |-> 5,
          GET_MEMBERSHIP |-> 6, ADD_RSP |-> 0, VIEW_RSP |-> 1, REMOVE_RSP |-> 2, REMOVE_ALL_RSP |-> 3,
          STORE_RSP |-> 4, GET_MEMBERSHIP_RSP |-> 6]
OnOff == [OFF |-> 0, ON |-> 1, TOGGLE |-> 2]
Level == [MOVE_TO_LEVEL |-> 0, MOVE |-> 1, STEP |-> 2, STOP |-> 3, MOVE_TO_LEVEL_WITH_ON_OFF |-> 4,
          MOVE_WITH_ON_OFF |-> 5, STEP_WITH_ON_OFF |-> 6, STOP_WITH_ON_OFF |-> 7]
Alarms == [RESET |-> 0, RESET_ALL |-> 1, GET |-> 2, RESET_LOG |-> 3, ALARM |-> 0, GET_RSP |-> 1]
Location == [SET_ABSOLUTE |-> 0, SET_DEV_CFG |-> 1, GET_DEV_CFG |-> 2, GET_DATA |-> 3, DEV_CFG_RSP |-> 0,
             DATA_RSP |-> 1, DATA_NOTIF |-> 2, COMPACT_DATA_NOTIF |-> 3, RSSI_PING |-> 4]

-----------------------------------------------------------------------------
(* Sending.  ok says that the status in a response is success.             *)

Plain(cluster, id) == Command(cluster, id, ToServer, 0, <<>>)

SendIdentify == Command("IDENTIFY", Ident.IDENTIFY, ToServer, 2, <<U16("identifyTime")>>)
SendIdentifyQueryResponse == Command("IDENTIFY", Ident.QUERY_RSP, ToClient, 2, <<U16("timeout")>>)

SendGroupRequest(cmd) == Command("GROUPS", cmd, ToServer, 2, <<U16("groupID")>>)
SendAddGroupRequest(cmd) == Command("GROUPS", cmd, ToServer, 2 + 1, <<U16("groupID"), Counted("name", 1)>>)
SendGroupGetMembershipRequest(cmd, dir) ==
    IF dir = ToClient THEN Command("GROUPS", cmd, dir, 1 + 1, <<U8("capacity"), Counted("grpList", 2)>>)
    ELSE Command("GROUPS", cmd, dir, 1, <<Counted("grpList", 2)>>)
SendGroupResponse(cmd) == Command("GROUPS", cmd, ToClient, 3, <<U8("status"), U16("groupID")>>)
SendGroupViewResponse(ok) ==
    IF ok THEN Command("GROUPS", Group.VIEW_RSP, ToClient, 1 + 2 + 1,
                       <<U8("status"), U16("groupID"), Counted("name", 1)>>)
    ELSE Command("GROUPS", Group.VIEW_RSP, ToClient, 1 + 2, <<U8("status"), U16("groupID")>>)

SendAddScene == Command("SCENES", Scene.ADD, ToServer, 2 + 1 + 2 + 1,
    <<U16("groupID"), U8("sceneID"), U16("transTime"), Counted("name", 1), Rest("extField")>>)
SendSceneRequest(cmd) ==
    IF cmd \in {Scene.REMOVE_ALL, Scene.GET_MEMBERSHIP}
    THEN Command("SCENES", cmd, ToServer, 2, <<U16("groupID")>>)
    ELSE Command("SCENES", cmd, ToServer, 2 + 1, <<U16("groupID"), U8("sceneID")>>)
SendSceneResponse(cmd) ==
    IF cmd = Scene.REMOVE_ALL_RSP
    THEN Command("SCENES", cmd, ToClient, 1 + 2, <<U8("status"), U16("groupID")>>)
    ELSE Command("SCENES", cmd, ToClient, 1 + 2 + 1, <<U8("status"), U16("groupID"), U8("sceneID")>>)
SendSceneViewResponse(ok) ==
    LET always == <<U8("status"), U16("groupID"), U8("sceneID")>>
    IN  IF ok THEN Command("SCENES", Scene.VIEW_RSP, ToClient, 4 + 2 + 1,
                           always \o <<U16("transTime"), Counted("name", 1), Rest("extField")>>)
        ELSE Command("SCENES", Scene.VIEW_RSP, ToClient, 4, always)
SendSceneGetMembershipResponse(ok) ==
    LET always == <<U8("status"), U8("capacity"), U16("groupID")>>
    IN  IF ok THEN Command("SCENES", Scene.GET_MEMBERSHIP_RSP, ToClient, 4 + 1,
                           Append(always, Counted("sceneList", 1)))
        ELSE Command("SCENES", Scene.GET_MEMBERSHIP_RSP, ToClient, 4, always)

SendLevelControlMoveToLevelRequest(cmd) ==
    Command("LEVEL_CONTROL", cmd, ToServer, 3, <<U8("level"), U16("transitionTime")>>)
SendLevelControlMoveRequest(cmd) == Command("LEVEL_CONTROL", cmd, ToServer, 2, <<U8("moveMode"), U8("rate")>>)
SendLevelControlStepRequest(cmd) ==
    Command("LEVEL_CONTROL", cmd, ToServer, 4, <<U8("stepMode"), U8("amount"), U16("transitionTime")>>)

SendAlarmRequest(cmd) == Command("ALARMS", cmd, ToServer, 3, <<U8("alarmCode"), U16("clusterID")>>)
SendAlarmGetResponse(ok) ==
    IF ok THEN Command("ALARMS", Alarms.GET_RSP, ToClient, 1 + 1 + 2 + 4,
                       <<U8("status"), U8("alarmCode"), U16("clusterID"), U32("timeStamp")>>)
    ELSE Command("ALARMS", Alarms.GET_RSP, ToClient, 1, <<U8("status")>>)

DevCfg == <<U16("power"), U16("pathLossExponent"), U16("calcPeriod"), U8("numMeasurements"),
            U16("reportPeriod")>>
SendLocationSetAbsolute == Command("LOCATION", Location.SET_ABSOLUTE, ToServer, 10,
    <<U16("coordinate1"), U16("coordinate2"), U16("coordinate3"), U16("power"), U16("pathLossExponent")>>)
SendLocationSetDevCfg == Command("LOCATION", Location.SET_DEV_CFG, ToServer, 9, DevCfg)
SendLocationGetDevCfg == Command("LOCATION", Location.GET_DEV_CFG, ToServer, 8, <<IEEE("targetAddr")>>)
\* The target's address is left out when the command is marked as broadcast.
SendLocationGetData(broadcast) ==
    LET always == <<U8("bitmap"), U8("numResponses")>>
    IN  IF broadcast THEN Command("LOCATION", Location.GET_DATA, ToServer, 2, always)
        ELSE Command("LOCATION", Location.GET_DATA, ToServer, 2 + 8, Append(always, IEEE("targetAddr")))
SendLocationDevCfgResponse(ok) ==
    IF ok THEN Command("LOCATION", Location.DEV_CFG_RSP, ToClient, 1 + 9, <<U8("status")>> \o DevCfg)
    ELSE Command("LOCATION", Location.DEV_CFG_RSP, ToClient, 1, <<U8("status")>>)

\* The parts of a location that a command of this kind carries for this type of location:
\* bit 0 of the type says absolute, bit 1 two-dimensional.
Only(cond, fields) == IF cond THEN fields ELSE <<>>
LocationFields(cmd, absolute, flat) ==
    <<U8("type"), U16("coordinate1"), U16("coordinate2")>>
    \o Only(~flat, <<U16("coordinate3")>>)
    \o Only(cmd # Location.COMPACT_DATA_NOTIF, <<U16("power"), U16("pathLossExponent")>>)
    \o Only(~absolute /\ cmd # Location.COMPACT_DATA_NOTIF, <<U8("locationMethod")>>)
    \o Only(~absolute, <<U8("qualityMeasure"), U16("locationAge")>>)
SendLocationData(cmd, ok, absolute, flat) ==
    LET compact == cmd = Location.COMPACT_DATA_NOTIF
        size == 5 + (IF flat THEN 0 ELSE 2) + (IF compact THEN 0 ELSE 4)
                  + (IF absolute THEN 0 ELSE IF compact THEN 3 ELSE 1 + 3)
        status == Only(cmd = Location.DATA_RSP, <<U8("status")>>)
        data == cmd # Location.DATA_RSP \/ ok
    IN  Command("LOCATION", cmd, ToClient, Len(status) + (IF data THEN size ELSE 0),
                status \o Only(data, LocationFields(cmd, absolute, flat)))
SendRSSIPing == Command("LOCATION", Location.RSSI_PING, ToClient, 1, <<U8("locationType")>>)

GeneralCommands ==
    [ResetFactoryDefaults |-> Plain("BASIC", Basic.RESET_FACT_DEFAULT),
     Identify |-> SendIdentify, IdentifyQuery |-> Plain("IDENTIFY", Ident.QUERY),
     IdentifyQueryRsp |-> SendIdentifyQueryResponse,
     GroupAdd |-> SendAddGroupRequest(Group.ADD), GroupView |-> SendGroupRequest(Group.VIEW),
     GroupGetMembership |-> SendGroupGetMembershipRequest(Group.GET_MEMBERSHIP, ToServer),
     GroupRemove |-> SendGroupRequest(Group.REMOVE), GroupRemoveAll |-> Plain("GROUPS", Group.REMOVE_ALL),
     GroupAddIfIdentifying |-> SendAddGroupRequest(Group.ADD_IF_IDENTIFYING),
     GroupAddRsp |-> SendGroupResponse(Group.ADD_RSP), GroupRemoveRsp |-> SendGroupResponse(Group.REMOVE_RSP),
     GroupViewRsp |-> SendGroupViewResponse(TRUE), GroupViewFailed |-> SendGroupViewResponse(FALSE),
     GroupMembershipRsp |-> SendGroupGetMembershipRequest(Group.GET_MEMBERSHIP_RSP, ToClient),
     SceneAdd |-> SendAddScene, SceneView |-> SendSceneRequest(Scene.VIEW),
     SceneRemove |-> SendSceneRequest(Scene.REMOVE), SceneRemoveAll |-> SendSceneRequest(Scene.REMOVE_ALL),
     SceneStore |-> SendSceneRequest(Scene.STORE), SceneRecall |-> SendSceneRequest(Scene.RECALL),
     SceneGetMembership |-> SendSceneRequest(Scene.GET_MEMBERSHIP),
     SceneAddRsp |-> SendSceneResponse(Scene.ADD_RSP), SceneRemoveRsp |-> SendSceneResponse(Scene.REMOVE_RSP),
     SceneRemoveAllRsp |-> SendSceneResponse(Scene.REMOVE_ALL_RSP),
     SceneStoreRsp |-> SendSceneResponse(Scene.STORE_RSP),
     SceneViewRsp |-> SendSceneViewResponse(TRUE), SceneViewFailed |-> SendSceneViewResponse(FALSE),
     SceneMembershipRsp |-> SendSceneGetMembershipResponse(TRUE),
     SceneMembershipFailed |-> SendSceneGetMembershipResponse(FALSE),
     Off |-> Plain("ON_OFF", OnOff.OFF), On |-> Plain("ON_OFF", OnOff.ON),
     Toggle |-> Plain("ON_OFF", OnOff.TOGGLE),
     MoveToLevel |-> SendLevelControlMoveToLevelRequest(Level.MOVE_TO_LEVEL),
     MoveToLevelWithOnOff |-> SendLevelControlMoveToLevelRequest(Level.MOVE_TO_LEVEL_WITH_ON_OFF),
     LevelMove |-> SendLevelControlMoveRequest(Level.MOVE),
     LevelMoveWithOnOff |-> SendLevelControlMoveRequest(Level.MOVE_WITH_ON_OFF),
     LevelStep |-> SendLevelControlStepRequest(Level.STEP),
     LevelStepWithOnOff |-> SendLevelControlStepRequest(Level.STEP_WITH_ON_OFF),
     LevelStop |-> Plain("LEVEL_CONTROL", Level.STOP),
     LevelStopWithOnOff |-> Plain("LEVEL_CONTROL", Level.STOP_WITH_ON_OFF),
     AlarmReset |-> SendAlarmRequest(Alarms.RESET), AlarmResetAll |-> Plain("ALARMS", Alarms.RESET_ALL),
     AlarmGet |-> Plain("ALARMS", Alarms.GET), AlarmResetLog |-> Plain("ALARMS", Alarms.RESET_LOG),
     Alarm |-> SendAlarmRequest(Alarms.ALARM),
     AlarmGetRsp |-> SendAlarmGetResponse(TRUE), AlarmGetFailed |-> SendAlarmGetResponse(FALSE),
     SetAbsolute |-> SendLocationSetAbsolute, SetDevCfg |-> SendLocationSetDevCfg,
     GetDevCfg |-> SendLocationGetDevCfg, GetLocationData |-> SendLocationGetData(FALSE),
     GetLocationDataBroadcast |-> SendLocationGetData(TRUE),
     DevCfgRsp |-> SendLocationDevCfgResponse(TRUE), DevCfgFailed |-> SendLocationDevCfgResponse(FALSE),
     LocationDataRsp |-> SendLocationData(Location.DATA_RSP, TRUE, FALSE, FALSE),
     LocationDataFailed |-> SendLocationData(Location.DATA_RSP, FALSE, FALSE, FALSE),
     LocationDataNotif |-> SendLocationData(Location.DATA_NOTIF, TRUE, TRUE, FALSE),
     LocationDataNotifFlat |-> SendLocationData(Location.DATA_NOTIF, TRUE, FALSE, TRUE),
     LocationCompactNotif |-> SendLocationData(Location.COMPACT_DATA_NOTIF, TRUE, FALSE, TRUE),
     LocationCompactNotifAbsolute |-> SendLocationData(Location.COMPACT_DATA_NOTIF, TRUE, TRUE, FALSE),
     RSSIPing |-> SendRSSIPing]

-----------------------------------------------------------------------------
(* Receiving.  A command of a table reaches the operation of the table,    *)
(* whatever the application registered.                                    *)

OfTable(m, op, layout, status) == Calls(m, op, Picked(layout, m.octets), status)
And(outcome, fields) ==
    IF outcome.callback = "none" THEN outcome ELSE [outcome EXCEPT !.fields = fields @@ @]
StatusOf(m) == At(m.octets, 1)

ProcessInBasic(m) ==
    CASE IsServer(m) /\ m.id > Basic.RESET_FACT_DEFAULT -> Refused(FAILURE)
      [] IsServer(m) /\ m.id <= Basic.RESET_FACT_DEFAULT -> Offered(m, "BasicReset", <<>>)
      [] OTHER -> Refused(SUCCESS)

\* A query is answered here, and only while the device identifies itself.
ProcessInIdentity(m) ==
    LET answers == [reply |-> [name |-> "IdentifyQueryRsp", fields |-> [timeout |-> m.identifyTime]]]
    IN  CASE IsServer(m) /\ m.id = Ident.IDENTIFY -> Offered(m, "Identify", <<U16("identifyTime")>>)
          [] IsServer(m) /\ m.id = Ident.QUERY ->
                Refused(CMD_HAS_RSP) @@ (IF Word16(m.identifyTime) > 0 THEN answers ELSE <<>>)
          [] ~IsServer(m) /\ m.id = Ident.QUERY_RSP -> Offered(m, "IdentifyQueryRsp", <<U16("timeout")>>)
          [] OTHER -> Refused(FAILURE)

ProcessInGroupsServer(m) ==
    LET id == <<U16("groupID")>>
        named == Append(id, Counted("name", 1))
    IN  CASE m.id = Group.ADD -> OfTable(m, "GroupAdd", named, CMD_HAS_RSP)
          [] m.id = Group.VIEW -> OfTable(m, "GroupView", id, CMD_HAS_RSP)
          [] m.id = Group.GET_MEMBERSHIP ->
                OfTable(m, "GroupGetMembership", <<Counted("grpList", 2)>>, CMD_HAS_RSP)
          [] m.id = Group.REMOVE -> OfTable(m, "GroupRemove", id, CMD_HAS_RSP)
          [] m.id = Group.REMOVE_ALL -> OfTable(m, "GroupRemoveAll", <<>>, SUCCESS)
          [] m.id = Group.ADD_IF_IDENTIFYING -> OfTable(m, "GroupAddIfIdentifying", named, SUCCESS)
          [] OTHER -> Refused(FAILURE)

\* A list that finds no memory is handed over as an empty one.
ProcessInGroupsClient(m) ==
    LET one == <<U8("status"), U16("groupID")>>
        viewed == m.id = Group.VIEW_RSP /\ StatusOf(m) = SUCCESS
        list == Offered(m, "GroupRsp", <<U8("capacity"), Counted("grpList", 2)>>)
    IN  CASE m.id \in {Group.ADD_RSP, Group.VIEW_RSP, Group.REMOVE_RSP} ->
                Offered(m, "GroupRsp", one \o Only(viewed, <<Counted("name", 1)>>))
          [] m.id = Group.GET_MEMBERSHIP_RSP ->
                IF m.memory THEN list ELSE And(list, [grpList |-> <<>>])
          [] OTHER -> Refused(FAILURE)

ProcessInScenesServer(m) ==
    LET one == <<U16("groupID"), U8("sceneID")>>
    IN  CASE m.id = Scene.ADD ->
                OfTable(m, "SceneAdd", one \o <<U16("transTime"), Counted("name", 1), Rest("extField")>>,
                        CMD_HAS_RSP)
          [] m.id = Scene.VIEW -> OfTable(m, "SceneView", one, CMD_HAS_RSP)
          [] m.id = Scene.REMOVE -> OfTable(m, "SceneRemove", one, CMD_HAS_RSP)
          [] m.id = Scene.REMOVE_ALL -> OfTable(m, "SceneRemoveAll", <<U16("groupID")>>, CMD_HAS_RSP)
          [] m.id = Scene.STORE -> OfTable(m, "SceneStore", one, CMD_HAS_RSP)
          [] m.id = Scene.RECALL -> OfTable(m, "SceneRecall", one, SUCCESS)
          [] m.id = Scene.GET_MEMBERSHIP -> OfTable(m, "SceneGetMembership", <<U16("groupID")>>, CMD_HAS_RSP)
          [] OTHER -> Refused(FAILURE)

\* The scene's id is read from the answer to a view only, which also reads what a failed
\* one does not hold; the extension is not read.
ProcessInScenesClient(m) ==
    LET one == <<U8("status"), U16("groupID")>>
        scene == <<U8("sceneID"), U16("transTime"), Counted("name", 1)>>
        list == <<U8("status"), U8("capacity"), U16("groupID")>>
        listed == Offered(m, "SceneRsp", list \o Only(StatusOf(m) = SUCCESS, <<Counted("sceneList", 1)>>))
    IN  CASE m.id = Scene.VIEW_RSP -> Offered(m, "SceneRsp", one \o scene)
          [] m.id \in {Scene.ADD_RSP, Scene.REMOVE_RSP, Scene.REMOVE_ALL_RSP, Scene.STORE_RSP} ->
                And(Offered(m, "SceneRsp", one), [sceneID |-> <<0>>])
          [] m.id = Scene.GET_MEMBERSHIP_RSP ->
                IF m.memory THEN listed ELSE And(listed, [sceneList |-> <<>>])
          [] OTHER -> Refused(FAILURE)

ProcessInOnOff(m) ==
    CASE IsServer(m) /\ m.id > OnOff.TOGGLE -> Refused(FAILURE)
      [] IsServer(m) /\ m.id <= OnOff.TOGGLE -> And(Offered(m, "OnOff", <<>>), [cmd |-> <<m.id>>])
      [] OTHER -> Refused(SUCCESS)

ProcessInLevelControl(m) ==
    LET withOnOff == [withOnOff |-> m.id >= Level.MOVE_TO_LEVEL_WITH_ON_OFF]
    IN  CASE IsServer(m) /\ m.id \in {Level.MOVE_TO_LEVEL, Level.MOVE_TO_LEVEL_WITH_ON_OFF} ->
                And(Offered(m, "MoveToLevel", <<U8("level"), U16("transitionTime")>>), withOnOff)
          [] IsServer(m) /\ m.id \in {Level.MOVE, Level.MOVE_WITH_ON_OFF} ->
                And(Offered(m, "LevelMove", <<U8("moveMode"), U8("rate")>>), withOnOff)
          [] IsServer(m) /\ m.id \in {Level.STEP, Level.STEP_WITH_ON_OFF} ->
                And(Offered(m, "LevelStep", <<U8("stepMode"), U8("amount"), U16("transitionTime")>>), withOnOff)
          [] IsServer(m) /\ m.id \in {Level.STOP, Level.STOP_WITH_ON_OFF} -> Offered(m, "LevelStop", <<>>)
          [] IsServer(m) /\ m.id > Level.STOP_WITH_ON_OFF -> Refused(FAILURE)
          [] OTHER -> Refused(SUCCESS)

ProcessInAlarmsServer(m) ==
    CASE m.id = Alarms.RESET -> OfTable(m, "AlarmReset", <<U8("alarmCode"), U16("clusterID")>>, SUCCESS)
      [] m.id = Alarms.RESET_ALL -> OfTable(m, "AlarmResetAll", <<>>, SUCCESS)
      [] m.id = Alarms.GET -> OfTable(m, "AlarmGet", <<>>, CMD_HAS_RSP)
      [] m.id = Alarms.RESET_LOG -> OfTable(m, "AlarmResetLog", <<>>, SUCCESS)
      [] OTHER -> Refused(FAILURE)

ProcessInAlarmsClient(m) ==
    CASE m.id = Alarms.ALARM ->
            Offered(m, "Alarm", <<U8("status"), U8("alarmCode"), U16("clusterID"), U32("timeStamp")>>)
      [] m.id = Alarms.GET_RSP -> Offered(m, "Alarm", <<U8("alarmCode"), U16("clusterID")>>)
      [] OTHER -> Refused(FAILURE)

\* Whether the target's address is there is read from another bit than it was written by.
BrdcastResponse(m) == (At(m.octets, 1) \div 8) % 2 = 1
ProcessInLocationServer(m) ==
    LET Told(layout, status) == [Offered(m, "Location", layout) EXCEPT !.status = status]
    IN  CASE m.id = Location.SET_ABSOLUTE ->
                Told(<<U16("coordinate1"), U16("coordinate2"), U16("coordinate3"), U16("power"),
                       U16("pathLossExponent")>>, SUCCESS)
          [] m.id = Location.SET_DEV_CFG -> Told(DevCfg, SUCCESS)
          [] m.id = Location.GET_DEV_CFG -> Told(<<IEEE("targetAddr")>>, CMD_HAS_RSP)
          [] m.id = Location.GET_DATA ->
                Told(<<U8("bitmap"), U8("numResponses")>>
                     \o Only(~BrdcastResponse(m), <<IEEE("targetAddr")>>), CMD_HAS_RSP)
          [] OTHER -> Refused(FAILURE)

ProcessInLocationDataRsp(m) ==
    LET status == Only(m.id = Location.DATA_RSP, <<U8("status")>>)
        type == At(m.octets, Len(status) + 1)
        data == m.id # Location.DATA_RSP \/ StatusOf(m) = SUCCESS
    IN  Offered(m, "LocationRsp",
                status \o Only(data, LocationFields(m.id, type % 2 = 1, (type \div 2) % 2 = 1)))

\* The application is not told of a configuration response that failed.
ProcessInLocationClient(m) ==
    CASE m.id = Location.DEV_CFG_RSP ->
            IF StatusOf(m) = SUCCESS THEN Offered(m, "LocationRsp", <<U8("status")>> \o DevCfg)
            ELSE Refused(SUCCESS)
      [] m.id \in {Location.DATA_RSP, Location.DATA_NOTIF, Location.COMPACT_DATA_NOTIF} ->
            ProcessInLocationDataRsp(m)
      [] m.id = Location.RSSI_PING -> Offered(m, "LocationRsp", <<U8("locationType")>>)
      [] OTHER -> Refused(FAILURE)

GeneralSpecificCommands(m) ==
    CASE m.cluster = "BASIC" -> ProcessInBasic(m)
      [] m.cluster = "IDENTIFY" -> ProcessInIdentity(m)
      [] m.cluster = "GROUPS" -> IF IsServer(m) THEN ProcessInGroupsServer(m) ELSE ProcessInGroupsClient(m)
      [] m.cluster = "SCENES" -> IF IsServer(m) THEN ProcessInScenesServer(m) ELSE ProcessInScenesClient(m)
      [] m.cluster = "ON_OFF" -> ProcessInOnOff(m)
      [] m.cluster = "LEVEL_CONTROL" -> ProcessInLevelControl(m)
      [] m.cluster = "ALARMS" -> IF IsServer(m) THEN ProcessInAlarmsServer(m) ELSE ProcessInAlarmsClient(m)
      [] m.cluster = "LOCATION" -> IF IsServer(m) THEN ProcessInLocationServer(m) ELSE ProcessInLocationClient(m)
      [] OTHER -> Refused(FAILURE)

-----------------------------------------------------------------------------
(* The registration of the files and a command on its way. *)

Endpoint == 1
OtherEndpoint == 2

\* Commands of clusters and with ids that no file here knows: other devices may send them.
ForeignCommands ==
    [ShadeUnknown |-> Plain("SHADE_CONFIG", 0), MeasureUnknown |-> Plain("TEMPERATURE_MEASUREMENT", 0),
     PumpUnknown |-> Plain("PUMP", 0)]
       @@ [c \in {"GROUPS", "SCENES", "ALARMS", "LOCATION", "METERING", "PRICING", "MESSAGE", "LOAD_CONTROL",
                  "COLOR_CONTROL", "THERMOSTAT", "IAS_ZONE", "IAS_ACE", "IAS_WD", "GENERIC_TUNNEL",
                  "BACNET_TUNNEL", "11073_TUNNEL", "LEVEL_CONTROL"} |-> Plain(c, 99)]

Commands == SeCommands @@ HomeCommands @@ SsCommands @@ GeneralCommands @@ ForeignCommands

\* The file whose plug-in covers a cluster.
FileOf(cluster) ==
    CASE cluster \in {"METERING", "PRICING", "MESSAGE", "LOAD_CONTROL"} -> "se"
      [] cluster = "COLOR_CONTROL" -> "lighting"
      [] cluster \in {"PUMP", "THERMOSTAT"} -> "hvac"
      [] cluster \in {"GENERIC_TUNNEL", "BACNET_TUNNEL", "11073_TUNNEL"} -> "pi"
      [] cluster \in {"IAS_ZONE", "IAS_ACE", "IAS_WD"} -> "ss"
      [] cluster = "SHADE_CONFIG" -> "closures"
      [] cluster = "TEMPERATURE_MEASUREMENT" -> "ms"
      [] OTHER -> "general"

VARIABLES file,      \* the file whose clusters are used
          tried,     \* zcl..PluginRegisted: the plug-in was given to zcl_registerPlugin
          plugged,   \* and there was memory for it
          records,   \* the registered callbacks of the endpoints
          air,       \* the command under way, or none
          heard,     \* what became of it, or none
          zones, nextZone

vars == <<file, tried, plugged, records, air, heard, zones, nextZone>>

NoFrame == [name |-> "none"]

Init == /\ file \in Files
        /\ tried = FALSE /\ plugged = FALSE /\ records = <<>>
        /\ air = NoFrame /\ heard = NoFrame
        /\ zones = <<>> /\ nextZone = 0

-----------------------------------------------------------------------------
(* zcl.._RegisterCmdCallbacks.                                             *)

RegisterCmdCallbacks(endpoint, callbacks, pluginFits, recordFits) ==
    /\ air = NoFrame /\ heard = NoFrame
    /\ \A i \in DOMAIN records : records[i].endpoint # endpoint
    /\ tried' = TRUE
    /\ plugged' = (plugged \/ (~tried /\ pluginFits))
    /\ records' = IF recordFits THEN Append(records, [endpoint |-> endpoint, cbs |-> callbacks]) ELSE records
    /\ UNCHANGED <<file, air, heard, zones, nextZone>>

-----------------------------------------------------------------------------
(* Sending and receiving.                                                  *)

\* One of the options away from a unicast that asks for a default response.
Options == {[unicast |-> TRUE, disable |-> FALSE, manufacturer |-> FALSE],
            [unicast |-> FALSE, disable |-> FALSE, manufacturer |-> FALSE],
            [unicast |-> TRUE, disable |-> TRUE, manufacturer |-> FALSE],
            [unicast |-> TRUE, disable |-> FALSE, manufacturer |-> TRUE]}

\* zcl_SendCommand: the frame's options and the octets of the command.
Send(name, options) ==
    /\ air = NoFrame /\ heard = NoFrame
    /\ \E said \in Samples[name] : air' = [name |-> name, said |-> said, toPeer |-> FALSE] @@ options
    /\ UNCHANGED <<file, tried, plugged, records, heard, zones, nextZone>>

\* Mutant: only the first record is looked at.
FirstCallbacks(f) ==
    IF records = <<>> THEN "null" ELSE IF records[1].endpoint # Endpoint THEN "null" ELSE "found"

\* zcl.._FindCallbacks; the loop of zcl_pi.c never leaves the first record.
FindCallbacks(f) ==
    LET of == {i \in DOMAIN records : records[i].endpoint = Endpoint}
    IN  IF records = <<>> THEN "null"
        ELSE IF f = "pi" /\ records[1].endpoint # Endpoint THEN "hangs"
        ELSE IF of = {} THEN "null" ELSE "found"
CallbacksOf == UNION {records[i].cbs : i \in {j \in DOMAIN records : records[j].endpoint = Endpoint}}

SpecificCommands(m) ==
    CASE file = "se" -> SeSpecificCommands(m)
      [] file = "lighting" -> LightingSpecificCommands(m)
      [] file = "hvac" -> HvacSpecificCommands(m)
      [] file = "pi" -> PiSpecificCommands(m)
      [] file = "ss" -> SsSpecificCommands(m)
      [] file = "closures" -> ClosuresSpecificCommands(m)
      [] file = "ms" -> MsSpecificCommands(m)
      [] file = "general" -> GeneralSpecificCommands(m)

\* zcl.._HdlIncoming.
HdlIncoming(m, manufacturer) ==
    IF manufacturer \/ FindCallbacks(file) # "found" THEN Refused(FAILURE) ELSE SpecificCommands(m)

\* zcl_ProcessMessageMSG from the search for the plug-in on: who answers the sender.
Answers(outcome, unicast, disable) ==
    LET stack == "reply" \in DOMAIN outcome
        itself == outcome.callback = "itself"
        told == outcome.callback \notin {"none", "itself"}
    IN  (IF stack THEN {"stack"} ELSE {}) \cup (IF itself THEN {"itself"} ELSE {})
        \cup (IF told /\ ~stack /\ outcome.status = CMD_HAS_RSP THEN {"application"} ELSE {})
        \cup (IF outcome.status # CMD_HAS_RSP /\ unicast /\ ~disable THEN {"default"} ELSE {})

Receive(memory, returns, identifyTime) ==
    LET frame == Frame(Commands[air.name], air.said)
        m == [cbs |-> CallbacksOf, returns |-> returns, memory |-> memory, endpoint |-> Endpoint,
              zones |-> zones, next |-> nextZone, identifyTime |-> identifyTime] @@ frame
    IN  /\ air # NoFrame /\ heard = NoFrame /\ ~air.toPeer
        /\ ~(plugged /\ ~air.manufacturer /\ FindCallbacks(file) = "hangs")
        /\ \E outcome \in {IF plugged THEN HdlIncoming(m, air.manufacturer) ELSE Refused(FAILURE)} :
            /\ heard' = outcome @@ [name |-> air.name, answers |-> Answers(outcome, air.unicast, air.disable), memory |-> memory]
            /\ zones' = IF "zones" \in DOMAIN outcome THEN outcome.zones ELSE zones
            /\ nextZone' = IF "next" \in DOMAIN outcome THEN outcome.next ELSE nextZone
        /\ UNCHANGED <<file, tried, plugged, records, air>>

\* The device hangs on the command until it is reset: what was registered and enrolled is gone.
HangAndReset ==
    /\ air # NoFrame /\ heard = NoFrame /\ ~air.toPeer
    /\ plugged /\ ~air.manufacturer /\ FindCallbacks(file) = "hangs"
    /\ tried' = FALSE /\ plugged' = FALSE /\ records' = <<>> /\ zones' = <<>> /\ nextZone' = 0
    /\ air' = NoFrame
    /\ UNCHANGED <<file, heard>>

\* The response travels back, to a peer that has every callback.
Respond ==
    /\ heard # NoFrame /\ "reply" \in DOMAIN heard
    /\ air' = [name |-> heard.reply.name, said |-> heard.reply.fields, unicast |-> TRUE, disable |-> TRUE,
               manufacturer |-> FALSE, toPeer |-> TRUE]
    /\ heard' = NoFrame
    /\ UNCHANGED <<file, tried, plugged, records, zones, nextZone>>

ReceiveResponse ==
    LET frame == Frame(Commands[air.name], air.said)
        m == [cbs |-> UNION CallbackSets[file], returns |-> SUCCESS, memory |-> TRUE, endpoint |-> Endpoint,
              zones |-> <<>>, next |-> 0, identifyTime |-> <<0, 0>>] @@ frame
    IN  /\ air # NoFrame /\ heard = NoFrame /\ air.toPeer
        /\ \E outcome \in {SpecificCommands(m)} :
            heard' = outcome @@ [name |-> air.name, answers |-> Answers(outcome, TRUE, TRUE), memory |-> TRUE]
        /\ UNCHANGED <<file, tried, plugged, records, air, zones, nextZone>>

Done ==
    /\ heard # NoFrame /\ "reply" \notin DOMAIN heard
    /\ air' = NoFrame /\ heard' = NoFrame
    /\ UNCHANGED <<file, tried, plugged, records, zones, nextZone>>

\* The application forgets a zone.
Forget(id) ==
    /\ air = NoFrame /\ heard = NoFrame
    /\ zones' = RemoveZone(zones, Endpoint, id) /\ zones' # zones
    /\ UNCHANGED <<file, tried, plugged, records, air, heard, nextZone>>

\* It learns the address of an enrolled zone.
Locate(id, addr) ==
    /\ air = NoFrame /\ heard = NoFrame
    /\ zones' = UpdateZoneAddress(zones, Endpoint, id, addr) /\ zones' # zones
    /\ UNCHANGED <<file, tried, plugged, records, air, heard, nextZone>>

Ours == [f \in Files |-> {name \in DOMAIN Commands : FileOf(Commands[name].cluster) = f}]

Next ==
    \/ \E callbacks \in CallbackSets[file], pluginFits, recordFits \in BOOLEAN :
          \/ RegisterCmdCallbacks(Endpoint, callbacks, pluginFits, recordFits)
          \/ RegisterCmdCallbacks(OtherEndpoint, {}, pluginFits, recordFits)
    \/ \E name \in Ours[file], options \in Options : Send(name, options)
    \/ \E memory \in BOOLEAN, returns \in {SUCCESS, INVALID_FIELD}, identifyTime \in {<<0, 0>>, <<5, 0>>} :
          Receive(memory, returns, identifyTime)
    \/ HangAndReset \/ Respond \/ ReceiveResponse \/ Done
    \/ \E id \in 0 .. MaxZoneId - 1 : Forget(id)
    \/ \E id \in 0 .. MaxZoneId - 1, addr \in {Slice(<<1>>, 1, 8)} : Locate(id, addr)

Spec == Init /\ [][Next]_vars

-----------------------------------------------------------------------------
(* What the code promises.                                                 *)

\* The callback, or the operation of a table, a command is meant for.
MeantFor(name) ==
    CASE name = "ResetFactoryDefaults" -> "BasicReset"
      [] name \in {"GroupAddRsp", "GroupRemoveRsp", "GroupViewRsp", "GroupViewFailed", "GroupMembershipRsp"} ->
            "GroupRsp"
      [] name \in {"SceneAddRsp", "SceneRemoveRsp", "SceneRemoveAllRsp", "SceneStoreRsp", "SceneViewRsp",
                   "SceneViewFailed", "SceneMembershipRsp", "SceneMembershipFailed"} -> "SceneRsp"
      [] name \in {"Off", "On", "Toggle"} -> "OnOff"
      [] name = "MoveToLevelWithOnOff" -> "MoveToLevel"
      [] name = "LevelMoveWithOnOff" -> "LevelMove"
      [] name = "LevelStepWithOnOff" -> "LevelStep"
      [] name = "LevelStopWithOnOff" -> "LevelStop"
      [] name \in {"AlarmGetRsp", "AlarmGetFailed"} -> "Alarm"
      [] name \in {"SetAbsolute", "SetDevCfg", "GetDevCfg", "GetLocationData", "GetLocationDataBroadcast"} ->
            "Location"
      [] name \in {"DevCfgRsp", "DevCfgFailed", "LocationDataRsp", "LocationDataFailed", "LocationDataNotif",
                   "LocationDataNotifFlat", "LocationCompactNotif", "LocationCompactNotifAbsolute", "RSSIPing"} ->
            "LocationRsp"
      [] OTHER -> name

\* What is told beside the fields that were sent.
ToldBeside(name) ==
    CASE name \in {"MoveToLevel", "LevelMove", "LevelStep"} -> [withOnOff |-> FALSE]
      [] name \in {"MoveToLevelWithOnOff", "LevelMoveWithOnOff", "LevelStepWithOnOff"} -> [withOnOff |-> TRUE]
      [] name = "Off" -> [cmd |-> <<OnOff.OFF>>]
      [] name = "On" -> [cmd |-> <<OnOff.ON>>]
      [] name = "Toggle" -> [cmd |-> <<OnOff.TOGGLE>>]
      [] OTHER -> <<>>

\* Fields the receiving function is known to lose: the answers to scene requests other than a
\* view leave the scene's id out, a viewed scene its extension, and the answer to an alarm
\* request is read as if it had no status.
Lost(name) ==
    CASE name \in {"SceneAddRsp", "SceneRemoveRsp", "SceneStoreRsp"} -> {"sceneID"}
      [] name = "SceneViewRsp" -> {"extField"}
      [] name \in {"AlarmGetRsp", "AlarmGetFailed"} -> {"status", "alarmCode", "clusterID", "timeStamp"}
      [] OTHER -> {}

\* Commands that never reach their callback: an alarm is sent to the server, where its id
\* stands for a reset; a failed configuration response is dropped; a query for who identifies
\* itself, and the zones, are answered by the file.
Astray == {"Alarm", "DevCfgFailed", "IdentifyQuery", "GetZoneIDMap", "GetZoneInformation"}
            \cup DOMAIN ForeignCommands

Told == heard.callback \notin {"none", "itself"}
SameFields ==
    LET meant == ToldBeside(air.name) @@ air.said
    IN  \A f \in DOMAIN meant \ Lost(air.name) : f \in DOMAIN heard.fields /\ heard.fields[f] = meant[f]

\* A command that reaches a callback reaches the one it is meant for, with the values it was sent
\* with.  A pricing application that has not registered for prices is called through a null
\* pointer ("null").
HeardAsSaid ==
    heard # NoFrame /\ Told /\ heard.callback # "null" /\ heard.memory /\ air.name # "Alarm"
       => heard.callback = MeantFor(air.name) /\ SameFields

\* And it reaches one when the file and the endpoint are registered with it, there is memory
\* and no field is out of its range.
ReachesItsCallback ==
    heard # NoFrame /\ ~air.toPeer /\ plugged /\ ~air.manufacturer /\ heard.memory
    /\ MeantFor(air.name) \in CallbacksOf
    /\ air.name \notin Astray \cup {"EnrollRequest"} /\ heard.status # INVALID_FIELD
    /\ heard.callback # "itself"
       => Told

\* Commands whose only answer is a response of their own.
Queries == {"GetProfileCmd", "GetCurrentPrice", "GetScheduledPrice", "GetLastMessage", "LoadControlEvent",
            "EnrollRequest", "Arm", "GetZoneIDMap", "GetZoneInformation", "IdentifyQuery", "GroupAdd",
            "GroupView", "GroupGetMembership", "GroupRemove", "SceneAdd", "SceneView", "SceneRemove",
            "SceneRemoveAll", "SceneStore", "SceneGetMembership", "AlarmGet", "GetDevCfg",
            "GetLocationData", "GetLocationDataBroadcast"}
\* And those among them that may get none.
MayStaySilent == {"Arm", "IdentifyQuery", "GetDevCfg", "GetLocationData", "GetLocationDataBroadcast"}

\* A unicast command that asks for an answer gets exactly one, a query never the
\* default response that it succeeded.
Answered ==
    heard # NoFrame /\ ~air.toPeer /\ air.unicast /\ ~air.disable
       => /\ Cardinality(heard.answers) = 1 \/ (heard.answers = {} /\ air.name \in MayStaySilent)
          /\ air.name \in Queries /\ heard.answers = {"default"} => heard.status # SUCCESS

\* A zone that is told it has enrolled is in the table under the id it was told, and the
\* table stays below its size.
EnrolmentKept ==
    /\ Len(zones) < MaxZones /\ \A i \in DOMAIN zones : zones[i].zoneID \in 0 .. MaxZoneId - 1
    /\ heard # NoFrame /\ "reply" \in DOMAIN heard /\ heard.name = "EnrollRequest"
       /\ heard.reply.fields.responseCode = <<SUCCESS>>
          => FindZone(zones, Endpoint, heard.reply.fields.zoneID[1]) # <<>>

\* GetNextFreeZoneID finds an id no zone has.
ZoneIdsUnique == \A i, j \in DOMAIN zones : zones[i].zoneID = zones[j].zoneID => i = j
=============================================================================
