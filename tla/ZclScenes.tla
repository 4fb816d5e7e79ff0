------------------------------ MODULE ZclScenes ------------------------------
(***************************************************************************)
(* The group, scene and alarm tables behind the general clusters           *)
(* (zcl_general.c) of one endpoint.  The scene table is saved in           *)
(* non-volatile memory with every change of it, one osal_nv_write after    *)
(* another and the header last; power may fail between two of them.  The   *)
(* restore adds every scene to the table again, and so saves it again.     *)
(***************************************************************************)
EXTENDS Layouts, FiniteSets

CONSTANTS GroupIds,     \* groups a command may name; 0 stands for no group
          SceneIds,
          SceneData,    \* what a scene keeps: transition time, name, extension
          NoData,       \* all of it zero
          MAX_SCENES,   \* ZCL_GEN_MAX_SCENES
          MAX_GROUPS,   \* APS_MAX_GROUPS
          AlarmCodes,
          MAX_ALARMS,   \* bound: alarms the application raises
          MAX_FAILS     \* bound: power failures

ASSUME SceneTableAssumption == MAX_SCENES \in Nat

INSUFFICIENT_SPACE == 137
DUPLICATE_EXISTS == 138
NOT_FOUND == 139

Blank == [group |-> 0, id |-> 0, data |-> NoData]

VARIABLES groups,      \* the endpoint's groups in the APS group table
          scenes,      \* zclGenSceneTable
          sceneNv,     \* ZCD_NV_SCENE_TABLE: the number of records, and the records
          writing,     \* the writes of ScenesWriteNV that are still to be done
          restoring,   \* the record to be restored next, and their number; or none
          alarms,      \* zclGenAlarmTable
          raised,      \* the alarms raised so far
          lastAnswer,  \* the last command and what it was answered
          meant,       \* the scenes the last finished command and the one under way leave
          fails,
          torn         \* power failed over a write that moves records, or memory ran out in a restore

scenesVars == <<groups, scenes, sceneNv, writing, restoring, alarms, raised, lastAnswer, meant, fails, torn>>

NoRestore == [at |-> 0, of |-> 0]
NoAnswer == [op |-> "none", status |-> SUCCESS]

ScenesInit == /\ groups = {} /\ scenes = <<>>
        /\ sceneNv = [num |-> 0, items |-> [i \in 1 .. MAX_SCENES |-> Blank]]
        /\ writing = <<>> /\ restoring = NoRestore
        /\ alarms = <<>> /\ raised = 0
        /\ lastAnswer = NoAnswer /\ meant = {scenes} /\ fails = 0 /\ torn = FALSE

Quiet == writing = <<>> /\ restoring = NoRestore
\* Nothing is asked of a table that is torn: what it holds is not known any more.
Running == Quiet /\ lastAnswer = NoAnswer /\ ~torn
Torn == torn /\ UNCHANGED scenesVars
SceneAnswers(op, key, status, unicast) ==
    lastAnswer' = [op |-> op, key |-> key, status |-> status, sent |-> unicast]

\* The answer is on its way; the next command may come.
SceneAnswered ==
    /\ Quiet /\ lastAnswer # NoAnswer /\ lastAnswer' = NoAnswer
    /\ UNCHANGED <<groups, scenes, sceneNv, writing, restoring, alarms, raised, meant, fails, torn>>

-----------------------------------------------------------------------------
(* Tables.                                                                 *)

FindGroup(g) == g \in groups
Places(g, id) == {i \in DOMAIN scenes : scenes[i].group = g /\ scenes[i].id = id}
FindScene(g, id) == Places(g, id) # {}
First(S) == CHOOSE i \in S : \A j \in S : i <= j
CountAllScenes == Len(scenes)

\* Mutant: the header is written first.
ScenesWriteNVHeaderFirst(table) ==
    [i \in 1 .. Len(table) + 1 |->
        IF i > 1 THEN [at |-> i - 1, item |-> table[i - 1]] ELSE [at |-> 0, item |-> Len(table)]]

\* The records of the other groups, in their order.
OtherGroups(table, g) ==
    LET left == {i \in DOMAIN table : table[i].group # g}
    IN  [n \in 1 .. Cardinality(left) |->
            table[CHOOSE i \in left : Cardinality({j \in left : j <= i}) = n]]

\* zclGeneral_ScenesWriteNV: the records in the order of the table, then the header.
ScenesWriteNV(table) ==
    [i \in 1 .. Len(table) + 1 |->
        IF i <= Len(table) THEN [at |-> i, item |-> table[i]] ELSE [at |-> 0, item |-> Len(table)]]

\* The table changes and is saved.
Save(table) ==
    /\ scenes' = table /\ writing' = ScenesWriteNV(table)
    /\ meant' = {scenes, table}
Keep == UNCHANGED <<scenes, writing, meant>>

AddScene(scene, memory) == IF memory THEN Save(Append(scenes, scene)) ELSE Keep

\* One of the writes is done.
NvWrite ==
    /\ writing # <<>>
    /\ sceneNv' = IF Head(writing).at = 0 THEN [sceneNv EXCEPT !.num = Head(writing).item]
             ELSE [sceneNv EXCEPT !.items[Head(writing).at] = Head(writing).item]
    /\ writing' = Tail(writing)
    /\ meant' = IF Len(writing) = 1 /\ restoring = NoRestore THEN {scenes} ELSE meant
    /\ UNCHANGED <<groups, scenes, restoring, alarms, raised, lastAnswer, fails, torn>>

-----------------------------------------------------------------------------
(* Groups (the table itself belongs to the APS layer).                     *)

aps_AddGroup(g) ==
    IF FindGroup(g) THEN DUPLICATE_EXISTS
    ELSE IF Cardinality(groups) >= MAX_GROUPS THEN INSUFFICIENT_SPACE ELSE SUCCESS

GroupAdd(g) ==
    /\ Running /\ g # 0
    /\ groups' = IF aps_AddGroup(g) = SUCCESS THEN groups \cup {g} ELSE groups
    /\ SceneAnswers("GroupAdd", <<g>>, aps_AddGroup(g), TRUE)
    /\ Keep /\ UNCHANGED <<sceneNv, restoring, alarms, raised, fails, torn>>

GroupView(g) ==
    /\ Running /\ g # 0
    /\ SceneAnswers("GroupView", <<g>>, IF FindGroup(g) THEN SUCCESS ELSE NOT_FOUND, TRUE)
    /\ Keep /\ UNCHANGED <<groups, sceneNv, restoring, alarms, raised, fails, torn>>

\* A list of groups none of which is known is not answered.
GroupGetMembership(asked, memory) ==
    LET found == IF asked = {} THEN groups ELSE asked \cap groups
    IN  /\ Running
        /\ lastAnswer' = [op |-> "GroupGetMembership", key |-> found,
                      status |-> IF memory THEN SUCCESS ELSE INSUFFICIENT_SPACE,
                      sent |-> ~memory \/ asked = {} \/ found # {}]
        /\ Keep /\ UNCHANGED <<groups, sceneNv, restoring, alarms, raised, fails, torn>>

GroupRemove(g) ==
    /\ Running /\ g # 0
    /\ SceneAnswers("GroupRemove", <<g>>, IF FindGroup(g) THEN SUCCESS ELSE NOT_FOUND, TRUE)
    /\ groups' = groups \ {g}
    /\ Keep /\ UNCHANGED <<sceneNv, restoring, alarms, raised, fails, torn>>

\* The scenes of the groups stay.
GroupRemoveAll ==
    /\ Running /\ groups' = {} /\ lastAnswer' = NoAnswer
    /\ Keep /\ UNCHANGED <<sceneNv, restoring, alarms, raised, fails, torn>>

GroupAddIfIdentifying(g, identifying) ==
    /\ Running /\ g # 0
    /\ groups' = IF identifying /\ aps_AddGroup(g) = SUCCESS THEN groups \cup {g} ELSE groups
    /\ lastAnswer' = NoAnswer
    /\ Keep /\ UNCHANGED <<sceneNv, restoring, alarms, raised, fails, torn>>

-----------------------------------------------------------------------------
(* Scenes.                                                                 *)

KnownGroup(g) == g = 0 \/ FindGroup(g)

\* Mutant: a full table refuses the scenes it has.
AdmitsNewOnly(g, id) ==
    IF ~KnownGroup(g) THEN INVALID_FIELD
    ELSE IF CountAllScenes < MAX_SCENES THEN SUCCESS ELSE INSUFFICIENT_SPACE

\* What an addition or a store is answered before the table is changed.
Admits(g, id) ==
    IF ~KnownGroup(g) THEN INVALID_FIELD
    ELSE IF FindScene(g, id) \/ CountAllScenes < MAX_SCENES THEN SUCCESS ELSE INSUFFICIENT_SPACE

\* A scene that finds no memory is answered as added.
SceneAdd(g, id, data, memory) ==
    /\ Running
    /\ SceneAnswers("SceneAdd", <<g, id, data, memory>>, Admits(g, id), TRUE)
    /\ CASE Admits(g, id) # SUCCESS -> Keep
         [] Admits(g, id) = SUCCESS /\ FindScene(g, id) ->
               Save([scenes EXCEPT ![First(Places(g, id))].data = data])
         [] OTHER -> AddScene([group |-> g, id |-> id, data |-> data], memory)
    /\ UNCHANGED <<groups, sceneNv, restoring, alarms, raised, fails, torn>>

SceneView(g, id) ==
    /\ Running
    /\ SceneAnswers("SceneView", <<g, id>>,
               IF FindScene(g, id) THEN SUCCESS ELSE IF KnownGroup(g) THEN NOT_FOUND ELSE INVALID_FIELD, TRUE)
    /\ Keep /\ UNCHANGED <<groups, sceneNv, restoring, alarms, raised, fails, torn>>

\* Mutant: the record is unlinked and the table not saved.
SceneRemoveUnsaved(g, id, unicast) ==
    /\ Running
    /\ SceneAnswers("SceneRemove", <<g, id>>, IF FindScene(g, id) THEN SUCCESS ELSE NOT_FOUND, unicast)
    /\ scenes' = IF FindScene(g, id) THEN RemoveAt(scenes, First(Places(g, id))) ELSE scenes
    /\ meant' = {scenes'} /\ UNCHANGED writing
    /\ UNCHANGED <<groups, sceneNv, restoring, alarms, raised, fails, torn>>

\* The group that is no group is looked up in the group table.
SceneRemove(g, id, unicast) ==
    /\ Running
    /\ SceneAnswers("SceneRemove", <<g, id>>,
               IF FindScene(g, id) THEN SUCCESS ELSE IF FindGroup(g) THEN NOT_FOUND ELSE INVALID_FIELD, unicast)
    /\ IF FindScene(g, id) THEN Save(RemoveAt(scenes, First(Places(g, id)))) ELSE Keep
    /\ UNCHANGED <<groups, sceneNv, restoring, alarms, raised, fails, torn>>

SceneRemoveAll(g, unicast) ==
    /\ Running
    /\ SceneAnswers("SceneRemoveAll", <<g>>, IF KnownGroup(g) THEN SUCCESS ELSE INVALID_FIELD, unicast)
    /\ IF KnownGroup(g) THEN Save(OtherGroups(scenes, g)) ELSE Keep
    /\ UNCHANGED <<groups, sceneNv, restoring, alarms, raised, fails, torn>>

\* The application fills the scene in; filled is what it leaves in it, or none.
SceneStore(g, id, filled, memory, unicast) ==
    /\ Running
    /\ SceneAnswers("SceneStore", <<g, id, memory>>, Admits(g, id), unicast)
    /\ CASE Admits(g, id) # SUCCESS -> Keep
         [] Admits(g, id) = SUCCESS /\ FindScene(g, id) ->
               IF filled = NoData THEN Keep ELSE Save([scenes EXCEPT ![First(Places(g, id))].data = filled])
         [] OTHER -> AddScene([group |-> g, id |-> id, data |-> filled], memory)
    /\ UNCHANGED <<groups, sceneNv, restoring, alarms, raised, fails, torn>>

SceneRecall(g, id) ==
    /\ Running
    /\ lastAnswer' = [op |-> "SceneRecall", key |-> <<g, id>>, sent |-> FALSE,
                  status |-> IF FindScene(g, id) THEN SUCCESS ELSE NOT_FOUND]
    /\ Keep /\ UNCHANGED <<groups, sceneNv, restoring, alarms, raised, fails, torn>>

\* zclGeneral_FindAllScenesForGroup; a broadcast is answered only when there are some.
SceneGetMembership(g, memory, unicast) ==
    LET found == {scenes[i].id : i \in {j \in DOMAIN scenes : scenes[j].group = g}}
        status == IF ~KnownGroup(g) THEN INVALID_FIELD ELSE IF memory THEN SUCCESS ELSE INSUFFICIENT_SPACE
    IN  /\ Running
        /\ lastAnswer' = [op |-> "SceneGetMembership", key |-> <<g, found>>, status |-> status,
                      sent |-> unicast \/ status # SUCCESS \/ found # {}]
        /\ Keep /\ UNCHANGED <<groups, sceneNv, restoring, alarms, raised, fails, torn>>

-----------------------------------------------------------------------------
(* Power failure and restart (zclGeneral_ScenesInitNV, RestoreFromNV).     *)

\* A restore is cut short, or a write that moves records: one of the table as it was, or
\* longer, moves none.
CutShort ==
    \/ restoring # NoRestore /\ restoring.at > 1
    \/ writing # <<>> /\ \E old \in meant : ~IsPrefix(old, scenes) /\ Len(old) # Len(scenes)

PowerFails ==
    /\ fails < MAX_FAILS /\ ~torn /\ fails' = fails + 1
    /\ scenes' = <<>> /\ alarms' = <<>> /\ writing' = <<>>
    /\ restoring' = IF sceneNv.num = 0 THEN NoRestore ELSE [at |-> 1, of |-> sceneNv.num]
    /\ torn' = (torn \/ CutShort)
    /\ lastAnswer' = NoAnswer
    /\ UNCHANGED <<groups, sceneNv, raised, meant>>

\* Each record is read when the one before it has been added, and the table with it saved.
RestoreStep(memory) ==
    /\ restoring # NoRestore /\ writing = <<>> /\ restoring.at <= restoring.of
    /\ restoring' = [restoring EXCEPT !.at = @ + 1]
    /\ IF memory
       THEN /\ scenes' = Append(scenes, sceneNv.items[restoring.at])
            /\ writing' = ScenesWriteNV(scenes')
       ELSE UNCHANGED <<scenes, writing>>
    /\ torn' = (torn \/ ~memory)
    /\ UNCHANGED <<groups, sceneNv, alarms, raised, lastAnswer, meant, fails>>

RestoreDone ==
    /\ restoring # NoRestore /\ writing = <<>> /\ restoring.at > restoring.of
    /\ restoring' = NoRestore
    /\ UNCHANGED <<groups, scenes, sceneNv, writing, alarms, raised, lastAnswer, meant, fails, torn>>

-----------------------------------------------------------------------------
(* Alarms.  The time of an alarm is its place among those raised.          *)

AddAlarm(code, memory) ==
    /\ Running /\ raised < MAX_ALARMS /\ raised' = raised + 1
    /\ alarms' = IF memory THEN Append(alarms, [code |-> code, time |-> raised + 1]) ELSE alarms
    /\ lastAnswer' = NoAnswer
    /\ Keep /\ UNCHANGED <<groups, sceneNv, restoring, fails, torn>>

WithCode(code) == {i \in DOMAIN alarms : alarms[i].code = code}
ResetAlarmIn(code) == IF WithCode(code) = {} THEN alarms ELSE RemoveAt(alarms, First(WithCode(code)))

AlarmReset(code) ==
    /\ Running /\ alarms' = ResetAlarmIn(code) /\ lastAnswer' = NoAnswer
    /\ Keep /\ UNCHANGED <<groups, sceneNv, restoring, raised, fails, torn>>

\* Both without and with telling the application: AlarmResetLog and AlarmResetAll.
ResetAllAlarms ==
    /\ Running /\ alarms' = <<>> /\ lastAnswer' = NoAnswer
    /\ Keep /\ UNCHANGED <<groups, sceneNv, restoring, raised, fails, torn>>

\* Mutant: the latest alarm is told.
FindLatestAlarm == CHOOSE i \in DOMAIN alarms : \A j \in DOMAIN alarms : alarms[j].time <= alarms[i].time

FindEarliestAlarm == CHOOSE i \in DOMAIN alarms : \A j \in DOMAIN alarms : alarms[i].time <= alarms[j].time

\* The alarm that is told is then removed by its code.
AlarmGet ==
    /\ Running
    /\ IF alarms = <<>>
       THEN alarms' = alarms /\ SceneAnswers("AlarmGet", <<0, 0>>, NOT_FOUND, TRUE)
       ELSE LET told == alarms[FindEarliestAlarm]
            IN  /\ SceneAnswers("AlarmGet", <<told.code, told.time>>, SUCCESS, TRUE)
                /\ alarms' = ResetAlarmIn(told.code)
    /\ Keep /\ UNCHANGED <<groups, sceneNv, restoring, raised, fails, torn>>

-----------------------------------------------------------------------------
ScenesNext ==
    \/ \E g \in GroupIds \cup {0} :
          \/ GroupAdd(g) \/ GroupView(g) \/ GroupRemove(g)
          \/ \E identifying \in BOOLEAN : GroupAddIfIdentifying(g, identifying)
          \/ \E unicast \in BOOLEAN : SceneRemoveAll(g, unicast)
          \/ \E memory, unicast \in BOOLEAN : SceneGetMembership(g, memory, unicast)
          \/ \E id \in SceneIds :
                \/ SceneView(g, id) \/ SceneRecall(g, id)
                \/ \E unicast \in BOOLEAN : SceneRemove(g, id, unicast)
                \/ \E data \in SceneData, memory \in BOOLEAN : SceneAdd(g, id, data, memory)
                \/ \E filled \in SceneData \cup {NoData}, memory, unicast \in BOOLEAN :
                      SceneStore(g, id, filled, memory, unicast)
    \/ SceneAnswered \/ Torn \/ GroupRemoveAll
    \/ \E asked \in SUBSET GroupIds, memory \in BOOLEAN : GroupGetMembership(asked, memory)
    \/ NvWrite \/ PowerFails \/ RestoreDone \/ \E memory \in BOOLEAN : RestoreStep(memory)
    \/ \E code \in AlarmCodes, memory \in BOOLEAN : AddAlarm(code, memory)
    \/ \E code \in AlarmCodes : AlarmReset(code)
    \/ ResetAllAlarms \/ AlarmGet

ScenesSpec == ScenesInit /\ [][ScenesNext]_scenesVars

-----------------------------------------------------------------------------
(* What the tables promise.                                                *)

Key(s) == <<s.group, s.id>>
OneEach(table) == \A i, j \in DOMAIN table : Key(table[i]) = Key(table[j]) => i = j

\* A scene is in the table once, the table fits its record in non-volatile memory, and once the
\* writes are done what is saved is the table: unless a restore or a removal was cut short.
TableSaved ==
    ~torn => /\ OneEach(scenes) /\ Len(scenes) <= MAX_SCENES
             /\ Quiet => sceneNv.num = Len(scenes) /\ SubSeq(sceneNv.items, 1, sceneNv.num) = scenes

\* Whenever power fails, what comes back is the table before the command under way or after it.
ComesBack == ~torn /\ Quiet => scenes \in meant

\* What an answer says is so: a scene answered as added or stored is in the table (if there was
\* memory for it), one answered as removed is not, and one that is said to be missing is.
AnswerTrue ==
    lastAnswer.op \in {"SceneAdd", "SceneStore", "SceneView", "SceneRemove"} /\ Quiet /\ ~torn =>
        LET there == FindScene(lastAnswer.key[1], lastAnswer.key[2])
            memory == lastAnswer.op \in {"SceneAdd", "SceneStore"} => lastAnswer.key[Len(lastAnswer.key)]
        IN  CASE lastAnswer.status = SUCCESS -> memory => (there <=> lastAnswer.op # "SceneRemove")
              [] lastAnswer.status \in {NOT_FOUND, INSUFFICIENT_SPACE} -> ~there
              [] OTHER -> ~FindGroup(lastAnswer.key[1])

\* The alarm that is told is the earliest, and it is the one that goes: none is told twice or lost.
EarliestTold ==
    LET told == {i \in DOMAIN alarms : <<alarms[i].code, alarms[i].time>> = lastAnswer'.key}
    IN  lastAnswer' # lastAnswer /\ lastAnswer'.op = "AlarmGet" /\ lastAnswer'.status = SUCCESS
          => \E i \in told : /\ alarms' = RemoveAt(alarms, i)
                             /\ \A j \in DOMAIN alarms' : alarms'[j].time > alarms[i].time
AlarmsToldInOrder == [][EarliestTold]_scenesVars

\* The tables of scenes and alarms: saved and restored, truly answered, and
\* alarms told in order.
ScenesSound == [](TableSaved /\ ComesBack /\ AnswerTrue) /\ AlarmsToldInOrder
=============================================================================
