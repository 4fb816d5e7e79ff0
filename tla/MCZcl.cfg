SPECIFICATION MCSpec
CONSTANTS
    devA = devA
    devB = devB
    hub = hub
    other = other
    MaxZones = 4
    MaxZoneId = 3
    Samples <- MCSamples
    Files <- MCFiles
    CallbackSets <- MCCallbackSets
    GroupIds = {1}
    SceneIds = {1, 2}
    SceneData = {s0}
    NoData = n0
    MAX_SCENES = 2
    MAX_GROUPS = 1
    AlarmCodes = {7}
    MAX_ALARMS = 2
    MAX_FAILS = 1
    Nodes = {devA, devB, hub, other}
    Links <- MCLinks
    Issuer <- MCIssuer
    MaxRecs = 2
    NoKey = NoKey
    Plans <- MCPlans
    MaxTrouble = 1
    MT_AF_EXEC_CNT = 2
    Budget = 4
CHECK_DEADLOCK FALSE
INVARIANTS
    ClustersSound
    CbkeSound
PROPERTIES
    ScenesSound
    MtSound
    AloneSucceeds
