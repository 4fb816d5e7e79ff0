SPECIFICATION MCSpec
CONSTANTS
    Nodes <- MCNodes
    Requests <- MCRequests
    MaxBinds = 5
    Devices = {"a", "b"}
    Pressed <- MCPressed
    BindTables <- MCTables
    Hosted = {"End_Device_Bind_req"}
    TableMax = 2
    MaxPresses = 3
    MaxTroubles = 1
    Descriptors <- MCDescriptors
    Groups <- MCGroups
    Addresses <- MCAddresses
    Asks <- MCAsks
    Frames <- MCFrames
    Fragments = FALSE
    MaxEntries = 2
    MaxRequests = 2
    MaxShortages = 1
    Lists <- MCLists
    Options <- MCOptions
    Plugins <- MCPlugins
    ZclRequests <- MCZclRequests
    Reports <- MCReports
    MaxZclRequests = 2
    MaxTrouble = 1
    NwkDevices = {"m", "d"}
    Manager = "m"
    Channels = {1, 2}
    PanIds = {1, 2}
    IdSize = 4
    FirstId = 1
    ScanMax = 2
    FF = 4
    ReportMax = 2
    Period = 2
    MaxInputs = 3
CHECK_DEADLOCK FALSE
INVARIANTS
    MessagesSound
    DataSound
    PressesAnswered
PROPERTIES
    SuccessToggles
    ManagerSound
