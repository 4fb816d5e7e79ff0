SPECIFICATION MCSpec
CONSTANTS
    Slots = 3
    Retries = 2
    Pieces = 2
    MaxFrames = 3
    Third = 2
    Kinds <- MCKinds
    Commands <- MCCommands
    Inputs = 1
    Builds <- MCBuilds
    NumDisc = 1
    MaxResume = 1
    DiscWidth = 3
    MaxChanges = 1
    EnergySteps = 1
    MaxQueue = 2
    MaxTrouble = 2
    MaxDevFrames = 3
    d1 = d1
    d2 = d2
    d3 = d3
    Devices = {d1, d2, d3}
    Restores <- MCRestores
    Addrs = {a1, a2}
    Size = 2
    Nobody = Nobody
    Nowhere = Nowhere
    Modes = {"high", "standard"}
    Self = p0
    Parents = {p0, p1}
    MaxSecQueue = 2
    MaxJoins = 1
    MaxSecTrouble = 1
CHECK_DEADLOCK FALSE
PROPERTY
    StoresFailedFrame
