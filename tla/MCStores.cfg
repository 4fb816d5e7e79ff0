SPECIFICATION MCSpec
CONSTANTS
    Gaps <- Short
    MaxTicks = 72000
    SMALLBLKHEAP = 8
    HeapEnd = 21
    OSALMEM_SMALL_BLKSZ = 4
    OSALMEM_MIN_BLKSZ = 4
    Sizes = {1, 2, 5}
    hotId = hotId
    coldId = coldId
    v1 = v1
    v2 = v2
    ERASED = ERASED
    ZEROED = ZEROED
    BAD = BAD
    None = None
    Pages = 3
    Slots = 2
    Item <- MCItem
    Hot <- MCHot
    Value <- MCValue
    MaxFaults = 2
    FaultOps = {"old", "use", "xfer"}
    Failures = {"power", "tear", "write"}
    Devices = {d1, d2, d3}
    Addrs = {a0, a1}
    Parents = {a0}
    Size = 2
    Nobody = Nobody
    Nowhere = Nowhere
    TrustCenterAddr = a0
    MaxChanges = 2
    MaxCalls = 3
    MaxFrames = 2
    MaxTrouble = 1
    Kinds <- MCSensors
    Noise = 40
    Before = {0, 1}
    Waiting = 4
    Commands = {"c1", "c2"}
    Offers <- MCOffers
    Room = 2
    MaxSapiCalls = 2
    MaxRequests = 3
    MaxNoMemory = 1
CHECK_DEADLOCK FALSE
INVARIANTS
    ClockExact
    HeapSound
    LinkKeysSound
    LinkSound
    SapiSound
PROPERTIES
    NvStores
