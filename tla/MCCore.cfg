SPECIFICATION MCSpec
CONSTANTS
    m1 = m1
    m2 = m2
    m3 = m3
    tasksCnt = 2
    Msg <- MCMsg
    UserEvent = {"EVT_A", "EVT_B"}
    Handles <- MCHandles
    MaxStimuli = 4
    t1 = t1
    t2 = t2
    r1 = r1
    r2 = r2
    r3 = r3
    NULL = NULL
    Timer <- MCTimer
    Rec <- MCRec
    MaxTimeout = 2
    MaxLag = 2
    MaxCalls = 3
    Frames <- MCFrames
    NoFrame = NoFrame
    MaxCsmaBackoffs = 1
    MaxRetries = 1
    MaxSends = 2
    MaxMacCalls = 2
    MaxFrames = 2
    MaxTrouble = 1
CHECK_DEADLOCK FALSE
INVARIANTS
    KernelSound
    TimersSound
    RadioSound
PROPERTIES
    EventsNotLost
    MailboxSpec
    StimuliServed
    TimersServe
    Completes
