SPECIFICATION MCSpec
CONSTANTS
    TxMax = 2
    txTick = 2
    SleepTimer = 8
    LongestRound = 4
    MaxBytes = 3
    RxMax = 4
    High = 3
    Full = 4
    Idle = 3
    RxSleepTimer = 5
    RxLongestRound = 3
    MaxOctets = 2
    RtsHeeded = FALSE
    tasksCnt = 2
    Timer <- MCTimer
    Owner <- MCOwner
    KeyTimer = "key"
    Debounce = 2
    MinTimeout = 2
    MaxTimeout = 3
    MinSleep = 1
    PollRates = {0, 1}
    MaxLag = 1
    MaxStimuli = 1
CHECK_DEADLOCK FALSE
PROPERTY
    WrittenIsSent
