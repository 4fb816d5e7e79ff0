SPECIFICATION MCSpec
CONSTANTS
    TxMax = 3
    txTick = 2
    SleepTimer = 6
    LongestRound = 7
    MaxBytes = 6
    RxMax = 4
    High = 3
    Full = 4
    Idle = 3
    RxSleepTimer = 5
    RxLongestRound = 3
    MaxOctets = 6
    RtsHeeded = FALSE
    tasksCnt = 2
    Timer <- MCTimer
    Owner <- MCOwner
    KeyTimer = "key"
    Debounce = 2
    MinTimeout = 2
    MaxTimeout = 3
    MinSleep = 1
    PollRates = {0, 1}
    MaxLag = 1
    MaxStimuli = 3
CHECK_DEADLOCK FALSE
INVARIANTS
    TxSound
    RingInStep
    PowerSound
PROPERTIES
    DataRegisterFree
    SentIfUnhurried
    WaitingIsTold
    PowerWakes
