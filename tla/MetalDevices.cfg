SPECIFICATION DevicesSpec
CONSTANTS
    Sources = {1, 2}
    Thresholds = {1}
    BoardPins = {0, 19, 29}
    BoardIndex = 3
    BoardMost = 2
    SpiMostBytes = 2
    SpiMostTimeouts = 1
    PinUsers = {"pwm2"}
    PinLeds = {19}
    PinTrigger = 18
    PinKinds = {"rise"}
    WdogMaxCount = 3
    WdogClock = 8
    WdogRates = {8, 3}
    WdogTimeouts = {1, 2}
    RtcWord = 4
    RtcMaxCount = 9
    RtcCompares = {2, 9, 15}
    RtcCounts = {3, 7}
    HpmWord = 3
    HpmTicks = 4
    PmpRegions = 2
    PmpBits = 3
    PmpAddresses = {5,6,7}
    PmpGrains = {0, 1, 2}
    TrapLines = {3, 7}
    TrapCodes = {3}
    TrapDepth = 2
    CallLines = {7}
    CallSources = {1}
    CallLevels = {1}
    CallTimes = {1}
    ClicIds = {16}
    ClicIntBits = {3}
    ClicValues = {{7, 4}, {6, 5}}
    ClicLevelBits = {0, 2}
    ClicMaxLevels = 16
    UartFifo = 2
    UartLevels = {2}
    PwmChannels = {"cmp0", "cmp1"}
INVARIANTS
    FramesAndAnswers
    LandsAsAsked
    BoardIsAsDescribed
PROPERTIES
    InterruptsAreServed
    PinsAreShared
    WdogIsAsTold
    RtcKeepsTime
    CountersAreSound
    RegionsAreAsAsked
    TrapsAreDispatched
    ClicIsAsAsked
    UartIsShared
    PwmWordIsShared
CHECK_DEADLOCK FALSE
