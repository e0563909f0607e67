SPECIFICATION WaitsSpec
CONSTANTS
    N = 3
    BootHart = 1
    Constructors = 2
    W = 2
    MaxHi = 2
    TimerHandlers = {"flag", "default"}
    RtcFreq = 2
    Moves = {0, 2}
    Again = 1
    ClkMost = 2
    ClkRates = {16000, 500, 320000}
    UartBaud = 115
    SpiBaud = 10
    I2cBaud = 100
    PwmRates = {1}
    PwmDuties = {0, 50}
    PwmMaxCount = 7
    I2cMostBytes = 2
    ImageOffsets = {0, 1, 2, 3}
    ImageHarts = 3
    RamKinds = {"memory", "sys-sram"}
    RamBases = {0, 2, 5, 7}
    RamMost = 3
    RamMax = 4
    HeapEnd = 9
    HeapCounts = {0, 1, 2, 5, 8}
    CacheWays = 4
    CacheLims = {0, 3, 6}
    CacheAsks = {0, 2, 4, 257}
    PmWord = 2
    PmMax = 3
    BeuEvents = {2, 5}
    Second = 3
    EchoMost = 2
INVARIANTS
    BootOrder
    LockExcludes
PROPERTIES
    HartsGetOn
    TimeIsWhole
    DemosKeepTime
    DevicesFollow
    RateChangesEnd
    I2cCallsWork
    ImageIsLaidOut
    CachesAreAsTold
CHECK_DEADLOCK FALSE
