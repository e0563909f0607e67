SPECIFICATION Spec
CONSTANTS
    Devices = {"uart0", "uart1", "spi"}
    CsPins = {14}
    Outputs = {5, 20}
    Inputs = {5}
    PwmPins = {17}
    IsrPins = {7}
    Depth = 2
    MaxSent = 4
    MaxArrived = 2
    BufferSizes = {0, 1, 2, 3}
    Units = {1, 2}
    Comparators = {0, 1}
    Freq = 3
    PwmWord = 2
    Times = {0, 1}
    ServoPulses = {1}
    MaxStored = 1
    Presets = {"hyperspace", "320MHz", "16MHz", "sloth"}
    Rosc = 16000000
    UartBauds = {115200}
    SpiBauds = {1000, 80000}
    I2cBauds = {100000}
    WordSize = 4
    MaxTime = 9
    Delays = {1, 6}
    Millis = {1999, 2000, 60000, 131072}
    Timers = {2}
    Scales = {0, 16}
    Ens = {1, 3}
    Rsts = {1, 3}
    IsrFeeds = TRUE
    MaxAge = 2
    Handlers = {"rearm", "return"}
INVARIANTS
    PwmFieldsAgree
    WdtKeysWork
    ScaleFitsPeriod
PROPERTIES
    PinsStayTheirs
    UartKeepsItsBytes
    I2cBusTraffic
    RatesAsTold
    AlarmIsServed
CHECK_DEADLOCK FALSE
