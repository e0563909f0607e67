SPECIFICATION ClocksSpec
CONSTANTS
    Presets = {"32MHz"}
    Rosc = 16000000
    UartBauds = {9600, 115200}
    SpiBauds = {1000, 80000, 200000}
    I2cBauds = {100000, 400000}
INVARIANT FreqToldDivided
