CONSTANTS
    Devices = {"i2c"}
    CsPins = {}
    Outputs = {}
    Inputs = {}
    PwmPins = {}
    IsrPins = {}
SPECIFICATION PinsSpec
INVARIANT OpenHasItsPins
