SPECIFICATION BoardSpec
CONSTANTS
    BoardPins = {0, 19, 28, 29}
    BoardIndex = 3
    BoardMost = 2
INVARIANTS
    HandlesAreDevices
CHECK_DEADLOCK FALSE
