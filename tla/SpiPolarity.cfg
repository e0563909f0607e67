CONSTANTS
    TxDepth = 1
    RxDepth = 1
    Sizes = {1}
    IndexValues = 65536
    Directions = {"RX"}
    Polarities = {0, 1}
    IsrSends = FALSE
    MaxFrames = 1
SPECIFICATION Spec
INVARIANT SckIdlesHighWhenEnabled
