SPECIFICATION FairSpec
CONSTANTS
    TxDepth = 1
    RxDepth = 2
    Sizes = {2, 3}
    IndexValues = 3
    Directions = {"RX", "TX"}
    Polarities = {0}
    IsrSends = TRUE
    MaxFrames = 5
INVARIANTS BacklogBounded AnswersAreRecent
PROPERTY PollsWork
