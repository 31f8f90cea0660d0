SPECIFICATION FairSpec
CONSTANTS
    Senders = {1}  Receivers = {0}
    Flows = {0, 1}  flowprio <- TwoPrios
    Sizes = {40, 90}  CellCounts = {1, 2}
    limit_ = 6  Losses = {FALSE, TRUE}  Resets = {0}
    MaxPackets = 3  MaxAir = 1
INVARIANTS AllOrNone BufferCurrent
PROPERTIES KeepsPromise DropExplained EventuallyUp
CHECK_DEADLOCK FALSE
