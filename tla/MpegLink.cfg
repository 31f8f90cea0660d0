SPECIFICATION FairSpec
CONSTANTS
    Senders = {1, 2, 3}  Receivers = {0, 4}  Traffic <- ThreeKinds
    CellCounts = {2}
    limit_ = 20  N_QUEUES = 3
    Losses = {FALSE, TRUE}  MaxPackets = 3  MaxAir = 1
INVARIANTS CellSound WholeIsDelivered OnlyWholeGoesUp
PROPERTIES KeepsPromise EventuallyUp
CHECK_DEADLOCK FALSE
