SPECIFICATION FairSpec
CONSTANTS
    Stations = {0, 1, 2}  Senders = {1}  Receivers = {0, 2}
    Prios = {0, 1}  Sizes = {3, 5}  BurstSizes = {6, 10}
    limit_ = 5  SeqnoMod = 256  StartSeqnos = {0, 255}  LeftLen = {4}
    Losses = {FALSE, TRUE}  MaxPackets = 3  MaxAir = 1
INVARIANTS TypeOK PartialLeads
PROPERTIES KeepsPromise DropExplained EventuallyUp
CHECK_DEADLOCK FALSE
