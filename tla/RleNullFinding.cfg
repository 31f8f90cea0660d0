SPECIFICATION Spec
CONSTANTS
    Stations = {0, 1}  Senders = {1}  Receivers = {0}
    Prios = {0}  Sizes = {5}  BurstSizes = {6}
    limit_ = 5  SeqnoMod = 256  StartSeqnos = {0}  LeftLen = {0}
    Losses = {TRUE}  MaxPackets = 3  MaxAir = 1
INVARIANTS NeverNull
CHECK_DEADLOCK FALSE
