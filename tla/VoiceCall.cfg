SPECIFICATION CallSpec
CONSTANTS
    Stations <- TwoEnds  Flows <- TwoEnds  Ends <- TwoEnds  Kept <- TwoEnds
    BurstLengths = {0, 1}  Delays = {1, 10}  MAX_D_SAMP = 3
    TopScore = 18  LossPenalty <- LinearLoss  DelayPenalty <- LinearDelay
    MaxPackets <- FourAndNone
INVARIANTS LossMeasured
PROPERTIES ScoreIsBest
CHECK_DEADLOCK FALSE
