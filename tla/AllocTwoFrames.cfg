SPECIFICATION FairSpec
CONSTANTS
    N = 3  hub_ = 0  nf = 2
    carriers_ <- TwoFrames_carriers
    timeslots_ <- TwoFrames_timeslots
    burstsize_ <- TwoFrames_burst
    masksize = 6
    rules <- WellRules
    Modes = {0, 1}  layout_ = 1  forget_debit_ = 0  sl_threshold_ = 1  max_req_buf_ = 3
    cnst_rate <- TwoCRA
    Requesters = {1, 2}
    Rates = {0, 3}  Volumes = {0, 3}  MaxVolume = 3
INVARIANTS TypeOK TimeExclusive GridMatchesPlan FreeslotsAreFree WorkConserving NoOverGrant
PROPERTY SearchEnds
