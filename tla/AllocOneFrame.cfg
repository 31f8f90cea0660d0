SPECIFICATION FairSpec
CONSTANTS
    N = 4  hub_ = 0  nf = 1
    carriers_ <- OneFrame_carriers
    timeslots_ <- OneFrame_timeslots
    burstsize_ <- OneFrame_burst
    masksize = 2
    rules <- OneFrameRules
    Modes = {0}  layout_ = 0  forget_debit_ = 1  sl_threshold_ = 2  max_req_buf_ = 3
    cnst_rate <- OneFrameCRA
    Requesters = {1, 2}
    Rates = {0, 5}  Volumes = {0, 3}  MaxVolume = 3
INVARIANTS LedgerAgrees SlotModeRotates
PROPERTIES ServedAgain
