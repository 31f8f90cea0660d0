SPECIFICATION FairSpec
CONSTANTS
    rbdc_ = TRUE  vbdc_ = TRUE  avbdc_ = FALSE
    min_rbdc_ = 0  max_rbdc_ = 2  max_vbdc_ = 1
    win_ = 2  FramesPerPeriod = 2  SlotsPerFrame = 2
    Modes = {0}  forget_debit_ = 1  max_req_buf_ = 2
    limit_ = 3  Losses = TRUE  MaxArrivals = 2  MaxStarts = 2  MaxAir = 1
INVARIANTS WindowSound
PROPERTIES Drains Releases
