SPECIFICATION TraceSpec
CONSTANTS
    Packets = {1, 2, 3, 4}  prio <- TwoPrios  limit_ = 3
    Flow = {1, 2, 3}  smp = 2  RoundedUp = {3}  DIM = 4
    UninitIDs = {0, 1}  UninitDelay = {100}
    Pauses = {0, 2, 5}  MaxTime = 9
INVARIANTS RowsAgree BacklogHolds
CHECK_DEADLOCK FALSE
