SPECIFICATION FairSpec
CONSTANTS
    Jobs = {1, 2}
    min_runs = 1  num_cycles = 3  refresh = 2  MAX_OUTPUT = 2
    Outputs <- TwoColumns  Needs <- MeanOrPercentile
    Commands = {FALSE, TRUE}
INVARIANTS SamplesCounted OutcomeSound
PROPERTIES Terminates
CHECK_DEADLOCK FALSE
