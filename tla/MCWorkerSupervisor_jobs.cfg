\* Two jobs on one worker, or a job and a validation.
SPECIFICATION TwoCallsSpec
CONSTANTS
    MaxGenerations = 1
    MaxJobs = 2
    MaxValidations = 1
    SlowStart = TRUE
    BrokenWrites = TRUE
CHECK_DEADLOCK FALSE
INVARIANT OneJobPerWorker
