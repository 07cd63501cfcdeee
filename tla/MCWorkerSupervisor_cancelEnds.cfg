\* Liveness: a cancelled job ends; its worker may be replaced meanwhile.
SPECIFICATION BoundedSpec
CONSTANTS
    MaxGenerations = 2
    MaxJobs = 1
    MaxValidations = 0
    SlowStart = FALSE
    BrokenWrites = FALSE
CHECK_DEADLOCK FALSE
PROPERTY CancelledJobEnds
