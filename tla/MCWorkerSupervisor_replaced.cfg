\* One job, two worker generations.
SPECIFICATION Spec
CONSTANTS
    MaxGenerations = 2
    MaxJobs = 1
    MaxValidations = 0
    SlowStart = FALSE
    BrokenWrites = FALSE
CHECK_DEADLOCK FALSE
INVARIANT NoTerminalLost
INVARIANT CancelIsBounded
