\* The documented meaning of a cancelled job; a target's timeout breaks it.
CONSTANTS
    Workers = {w1}
    NumJobs = 2
    QueueCap = 1
    StopOnError = TRUE
    Outcomes <- MCOutcomes
SPECIFICATION Spec
INVARIANT CancelledOnlyByCaller
