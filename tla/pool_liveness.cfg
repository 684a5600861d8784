\* One job more than two workers and the queue can absorb, for liveness.
CONSTANTS
    Workers = {w1, w2}
    NumJobs = 4
    QueueCap = 1
    StopOnError = FALSE
    Outcomes <- MCTwoOutcomes
SPECIFICATION FairSpec
PROPERTIES
    CancelTerminates
    TerminatesIfTargetsAnswer
