\* The documented order of drain and summary; the code breaks it.
CONSTANTS
    Workers = {w1, w2}
    NumJobs = 2
    QueueCap = 1
    StopOnError = FALSE
    Outcomes <- MCAnswered
SPECIFICATION Spec
INVARIANT SummaryAfterDrain
