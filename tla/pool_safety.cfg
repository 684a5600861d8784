\* Two workers, three jobs, a queue of one: it fills, and workers race on it.
CONSTANTS
    Workers = {w1, w2}
    NumJobs = 3
    QueueCap = 1
    StopOnError = TRUE
    Outcomes <- MCOutcomes
SYMMETRY WorkerSymmetry
SPECIFICATION Spec
INVARIANTS
    TypeOK
    AtMostOnce
    CountersAgree
    DrainedSummaryExact
    CompleteUnlessCancelled
    AliasNeverAhead
PROPERTY
    RefinesLedger
