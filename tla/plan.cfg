\* Every list of up to five URLs, priority and shape of each, up to 20 jobs
\* where an int holds 15.
CONSTANTS
    MaxURLs = 5
    Shapes <- MCShapes
    Samplings <- MCSamplings
    PercentUnit = 2
    Guards <- MCGuards
    MaxInt = 15
SPECIFICATION Spec
INVARIANTS
    TypeOK
    Accounted
    PriorityFirst
    EvenStride
    JobsMatchPlan
    LimitsHold
