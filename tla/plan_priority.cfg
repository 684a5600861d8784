\* The guarantee of planRun; a stride over the reordered list breaks it.
CONSTANTS
    MaxURLs = 4
    Shapes <- MCShapes
    Samplings <- MCSamplings
    PercentUnit = 2
    Guards <- MCOneGuard
    MaxInt = 15
SPECIFICATION Spec
INVARIANT PriorityKept
