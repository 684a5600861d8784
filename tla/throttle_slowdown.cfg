\* The documented slowdown; a late recovery of the previous one cancels it.
CONSTANTS
    Callers = {c1}
    Hosts = {h1}
    MaxPerHost = 1
    Unit = 2
    Capacity = 4
    BaseRate = 2
    SlowRate = 1
    SlowTicks = 2
    MaxNap = 1
    MaxAge = 4
    Loops = {l1, l2}
SYMMETRY LoopSymmetry
SPECIFICATION Spec
INVARIANT SlowWhileWindowOpen
