\* Two callers on two hosts of one slot; two thirds of a token a tick, a third
\* when slow: a token takes more than a tick.
CONSTANTS
    Callers = {c1, c2}
    Hosts = {h1, h2}
    MaxPerHost = 1
    Unit = 3
    Capacity = 3
    BaseRate = 2
    SlowRate = 1
    SlowTicks = 1
    MaxNap = 1
    MaxAge = 3
    Loops = {l1, l2}
SPECIFICATION FairSpec
INVARIANTS
    TypeOK
    RateBound
    HostSlots
    OneRecovery
    SlowIsTemporary
PROPERTIES
    WindowRunsOut
    Recovers
    TokensFlow
    CancelFreesWaiters
