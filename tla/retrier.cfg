\* Policies within the width of a Duration and beyond it.
CONSTANTS
    Policies <- MCPolicies
    MaxDuration = 15
    Rounding = 1
SPECIFICATION FairSpec
INVARIANTS
    TypeOK
    AttemptsAsConfigured
    CancelStopsAttempts
    ExecuteContract
    BackoffAsDocumented
PROPERTIES
    CancelReturns
    Terminates
