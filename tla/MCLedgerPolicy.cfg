\* One user, its escrow and its revenue: limits, configurations and the breaker.
CONSTANTS
    User = {u1}
    System = sys
    Payer = {u1}
    Payee = {u1}
    EventId = {}
    Amount = {4}
    MaxAmount = 4
    FlagChoice <- MCFlagChoice
    Administered = {u1}
    MaxTurnover = 8
    MaxFailures = 2
    FailureThreshold = 2
    SuccessThreshold = 2
    LimitChoice <- MCLimitChoice
    ConfigChoice <- MCConfigChoice
SPECIFICATION PolicySpec
INVARIANT PolicyTypeOK
INVARIANT LimitHolds
INVARIANT ClosedMeansHealthy
PROPERTY ClosesAfterStreak
CHECK_DEADLOCK FALSE
