\* Transfers, escrow with its fee and grants under an administrator, restarts.
CONSTANTS
    User = {u1, u2}
    System = sys
    Payer = {u1, sys}
    Payee = {u2}
    EventId = {e1}
    Amount = {0, 4}
    MaxAmount = 4
    FlagChoice <- MCFlagChoice
    Administered = {u1, sys}
    MaxTurnover = 4
    MaxFailures = 1
    FailureThreshold = 1
    SuccessThreshold = 1
SPECIFICATION Spec
INVARIANT TypeOK
INVARIANT DoubleEntry
INVARIANT NoOverdraft
INVARIANT Conservation
INVARIANT ReplyMatchesBooks
 
PROPERTY FrozenKeepsFunds
PROPERTY RefinesBooks
CHECK_DEADLOCK FALSE
