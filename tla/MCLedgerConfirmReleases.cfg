\* What a confirmation takes out of the escrow.
CONSTANTS
    User = {u1, u2}
    System = sys
    Payer = {u1}
    Payee = {u2}
    EventId = {e1}
    Amount = {4}
    MaxAmount = 4
    FlagChoice = {}
    Administered = {}
    MaxTurnover = 8
    MaxFailures = 1
    FailureThreshold = 2
    SuccessThreshold = 1
SPECIFICATION Spec
PROPERTY ConfirmReleasesEscrow
CHECK_DEADLOCK FALSE
