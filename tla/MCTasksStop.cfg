\* A stop request.
CONSTANTS
    Task = {t1}
    Agent = {a1, a2}
    NoAgent = none
    Subtask = {}
    Concurrency = {1}
    MaxRetries = 1
    MaxReports = 1
    MaxRounds = 1
    Named = {{}}
    Crashing = TRUE
SPECIFICATION Spec
INVARIANT StopIsHonoured
CHECK_DEADLOCK FALSE
