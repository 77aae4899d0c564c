\* A report that comes before the fallback timer.
CONSTANTS
    Task = {t1}
    Agent = {a1, a2}
    NoAgent = none
    Subtask = {}
    Concurrency = {1}
    MaxRetries = 1
    MaxReports = 1
    MaxRounds = 1
    Named = {{}}
    Crashing = FALSE
SPECIFICATION TimedSpec
PROPERTY FallbackDispatches
CHECK_DEADLOCK FALSE
