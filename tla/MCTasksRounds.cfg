\* Two subtasks, overlapping claims, a second round after a retry.
CONSTANTS
    Task = {t1}
    Agent = {a1, a2}
    NoAgent = none
    Subtask = {1, 2}
    Concurrency = {1}
    MaxRetries = 1
    MaxReports = 1
    MaxRounds = 2
    Named = {{1}}
    Crashing = FALSE
SPECIFICATION Spec
SYMMETRY MCSymmetry
INVARIANT SubtasksSplit
INVARIANT NoMissedDispatch
CHECK_DEADLOCK FALSE
