\* One task with a subtask, two agents, the process dying anywhere.
CONSTANTS
    Task = {t1}
    Agent = {a1, a2}
    NoAgent = none
    Subtask = {1}
    Concurrency = {1}
    MaxRetries = 1
    MaxReports = 1
    MaxRounds = 2
    Named = {{1}}
    Crashing = TRUE
SPECIFICATION FairSpec
INVARIANT TypeOK
INVARIANT WorkHasOwner
PROPERTY FinalStaysFinal
PROPERTY RowsFollowDecision
CHECK_DEADLOCK FALSE
PROPERTY EvaluationEnds
