CONSTANTS
    Callers = {c1, c2}
    Codes <- MCCodes
    NoCode <- NullCode
    Modes <- Both
    Ops <- ClientOps
    EarlyCalls = FALSE
    Faults <- DeathFaults
    MaxFaults = 1
SPECIFICATION Spec
INVARIANTS ExitedIsGenuine LostMeansGone DeletedLeavesNothing TerminatedMeansStopped StdioExitNotLost
PROPERTIES OnlyFinishedRowsRemoved
CHECK_DEADLOCK FALSE
