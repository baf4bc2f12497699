CONSTANTS
    Runs = {r1}
    Followed = r1
    MaxEvents = 3
    LateCommands = TRUE
    Faults <- AllFaults
    MaxFaults = 2
    PageLimit = 2
    MaxReconnects = 1
SPECIFICATION FollowerSpec
INVARIANTS DeliveredInOrder TerminalStillAhead AcceptedMeansCancelled SingleTerminal TerminalMeansStopped EndedMeansTerminal ShutdownLeavesNoRun
PROPERTIES LifecycleRefined
CHECK_DEADLOCK FALSE
