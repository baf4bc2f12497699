CONSTANTS
    Runs = {r1}
    Followed = r1
    MaxEvents = 3
    LateCommands = FALSE
    Faults <- QuietFaults
    MaxFaults = 1
    PageLimit = 2
    MaxReconnects = 1
SPECIFICATION FollowerFairSpec
INVARIANTS DoneMeansComplete
PROPERTIES FollowingEnds CancellationEventuallyDone RunEventuallyEnds ShutdownEventuallyReturns
CHECK_DEADLOCK FALSE
