CONSTANTS
    Callers = {c1}
    Codes <- MCCodes
    NoCode <- NullCode
    Modes <- Both
    Ops <- LiveOps
    EarlyCalls = FALSE
    Faults <- LiveFaults
    MaxFaults = 1
SPECIFICATION FairSpec
PROPERTIES ExitEventuallyRecorded TerminatedEventuallyStops
CHECK_DEADLOCK FALSE
