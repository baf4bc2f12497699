CONSTANTS
    Callers = {c1}
    Codes <- MCCodes
    NoCode <- NullCode
    Modes <- PTY
    Ops <- MonitorOnly
    EarlyCalls = FALSE
    Faults <- NoFaults
    MaxFaults = 0
SPECIFICATION Spec
INVARIANTS ExitNotLost
CHECK_DEADLOCK FALSE
