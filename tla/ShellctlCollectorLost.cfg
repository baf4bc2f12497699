CONSTANTS
    Callers = {c1}
    Codes <- MCCodes
    NoCode <- NullCode
    Modes <- Both
    Ops <- CollectorOnly
    EarlyCalls = FALSE
    Faults <- NoFaults
    MaxFaults = 0
SPECIFICATION Spec
INVARIANTS LostMeansGone
CHECK_DEADLOCK FALSE
