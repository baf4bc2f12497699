CONSTANTS
    Callers = {c1}
    Codes <- MCCodes
    NoCode <- NullCode
    Modes <- Both
    Ops <- AllOps
    EarlyCalls = TRUE
    Faults <- AllFaults
    MaxFaults = 2
SPECIFICATION Spec
INVARIANTS TypeOK RowConsistent RunningMeansGateOpen
PROPERTIES LedgerRefined
CHECK_DEADLOCK FALSE
