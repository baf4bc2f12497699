CONSTANTS
    Tabs = {a, b}
    Items = {i0, i1}
    Loaded = {i0}
    MaxDisturbances = 3
    MaxSaves = 1
SPECIFICATION Spec
INVARIANTS TypeOK Converged VisibilityKnown NoneLeftWaitingIfLed
PROPERTIES AckCoversRequest
SYMMETRY Symmetry
CHECK_DEADLOCK FALSE
