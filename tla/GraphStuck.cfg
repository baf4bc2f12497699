CONSTANTS
    Tabs = {a, b}
    Items = {i0}
    Loaded = {i0}
    MaxDisturbances = 2
    MaxSaves = 0
SPECIFICATION Spec
INVARIANTS NoneLeftWaiting
SYMMETRY Symmetry
CHECK_DEADLOCK FALSE
