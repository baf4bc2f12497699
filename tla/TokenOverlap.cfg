CONSTANTS
    t1 = t1
    t2 = t2
    c1 = c1
    c2 = c2
    c3 = c3
    c4 = c4
    Tabs = {t1}
    Calls = {c1, c2, c3}
    TabOf <- OneTab
    Loads = {}
    MaxTroubles = 0
SPECIFICATION Spec
INVARIANTS OnlyOneRequest
CHECK_DEADLOCK FALSE
