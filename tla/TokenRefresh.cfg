CONSTANTS
    t1 = t1
    t2 = t2
    c1 = c1
    c2 = c2
    c3 = c3
    c4 = c4
    Tabs = {t1, t2}
    Calls = {c1, c2, c4}
    TabOf <- TwoTabs
    Loads = {l1}
    MaxTroubles = 1
SPECIFICATION FairSpec
INVARIANTS TypeOK LockHasOwner OneRequestPerTab RefusedOnlyByOverlap
PROPERTIES PollingEnds
CHECK_DEADLOCK FALSE
