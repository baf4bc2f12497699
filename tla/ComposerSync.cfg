CONSTANTS
    Drafts = {d0, d1, d2}
    Loaded = d0
    NoDraft = none
    MaxEdits = 3
    MaxCalls = 2
    MaxFailures = 1
SPECIFICATION FairSpec
INVARIANTS TypeOK BaselineWasAccepted BaselineIsLastSent
PROPERTIES OnlyTheClickedDraftPublished LatestEditSaved
CHECK_DEADLOCK FALSE
