CONSTANTS
    draft1 = draft1
    draft2 = draft2
    tweet = tweet
    Builds = {draft1, draft2, tweet}
    Surface <- SurfaceOf
    Proposes = {}
    Farces = {}
    Edits = {}
    Faults = {}
    MaxOrd = 3
    MaxRunning = 3
    NoBuild = NoBuild
    NoId = NoId
    NoRow = NoRow
    NoText = NoText
SPECIFICATION Spec
PROPERTIES SeqMonotonic
CHECK_DEADLOCK FALSE
