CONSTANTS
    draft1 = draft1
    draft2 = draft2
    tweet = tweet
    Builds = {draft1, tweet}
    Surface <- SurfaceOf
    Proposes = {}
    Farces = {}
    Edits = {}
    Faults = {"refuse"}
    MaxOrd = 2
    MaxRunning = 1
    NoBuild = NoBuild
    NoId = NoId
    NoRow = NoRow
    NoText = NoText
SPECIFICATION Spec
PROPERTIES BuildKeepsItsId
CHECK_DEADLOCK FALSE
