\* The guard of the promotions and the builds, one part at a time.
CONSTANTS
    \* the guard of the promotions
    Wakes = {w1, w2, w3}
    Pulls <- MCPulls
    Number <- MCNumber
    Free = Free
    NoPull = NoPull
    \* building a text
    draft1 = draft1
    draft2 = draft2
    tweet = tweet
    Builds = {draft1, tweet}
    Surface <- SurfaceOf
    Proposes = {draft1}
    Farces = {tweet}
    Edits = {"accept", "delete"}
    Faults = {"llm", "refuse", "sqlite", "crash"}
    MaxOrd = 4
    MaxRunning = 2
    NoBuild = NoBuild
    NoId = NoId
    NoRow = NoRow
    NoText = NoText
SPECIFICATION SharedSpec
INVARIANTS GuardInv OnePromotionPerPull BuildInv
PROPERTIES TokenSafety WakesAreAnswered WritesOnlyItsRow EndsWithItsText
CHECK_DEADLOCK FALSE
