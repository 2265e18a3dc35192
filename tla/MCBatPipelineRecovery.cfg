SPECIFICATION FairSpec
CONSTANTS
    Drafts <- OneDraft
    LinkedIn <- OneDraft
    Number <- OneNumber
    Tasks = {t1}
    Ops = {"hook", "accept", "retry"}
    Faults = {"crash", "lost", "sqlite"}
    MaxVersion = 1
    MaxPulls = 1
    MaxShips = 1
    NoDraft = NoDraft
    NoRow = NoRow
    NoKey = NoKey
PROPERTIES ApprovedGoesPublic MergedGoesPublic
