SPECIFICATION Spec
CONSTANTS
    Drafts <- OneDraft
    LinkedIn <- OneDraft
    Number <- OneNumber
    Tasks = {t1, t2}
    Ops = {"hook", "accept", "retry", "rework", "delete"}
    Faults = {"crash", "lost", "sqlite", "leak", "close"}
    MaxVersion = 2
    MaxPulls = 1
    MaxShips = 1
    NoDraft = NoDraft
    NoRow = NoRow
    NoKey = NoKey
SYMMETRY Symmetric
INVARIANTS GateInv OnlyApprovedPullsGoPublic PublishedIsPublic
PROPERTY GateSafety
