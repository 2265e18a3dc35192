SPECIFICATION Spec
CONSTANTS
    Drafts <- OneDraft
    LinkedIn <- OneDraft
    Number <- OneNumber
    Tasks = {t1, t2}
    Ops = {"hook", "accept", "rework"}
    Faults = {}
    MaxVersion = 2
    MaxPulls = 1
    MaxShips = 1
    NoDraft = NoDraft
    NoRow = NoRow
    NoKey = NoKey
SYMMETRY Symmetric
INVARIANT ShippedBodyIsMerged
