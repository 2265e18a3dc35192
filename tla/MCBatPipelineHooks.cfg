SPECIFICATION Spec
CONSTANTS
    Drafts <- TwoDrafts
    LinkedIn <- OneDraft
    Number <- TwoNumber
    Tasks = {t1, t2}
    Ops = {"hook", "accept"}
    Faults = {"leak", "close", "manual_merge"}
    MaxVersion = 1
    MaxPulls = 1
    MaxShips = 2
    NoDraft = NoDraft
    NoRow = NoRow
    NoKey = NoKey
SYMMETRY Symmetric
CHECK_DEADLOCK FALSE
INVARIANTS HookInv HookShipsPullOnce
PROPERTIES PublishedIsFinal TokenSafety
