SPECIFICATION GuardSpec
CONSTANTS
    Wakes = {w1, w2, w3}
    Pulls <- MCPulls
    Number <- MCNumber
    Free = Free
    NoPull = NoPull
PROPERTY RefusedOnlyDuplicates
