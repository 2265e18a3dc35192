\* The modules beside the publication gate, one part at a time.
CONSTANTS
    \* replies
    ReplyTasks = {t1, t2}
    ReplySurfaces = {"linkedin", "x"}
    Live = {"x"}
    RawTexts <- Raws
    ReplyFaults = {"call", "lost", "sqlite", "crash"}
    MaxReplies = 1
    MaxSends = 2
    NoReply = NoReply
    NoReplyText = NoReplyText
    \* the enrich queue
    Posts = {1, 2}
    Drips = {d1}
    Manuals = {m1}
    Pages = {"post", "thin", "dead", "chrome"}
    EnrichFaults = {"sqlite", "embed", "crash", "suspend"}
    LongRounds = 2
    MaxOps = 2
    NoDrip = NoDrip
    \* model calls
    LlmCalls = {c1}
    LlmConfs <- LlmEnvs
    MaxRounds = 2
    MaxToolCalls = 2
    \* Slack
    SlackMessages = {s1}
    SlackScripts <- Scripts
    SlackSends = 2
    PostAttempts = 2
    LinkFaults = 1
    SlackFaults = {"post", "ratelimit", "answer", "sqlite", "crash"}
    \* the operator's dialog
    DlgPrefixes = {"DRAFT", "TWEET", "CREPLY"}
    DlgUrls = {"u1", "u2"}
    DlgSite <- Sites
    LinkOptionsCap = 2
    MaxSavedIds = 2
SPECIFICATION ServicesSpec
INVARIANTS ReplyInv ReplyShipsOnce PublishedReplyWentOut EnrichInv LlmInv SlackInv NextLinesWork
PROPERTIES EnrichRowsAreTried ModelCallsEnd SlackMessagesAreTaken NumbersPickWhatIsShown
CHECK_DEADLOCK FALSE
