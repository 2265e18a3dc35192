\* The modules that make a text and carry it, one part at a time.
CONSTANTS
    \* the imports of the corpus
    Entries = {"post", "comment"}
    Addresses = {"u1"}
    AddressOf <- OneAddress
    Binaries = {"binary"}
    Ingests = {g1}
    PageKinds = {"full", "thin", "tiny", "shell"}
    ImportFaults = {"embed", "sqlite", "crash"}
    MaxImports = 2
    NoItem = NoItem
    NoPage = NoPage
    \* files of a pull request
    GhJobs = {j1, j2}
    GhFaults = {"call", "lost"}
    GhHeads = {"post", "xpost", "draft", "tweet"}
    GhVersions = 2
    ShaRetryAttempts = 3
    \* posting
    XCharLimit = 7
    TcoLen = 3
    ShipRequests <- PostRequests
    ShipModes = {"", "production"}
    ShipFaults = {"sqlite", "call", "lost", "second", "script"}
    ShipEnvs <- PostEnvs
    NoShip = NoShip
    \* links of a text
    LinkCap = 3
    TweetCap = 2
    NoUrl = NoUrl
    \* reworks
    MaxReworks = 2
    MaxPicks = 1
    MaxOutages = 1
    ReworkRows <- Rows
    ReworkNotes <- Notes
    ReworkAnswers <- WriterAnswers
    UrlChoices <- Picks
    Sites <- ReworkPages
    Label <- Labels
    \* texts on sources
    NoQuote = NoQuote
    Requests <- Asks
    Finds <- FindSet
    Writings <- WritingSet
    Web <- WebPages
    Walled <- WalledPages
    OffAngle <- OffPages
    Repo <- repo
    MinProse = 2
    MaxBeats = 2
    MaxFlips = 1
    \* handles
    ada = ada
    lov = lov
    acme = acme
    inter = inter
    itc = itc
    hada = hada
    hacme = hacme
    hacme2 = hacme2
    hitc = hitc
    xitc = xitc
    xada = xada
    hlab = hlab
    noHandle = noHandle
    FileRows <- HandleFiles
    AddLines <- HandleAdds
    Briefs <- HandleBriefs
    Bodies <- HandleTexts
    ModelPacks <- HandlePacks
    Inside <- InsideHandles
    Letters <- LettersOf
    HostNames <- HostWords
    None = noHandle
    Brand <- CompanyName
    BrandItc <- CompanyNameItc
    BrandHandle = hitc
    OwnXHandle = xitc
    MaxAdds = 2
    MaxRestarts = 1
    MaxPosts = 2
    \* proposals
    Chunks <- StoryChunks
    Subjects = {"a", "b", "c"}
    Topic <- StoryTopic
    Strong = {"avif"}
    CandidateLimit = 3
    UsedLimit = 4
    MaxChunks = 2
    MaxRows = 2
    \* digests
    Builders = {b1, b2}
    Pulls <- DigestPulls
    Catalog <- Projects
    Skipped = {}
    Unprobed = {}
    Private = {"priv"}
    RepoOf <- ProjectRepo
    Pushed <- ProjectPushed
    Worker = "worker"
    Home = "home"
    News = "news"
    Cv = "cv"
    HubMax = 2
    PressPool = 3
    PressMax = 1
    HomeMax = 1
    SearchMax = 1
    ItcMax = 1
    PerAuthor = 1
    Lookback = 2
    MaxDays = 2
    MaxDigests = 2
SPECIFICATION TextsSpec
INVARIANTS CorpusInv FilesInv ShippedIsWhatWasSaid ThreadKeepsTheText ReworkInv GroundedInv HandlesInv StoriesDiffer DigestInv
PROPERTIES PickedLinkStays HandlesLandOnce ShipsAsOne
CHECK_DEADLOCK FALSE
