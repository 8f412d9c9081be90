CONSTANTS
    Registered = {1, 2, 3}
    Born <- MCBorn
    Place <- MCPlace
    GeographyOf <- MCGeographyOf
    Enabled = {"golden_triangle"}
    AgentAddresses = {}
    Founders <- MCFounders
    CorporateOnly = {2}
    Poison = {1}
    Budget = 9
    SiteSpends = {1}
    Movers = {3}
    Reserve = 2
    RecheckDays = 1
    MaxStreak = 2
    RunsPerDay = 1
    MaxFaults = 1
    Unstated = None

    Kickoffs = {k1, k2}
    Jobs = {j1}
    NoPid = NoPid
    MaxKills = 1

    Sites = {site}
    CompaniesHouse = CompaniesHouse
    Delays = {2}
    DefaultDelay = 1
    WindowLimit = 2
    Window = 2
    Ttl = 2
    MaxRetries = 1
    MaxClock = 3

    Unknown = Unknown
    ScoredFunds = {"f", "g"}
    VehiclesOf <- MCVehiclesOf
    Thresholds <- MCThresholds
    Tables <- MCTables
    Starts <- MCStarts
    News <- MCNews
    MaxLearned = 2

    Firms <- MCFirms
    FirmOrder <- MCFirmOrder
    Match <- MCMatch
    Feeds <- MCFeeds
    MaxShare = 40
    RegistryShare = 20
    DigestMax = 4
    FocusClients = {"cli", "room"}
    Plans <- MCPlans
    MaxDay = 2
    MaxTurns = 2
    MaxRescores = 1

    Rated = {"a", "b", "c"}
    TunedFunds = {"f"}
    FitsOf = {4, 16, 49}
    Highest = 5
    TableLimit = 2
    MaxVerdicts = 2

    Items = {"news", "award", "filing", "list"}
    Page <- MCPage
    Texts <- MCTexts
    MayReply <- MCReplies
    Reply <- MCReply
    Batches <- MCBatches
    Ventures = {"acme", "beta"}
    Worth <- MCWorth
    Sterling = {"2m", "5m", "1m"}
    Rounds = {"seed", "series_a"}
    Universities = {"york"}
    Bodies = {"edited"}
    ShippedPrompt = "shipped"
    Trip = 1
    MaxRuns = 2
    MaxPromptEdits = 1

    ShippedVehicles = {v1, v2}
    AddedVehicle = v3
    Edited = {v1}
    Places = {north, south}
    Typo = typo
    Cells = {{}, {north, typo}}
    NoVehicle = NoVehicle
    Together = FALSE
    MaxCriteriaChanges = 2

    Builtin = {CompaniesHouse}
    Register = CompaniesHouse
    Feed = feed
    Web <- MCWeb
    SourceFunds = {{dsw}}
    NoSource = NoSource
    MaxSourceChanges = 2

    AttributeOrder <- MCAttributeOrder
    CategoryOrder <- MCCategoryOrder
    FundOrder <- MCFundOrder
    AddedFund = added
    Label = label
    DefaultMatrix <- MCDefaultMatrix
    DefaultSic <- MCDefaultSic
    MatrixCells <- MCMatrixCells
    WeighingCells <- MCWeighingCells
    TypedCells = {Blank, 3, 11}
    Mistyped = Mistyped
    SicEdits <- MCSicEdits
    Neutral = Neutral
    Assume = Assume
    Stray = Stray
    Blank = Blank
    MaxWeightChanges = 2

    Writes = {w1}
    Migrations = {1}
    Statements = 2
    LeftRun = {1}
    Days = 2
    RetainDays = 0
    MaxRestores = 1
    Absent = Absent
    Corrupt = Corrupt
    Mixed = Mixed

    Commits = 3
    Runs = {timer, release}
    Timer = timer
    Release = release
    MaxRollbacks = 1
    MaxFailures = 1
    MaxScans = 1

    Companies = {c1}
    Funds = {"f", "g"}
    Fields = {"a", "b"}
    Values = {0, 1}
    Bad = Bad
    Procs = {p1}
    Kinds = {"scan", "search", "sync", "rescore", "rescore_now", "publish", "admin"}
    Typos = {Bad}
    MaxEdits = 2
    MaxCrashes = 1

    None = None
    Unused = Unused
    dsw = dsw
    outward = outward
    k1 = k1
    k2 = k2
    c2 = c2
    c3 = c3
    c4 = c4
    h1 = h1
    Chosen = {"enrichment", "searches", "fetch", "scoring", "selection", "tuning", "extract", "criteria", "sources", "weights", "restore", "updates", "generations", "today"}
SPECIFICATION Machines
INVARIANTS FetchIsPolite ScoresStand QueueIsFair RowsAreHonest SearchIsTold CriteriaAreKept SourcesAreKept WeightsAreKept ServerStands SavedIsShown OneListShown
PROPERTIES SavedIsScored EveryWaitEnds
CHECK_DEADLOCK FALSE
