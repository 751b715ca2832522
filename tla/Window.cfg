SPECIFICATION WindowSpec
CONSTANTS
    ViewSessions = {"s1", "s2"}
    ViewTerms = {"t1"}
    MaxPanes = 2
    MaxIds = 4
    MaxLoads = 2
    MaxShells = 1
    StageContents = {"a", "b", "c"}
    MaxGestures = 3
    TuiSessions = {"s1", "s2"}
    MaxRefreshes = 2
    MaxChanges = 2
    Texts <- Scrollbacks
    PaneRows = 2
    MaxQuery = 1
    MaxShellMoves = 4
    MaxLooks = 2
    GlPanes = {"p1", "p2", "p3"}
    GlBudget = 2
    MaxDrafts = 2
    MaxLayouts = 1
    HandFiles <- HandEdited
    LandRank <- TwoLands
    Thresholds = {1, 2}
    MaxBase = 1
    MaxWork = 1
    Roots = {"r1", "r2"}
    NoRoot = "none"
    LiveViews = 1
    MaxAsked = 3
    RailSessions = {"s1", "s2", "s3"}
    MaxNews = 2
    MaxEdits = 2
    MaxGuests = 2
    BrowserAsks = {"a1", "a2"}
    AskBudget = 2
    ConfirmTime = 2
    MinAnswer = 1
    CallerWaits = 3
    MaxPageMoves = 2
    MaxSwitches = 2
    MaxTicks = 3
    MaxRecords = 2
    PrefixTicks = 1
    MaxKeyTime = 2
    MaxTexts = 3
    MaxCalls = 2
    MaxComments = 2
    MaxCommits = 1
    Quotes = {"q1", "q2"}
    UpdateProcs = {"p1", "p2"}
    MaxReleases = 2
    MaxConfigUses = 3
    MaxStale = 1
    PromptTargets = {"s1", "s2"}
    MaxPrompts = 2
    MaxMounts = 3
    MaxTargetMoves = 1
    MaxSends = 2
    MaxRefines = 3
    DashSessions = {"d1", "d2"}
    ProjectOf <- DashProjectOf
    FirstFacts <- DashFacts
    MaxGets = 3
    MaxPolls = 1
    MaxDashMoves = 1
    MaxConfirmed = 1
    Folders = {"f1", "f2"}
    NoFolder = "none"
    Inside <- FolderInOther
    MaxRecent = 2
    MaxLaunches = 3
    MaxFolderMoves = 1
    BarViews = {"v1", "v2"}
    RowIds = {"i1", "i2"}
    RowNames = {"n1", "n2", "n3"}
    NoWord = "none"
    TypedLines <- CommandLinesTyped
    UsableLaunchers = {"claude"}
    MaxHistory = 2
    MaxRuns = 3
    MaxListMoves = 1
    LookSessions = {"c1", "c2", "c3"}
    MaxRevisions = 3
    MaxCheckpoints = 3
    MaxRestores = 2
    PickRoots = {"here", "there", "bare"}
    HereRoot = "here"
    PickLaunchers = {"claude"}
    PickDefaults <- PickedDefaults
    NoBase = "none"
    MaxCreates = 2
    MaxPicks = 2
    MaxPickMoves = 1
    MaxShown = 2
    MaxCheckRuns = 2
INVARIANTS WindowTypeOK WindowIsSound ConsoleIsSound SavedIsKept 
PROPERTIES StepsAreMeant NothingUnasked CopyModeIsExact
CHECK_DEADLOCK FALSE
