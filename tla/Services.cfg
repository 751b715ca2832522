SPECIFICATION ServicesSpec
CONSTANTS
    CheckSessions = {"s1", "s2"}
    MaxEdits = 2
    Paths = {p, q}
    Contents = {c}
    Absent = absent
    Keep = 2
    MaxWrites = 1
    MaxOps = 3
    Cockpits = {c1, c2}
    Callers = {k1, k2}
    MaxInFlight = 1
    MaxPerSecond = 2
    Nobody = nobody
    Projects = {p1, p2}
    NoProject = noproject
    MaxLinks = 2
    MaxEnsures = 2
    StatusSessions = {"s1"}
    Agents = {"claude"}
    ScreenAgents = {}
    NoAgent = noagent
    MaxPolls = 1
    StreamLength = 6
    MaxLine = 2
    MaxCalls = 2
    Viewers = {v1, v2}
    MaxChunks = 2
    ScrollbackLimit = 1
    Terms = {t1, t2}
    Owners = {o1}
    MaxBoots = 1
    HookSessions = {"s1"}
    HookLines = {"h1", "h2"}
    MaxConfigs = 1
    MaxTyped = 2
    ClaudeFiles <- SomeClaudeFiles
    CodexTexts <- SomeCodexTexts
    MaxHookRuns = 2
    MaxRewrites = 1
    Openers = {"d1", "d2"}
    Builds = {4, 18}
    WalAttempts = 2
    HistoryKeep = 2
    MaxEnded = 4
    NoticeKeys <- SomeNoticeKeys
    WindowTicks = 2
    MaxPerWindow = 2
    MaxTime = 4
    MaxToggles = 3
    ClaudeLogs = {"l1"}
    Rollouts = {"x1"}
    Messages = {"g1", "g2"}
    MaxLines = 3
    MaxRead = 4
    MaxLogRewrites = 1
    GitSessions = {"g1", "g2"}
    GitPaths = {"f"}
    MaxFailures = 2
    MaxGitEdits = 2
    SubDirs = {"lib", "src"}
    Ttl = 3
    InfoAge = 1
    Deadline = 1
    Concurrency = 2
    MaxAsks = 2
    MaxTreeEdits = 1
    MaxDiskTime = 2
INVARIANTS
    ServicesTypeOK VerdictsAreTrue AppliedIsTarget
    WaitersAreWatched LinksAreKept ReportsAreTrue
    EndedStaysEnded HooksAreAgreed
PROPERTIES
    AnswersCome RestoreIsUndoable SettledOnce
CHECK_DEADLOCK FALSE
