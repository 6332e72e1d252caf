INIT SurroundingsInit
NEXT SurroundingsNext
CONSTANTS
    Parts = {"matching"}
    Callers = {a1, a2, a3}
    Limits = {1, 3}
    MaxLimit = 3
    j1 = j1
    j2 = j2
    j3 = j3
    Receipts = {j1, j2, j3}
    Foreign = Foreign
    NoReceipt = NoReceipt
    SizeOf <- MCSizeOf
    MaxRecords = 2
    RecordSlack = 1
    MaxBytes = 4
    ByteSlack = 1
    TTL = 1
    MaxClock = 2
    MaxForeign = 1
    HealthFiles = {0, 1, 2}
    Broken = {2}
    MaxSamples = 1
    MaxUse = 1
    MaxBackups = 2
    MaxPairs = 3
    Nothing = Nothing
    Storers = {w1, w2}
    Texts = {1, 2}
    TextSize <- MCTextSize
    TextTTL = 1
    MaxTextBytes = 1
    MaxIntruders = 1
    NoText = NoText
    ParentThreads = {t1, t2}
    ChildThreads = {u1}
    Sockets = {1, 2, 3}
    NoSocket = NoSocket
    MaxIdle = 1
    MaxRedirects = 1
    r1 = r1
    r2 = r2
    Readers = {r1, r2}
    Candidates = {"a", "b"}
    TicksPerSecond = 2
    DefaultContext = 3
    NoSnapshot = NoSnapshot
    NoFile = NoFile
    NoInput = NoInput
    CacheKeys <- MCCacheKeys
    Found <- MCFound
    Inputs <- MCInputs
    MaxSuffix = 1
    MaxNow = 1
    MaxSpent = 1
    pa = pa
    pb = pb
    pc = pc
    NoProvider = NoProvider
    Extractors = {pa, pb, pc}
    Urls = {1, 2, 3}
    Sites <- MCOneSite
    Refused <- MCNoneRefused
    Kinds = {"blocked"}
    s1 = s1
    s2 = s2
    Searchers = {s1, s2}
    HomeOf <- MCHomeOf
    Requests <- MCRequests
    Priority <- MCPriority
    Providers = {pa, pb}
    Usable = {pa, pb}
    Ladder <- MCLadder
    Decay = 1
    CacheTTL = 0
    MaxTime = 2
    Nobody = Nobody
    Operators = {o1, o2}
    Catalog <- MCCatalog
    OldOrder <- MCOldOrder
    FreeOrder <- MCFreeOrder
    HandWritten <- MCHandWritten
    MaxCommands = 2
    MaxHandEdits = 1
    NoName = NoName
    PageCount = 2
    MaxLines = 4
    HitCount = 2
    Ranks = {0, 1, 2, 3}
    MaxText = 4
    Recorders = {1, 2, 3}
    StatsProcess <- MCStatsProcess
    Latencies = {3, 5}
    Failure = Failure
    MaxSamplesKept = 2
    MinSamples = 2
    HedgeFloor = 2
    AttemptTimeout = 4
    MaxSavings = 4
    PacedThreads = {1, 2}
    Deadlines = {2, 9}
    Headers <- MCHeaders
    Unknown = Unknown
    MaxRateWait = 2
    ShortWindow = 4
    MaxPaceTime = 3
    MaxTurns = 4
    Situations <- MCSituations
    LandsOn <- MCLandsOn
    PrivatePages = {4}
    LongPages = {1, 4}
    UrlLimit = 3
    MaxCalls = 2
    MaxSpans = 2
    MaxSpanChars = 4
    SectionChars = 8
    MaxSections = 1
    ContextRequests <- MCContextRequests
    HardMaxUrls = 3
    MinContext = 2
    MaxContext = 12
    HostLimit = 6
    Payloads <- MCPayloads
    SnippetCap = 4
    Separator <- MCSeparator
    Authoritative = {2}
    Sizes = {3}
    Answers <- MCAnswers
    Workers = 2
    Adapters <- AllAdapters
    Spellings = {1, 2, 3, 4, 5}
    CanonOf <- MCCanonOf
    RewriteOf <- MCRewriteOf
    Asks <- MCAsks
    Replies <- MCReplies
    Wanted = {1, 2}
    ToolTimeout = 3
    Margin = 1
    StartDelay = 1
    MaxHostTime = 4
INVARIANTS NeverRelabelled
CHECK_DEADLOCK FALSE
