\* A chat request and a connection test, one id per lane, saved, reloaded and lost.
CONSTANTS
    chat = chat
    test = test
    convA = convA
    ses1 = ses1
    ses2 = ses2
    NoSeed = NoSeed
    NoSession = NoSession
    Requests = {chat, test}
    Testers = {test}
    Seeds = {convA}
    Sessions = {ses1, ses2}
    MemoLimit = 1
    WarmLimit = 1
    RefusalLimit = 1
    ProbeAttempts = 1
    ChainLanes = {"go", "plan"}
    MaxFailures = 3
    MaxTurns = 3
    RecentTurns = 1
    ConnIds = {"a", "b"}
    ConnWorkers = {ses1, ses2}
    ConnFiles <- OperatorFiles
    MaxEdits = 2
    MaxLines = 4
    HeadLines = 1
    TailLines = 1
    MaxCritical = 1
    LineBudget = 3
    MinBlock = 2
    MaxMessages = 3
    MaxTools = 2
    MaxFragments = 2
    Values = {0, 2, 16, 96}
    Efforts = {1, 32}
    Ceilings = {8, 64}
    PolicyBudget = 24
    MediumEffort = 8
    DefaultOutput = 4
    DefaultBudget = 1
    Accounts = {1, 2}
    PoolLines <- OperatorPools
    MaxExits = 2
    MaxClosed = 2
    MaxAttempts = 3
    MaxSaid = 4
    MaxParallel = 2
    MaxEvents = 4
    MaxCalls = 2
SYMMETRY Symmetry
SPECIFICATION PartsSpec
INVARIANTS
    TypeOK
    OnlyAcceptedOffered
    CleanIsSaved
    FramesNest
    ArgumentsReachTheirCall
    ResultsReachTheirCalls
    
    ChainKept
    DiagnosticsSurvive
    LiveInstructionKept
    ShapeIsSettled
    CapsFollowTheClient
    NamesAgree
PROPERTIES
    HiddenStaysHidden
    OldTurnsRenderTheSame
    SideLanesStayPrivate
    AnonymousIsLast
CHECK_DEADLOCK FALSE
