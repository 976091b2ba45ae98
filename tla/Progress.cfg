SPECIFICATION ProgressSpec
CONSTANTS
    w1 = w1
    w2 = w2
    prov = prov
    m = m
    req1 = req1
    req2 = req2
    Requests = {req1, req2}
    ChainOf <- OneCandidate
    Registered = {prov}
    Local = {}
    FreeLane <- Nothing
    Paid <- Nothing
    PoolChoices <- NoAccounts
    Answers <- ServeOrBreak
    Gates = {"open"}
    RateEnabled = TRUE
    MaxWait = 1
    MaxAttempts = 2
    Deadline = 1
    BudgetWaits = FALSE
    CursorModulus = 2
    ConcurrencyLimit = 2
    CooldownOf <- Cooldowns
    ModelPause = 1
    BackoffMax = 1
    BackoffMaxLevel = 2
    BreakerThreshold = 1
    BreakerWindow = 0
    BreakerCooldown = 2
    Rpm = 2
    RateWindow = 2
    MinInterval = 1
    Writers = {w1, w2}
    Inodes = {1, 2, 3, 4}
    None = 0
    Locked = TRUE
    MaxEdits = 3
    Timeout = 2
    Handshake = 1
    MaxPieces = 2
    Capacity = 1
    MaxItems = 3
    ChannelSize = 1
    GapTicks = 2
    BeatTicks = 1
INVARIANTS
    TargetIsWhole
    ClientGetsTheStream
    EndedBodyIsWhole
    PermitsWithinRate
PROPERTIES
    ImplementsDurableValue
    EditsReachDisk
    SilentStreamEnds
    RosterHeals
    ExchangeEnds
    QuotaGateEnds
    RequestsAnswered
CHECK_DEADLOCK FALSE
