SPECIFICATION FairSpec
CONSTANTS
    acctA = acctA
    acctB = acctB
    anon = anon
    proxy = proxy
    req1 = req1
    req2 = req2
    model = model
    Direct = direct
    None = None
    Buckets <- ProxyPool
    Exits = {direct, proxy}
    ExitOf <- ProxyExitOf
    AccountPlan <- ProxyAccounts
    AnonymousPlan <- ProxyAnonymous
    Models = {model}
    Limit <- OneEach
    MaxInFlight = 1
    Learning = TRUE
    LearnedTtl = 3
    LearnedMinSamples = 2
    LowUsageUpgrade = 2
    ShortQuotaCooldown = 1
    ShortLimitMax = 1
    ProbeWindow = 1
    Recheck = 2
    ProxyCooldown = 0
    DayLength = 3
    Requests = {req1, req2}
    AutoRouted = {}
    ModelOf <- OneModel
    RetryAfters = {0}
    Fallback = TRUE
    ProbeAttempts = 1
    Skew = 0
    MaxTurns = 2
    MaxTime = 2
PROPERTY RequestsLeave
CHECK_DEADLOCK FALSE
