SPECIFICATION Spec
CONSTANTS
    acctA = acctA
    acctB = acctB
    anon = anon
    proxy = proxy
    req1 = req1
    req2 = req2
    model = model
    Direct = direct
    None = None
    Buckets <- MixedPool
    Exits = {direct, proxy}
    ExitOf <- MixedExitOf
    AccountPlan <- ProxyAccounts
    AnonymousPlan <- ProxyAnonymous
    Models = {model}
    Limit <- OneEach
    MaxInFlight = 1
    Learning = TRUE
    LearnedTtl = 3
    LearnedMinSamples = 0
    LowUsageUpgrade = 2
    ShortQuotaCooldown = 1
    ShortLimitMax = 1
    ProbeWindow = 1
    Recheck = 2
    ProxyCooldown = 1
    DayLength = 3
    Requests = {req1, req2}
    AutoRouted = {req2}
    ModelOf <- OneModel
    RetryAfters = {0}
    Fallback = FALSE
    ProbeAttempts = 1
    Skew = 0
    MaxTurns = 2
    MaxTime = 4
INVARIANT GateSparesProxies
CHECK_DEADLOCK FALSE
