SPECIFICATION Spec
CONSTANTS
    acctA = acctA
    acctB = acctB
    anon = anon
    proxy = proxy
    req1 = req1
    req2 = req2
    model = model
    Direct = direct
    None = None
    Buckets <- DirectPool
    Exits = {direct}
    ExitOf <- DirectExitOf
    AccountPlan <- DirectAccounts
    AnonymousPlan <- DirectAnonymous
    Models = {model}
    Limit <- TwoEach
    MaxInFlight = 1
    Learning = TRUE
    LearnedTtl = 4
    LearnedMinSamples = 0
    LowUsageUpgrade = 2
    ShortQuotaCooldown = 1
    ShortLimitMax = 1
    ProbeWindow = 1
    Recheck = 2
    ProxyCooldown = 1
    DayLength = 4
    Requests = {req1, req2}
    AutoRouted = {req2}
    ModelOf <- OneModel
    RetryAfters = {0}
    Fallback = TRUE
    ProbeAttempts = 1
    Skew = 1
    MaxTurns = 2
    MaxTime = 4
INVARIANTS SlotsMatchGuards ProvisionalCeilingTightens
PROPERTY ParkedExitOnlyProbed
CHECK_DEADLOCK FALSE
