\* The concurrency cap of a provider served by one account.
CONSTANTS
    provP = provP
    provQ = provQ
    provU = provU
    acctA = acctA
    acctB = acctB
    m1 = m1
    m2 = m2
    req1 = req1
    req2 = req2
    Requests = {req1, req2}
    ChainOf <- SoloChain
    Registered = {provP, provQ}
    Local = {}
    FreeLane <- Nothing
    Paid <- Nothing
    PoolChoices <- OneAccount
    Answers <- ServeOrBreak
    Gates = {"open"}
    RateEnabled = FALSE
    MaxWait = 1
    MaxAttempts = 2
    Deadline = 3
    BudgetWaits = FALSE
    CursorModulus = 2
    ConcurrencyLimit = 1
    CooldownOf <- Cooldowns
    ModelPause = 1
    BackoffMax = 2
    BackoffMaxLevel = 2
    BreakerThreshold = 2
    BreakerWindow = 2
    BreakerCooldown = 3
    Rpm = 2
    RateWindow = 3
    MinInterval = 1
SPECIFICATION Spec
INVARIANTS
    ConcurrencyCapKept
