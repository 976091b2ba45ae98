\* Two requests on the two accounts of a provider, failing and recovering, and one permit per tick.
CONSTANTS
    provP = provP
    provQ = provQ
    provU = provU
    acctA = acctA
    acctB = acctB
    m1 = m1
    m2 = m2
    req1 = req1
    req2 = req2
    Requests = {req1, req2}
    ChainOf <- SoloChain
    Registered = {provP, provQ}
    Local = {}
    FreeLane <- Nothing
    Paid <- Nothing
    PoolChoices <- Siblings
    Answers <- ServeOrBreak
    Gates = {"open"}
    RateEnabled = TRUE
    MaxWait = 1
    MaxAttempts = 2
    Deadline = 1
    BudgetWaits = FALSE
    CursorModulus = 2
    ConcurrencyLimit = 2
    CooldownOf <- Cooldowns
    ModelPause = 1
    BackoffMax = 1
    BackoffMaxLevel = 2
    BreakerThreshold = 2
    BreakerWindow = 2
    BreakerCooldown = 1
    Rpm = 1
    RateWindow = 1
    MinInterval = 1
SPECIFICATION Spec
INVARIANTS
    TypeOK
    SlotsMatchFlights
PROPERTIES
    BreakerEarned
