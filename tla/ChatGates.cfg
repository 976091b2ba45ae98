\* Every kind of gate and answer on a chain of four candidates; an admin removes and restores the one account.
CONSTANTS
    provP = provP
    provQ = provQ
    provU = provU
    acctA = acctA
    acctB = acctB
    m1 = m1
    m2 = m2
    req1 = req1
    req2 = req2
    Requests = {req1}
    ChainOf <- MixedChain
    Registered = {provP, provQ}
    Local = {}
    FreeLane <- LaneOfP
    Paid <- PaidOfQ
    PoolChoices <- LoneAccount
    Answers <- FewAnswers
    Gates = {"open", "known", "unknown"}
    RateEnabled = FALSE
    MaxWait = 1
    MaxAttempts = 3
    Deadline = 1
    BudgetWaits = FALSE
    CursorModulus = 2
    ConcurrencyLimit = 2
    CooldownOf <- ShortCooldowns
    ModelPause = 1
    BackoffMax = 1
    BackoffMaxLevel = 1
    BreakerThreshold = 1
    BreakerWindow = 0
    BreakerCooldown = 1
    Rpm = 2
    RateWindow = 3
    MinInterval = 1
SPECIFICATION Spec
INVARIANTS
    AttemptsDisciplined
PROPERTIES
    UndispatchedHasHint
