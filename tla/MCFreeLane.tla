----------------------------- MODULE MCFreeLane -----------------------------
(* The two parts of the free lane's state on small instances: its session  *)
(* store, and its accounting file where everything dials directly.  They   *)
(* share no state: an initial state names the part that runs and the other *)
(* rests, so that one run explores the sum of their states and no product. *)
EXTENDS MCWarmSessions

CONSTANTS acct, anon, req1, req2, model, Direct, None

VARIABLES part, now, file, inFlight, cursor, walks, turns, ledger, late, probed

Pool == {acct, anon}
Host == {Direct}
DialDirectly == [b \in Pool |-> Direct]
TwoEach == [b \in Pool |-> 2]
Accounts == <<acct>>
Anonymous == <<anon>>
OneModel == {model}
Turns == {req1, req2}
AskForIt == [r \in Turns |-> model]
ViaAuto == {req2}
NoneNamed == {0}

Budget == INSTANCE FreeLaneBudget WITH
    Buckets <- Pool, Exits <- Host, ExitOf <- DialDirectly,
    AccountPlan <- Accounts, AnonymousPlan <- Anonymous,
    Models <- OneModel, Limit <- TwoEach, MaxInFlight <- 1,
    Learning <- TRUE, LearnedTtl <- 4, LearnedMinSamples <- 0, LowUsageUpgrade <- 2,
    ShortQuotaCooldown <- 1, ShortLimitMax <- 1, ProbeWindow <- 1, Recheck <- 2,
    ProxyCooldown <- 1, DayLength <- 4,
    Requests <- Turns, AutoRouted <- ViaAuto, ModelOf <- AskForIt,
    RetryAfters <- NoneNamed, Fallback <- TRUE, Skew <- 1, MaxTurns <- 2, MaxTime <- 4,
    req <- walks

budgetVars == <<now, file, inFlight, cursor, walks, turns, ledger, late, probed>>
laneVars == <<part, vars, budgetVars>>

LaneInit == part \in {"budget", "sessions"} /\ Init /\ Budget!Init

RunBudget == part = "budget" /\ Budget!Next /\ UNCHANGED <<part, vars>>
RunSessions == part = "sessions" /\ Next /\ UNCHANGED <<part, budgetVars>>

LaneNext == RunBudget \/ RunSessions

LaneSpec == LaneInit /\ [][LaneNext]_laneVars

-----------------------------------------------------------------------------
(* The properties of the accounting are stated in its module.              *)

SlotsMatchGuards == Budget!SlotsMatchGuards
ProvisionalCeilingTightens == Budget!ProvisionalCeilingTightens
ParkedExitOnlyProbed == Budget!ParkedExitOnlyProbed
=============================================================================
