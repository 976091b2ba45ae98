---------------------------- MODULE ChatDispatch ----------------------------
(***************************************************************************)
(* Concurrent chat requests walking their fallback chains over shared      *)
(* circuits, account pools and rate windows (handle_chat).  Pass 0 tries   *)
(* each candidate that its gates admit; pass 1 probes one candidate per    *)
(* provider among those a soft gate declined.  A request gives up its      *)
(* future only where it awaits, so it may be dropped by a client           *)
(* disconnect while it queues for the rate window or is upstream.          *)
(*                                                                         *)
(* External: the upstream's answer, the subscription reading, the free     *)
(* lane's choice of credential (FreeLaneBudget details it), and the admin  *)
(* who edits account pools.                                                *)
(***************************************************************************)
EXTENDS CircuitStore

CONSTANTS
    Requests,
    ChainOf,        \* the candidates each request resolved to, in order, repeated or not
    Registered,     \* providers the registry knows
    Local,          \* providers that bypass the rate window
    FreeLane,       \* candidates served by the free lane
    Paid,           \* candidates that draw on the subscription quota
    PoolChoices,    \* account pools an admin may install, per provider
    Answers,        \* what an upstream may say
    Gates,          \* subscription readings: "open", "known", "unknown" reset
    RateEnabled,    \* rate_auto_enable_api_key_providers
    MaxWait,        \* rate_max_wait_ms
    MaxAttempts,    \* MAX_GLOBAL_ATTEMPTS
    Deadline,       \* COMBO_LOOP_SAFETY_TIMEOUT_MS
    BudgetWaits,    \* the free lane's budget reports a wait
    CursorModulus   \* bound of the cursor: a multiple of every pool's size

Candidates == UNION {Range(ChainOf[r]) : r \in Requests}
Providers == {c.provider : c \in Candidates}
Accounts == UNION {UNION {Range(pool) : pool \in PoolChoices[p]} : p \in Providers}

(* A connection's circuit key: the account, or the provider itself when it *)
(* has no managed account.                                                 *)
Keys == Providers \cup Accounts

(* "ok", a client error (400), a free-lane quota or egress failure, or a   *)
(* failure of some kind, which a tier's verdict may pin on the model.      *)
Failures == [kind : Kinds, ofModel : BOOLEAN]
Ok == [kind |-> "Ok", ofModel |-> FALSE]
Quota == [kind |-> "Quota", ofModel |-> FALSE]
Client == [kind |-> "Client", ofModel |-> FALSE]

ASSUME DispatchAssumption ==
    /\ IsFiniteSet(Requests)
    /\ \A r \in Requests : ChainOf[r] \in Seq(Range(ChainOf[r])) /\ ChainOf[r] # << >>
    /\ \A p \in Providers :
          /\ PoolChoices[p] # {}
          /\ \A accounts \in PoolChoices[p] :
                accounts \in Seq(Range(accounts)) /\ IsInjective(accounts)
    /\ Providers \cap Accounts = {}
    /\ Answers \subseteq Failures \cup {Ok, Quota, Client}
    /\ Gates \subseteq {"open", "known", "unknown"} /\ Gates # {}
    /\ \A pl \in UNION {PoolChoices[q] : q \in Providers} :
          Len(pl) > 0 => CursorModulus % Len(pl) = 0
    /\ MinInterval <= RateWindow
    /\ {RateEnabled, BudgetWaits} \subseteq BOOLEAN
    /\ CursorModulus \in Nat \ {0}
    /\ {MaxWait, MaxAttempts, Deadline} \subseteq Nat

VARIABLES
    health,     \* per circuit key
    modelCool,  \* per candidate: the model-level cooldown
    acctCool,   \* per candidate and key: the same, for one account
    hits,       \* per provider: its rate window
    pool,       \* per provider: its managed accounts
    cursor,     \* process-wide round-robin cursor
    gate,       \* the subscription reading
    req,        \* the local state of each request
    strikes     \* history: per key, the ages of its latest failures in a row

vars == <<health, modelCool, acctCool, hits, pool, cursor, gate, req, strikes>>

Phases == {"idle", "choosing", "queued", "admitted", "flying", "landed", "served", "failed"}

(* A candidate's turn in one of the two passes, by its index. *)
Turns == {0, 1} \X Nat

(* soft: the candidates a soft gate declined; probed: the providers pass 1 *)
(* has probed; left, wait, sleep: ticks until the loop's deadline, the end *)
(* of the rate queue's patience and its next look; starved: some rate      *)
(* queue wait ran out; hinted: it failed with a Retry-After.  History:     *)
(* hard, the places of the chain where a hard gate declined; sent, the     *)
(* attempts as <<pass, place>>.                                            *)
Request == [phase : Phases, pass : {0, 1}, at : Nat \ {0}, attempts : Nat,
            soft : SUBSET Candidates, probed : SUBSET Providers, key : Keys,
            answer : Answers \cup {Ok}, left : Nat, wait : Nat, sleep : Nat,
            starved : BOOLEAN, hinted : BOOLEAN,
            hard : SUBSET Nat, sent : SUBSET Turns]

Idle == [phase |-> "idle", pass |-> 0, at |-> 1, attempts |-> 0, soft |-> {}, probed |-> {},
         key |-> CHOOSE k \in Keys : TRUE, answer |-> Ok, left |-> 0, wait |-> 0, sleep |-> 0,
         starved |-> FALSE, hinted |-> FALSE, hard |-> {}, sent |-> {}]

Pools == {f \in [Providers -> UNION {PoolChoices[p] : p \in Providers}] :
             \A p \in Providers : f[p] \in PoolChoices[p]}

Init ==
    /\ health = [k \in Keys |-> Healthy]
    /\ modelCool = [c \in Candidates |-> 0]
    /\ acctCool = [c \in Candidates |-> [k \in Keys |-> 0]]
    /\ hits = [p \in Providers |-> << >>]
    /\ pool \in Pools
    /\ cursor = 0
    /\ gate \in Gates
    /\ req = [r \in Requests |-> Idle]
    /\ strikes = [k \in Keys |-> << >>]
-----------------------------------------------------------------------------
(* Where a walking request stands. *)
Cand(r) == ChainOf[r][req[r].at]
ChainEnded(r) == req[r].at > Len(ChainOf[r])

(* The checks before each candidate: the attempt cap and the loop deadline. *)
Stopped(r) == req[r].attempts >= MaxAttempts \/ req[r].left = 0

Choosing(r, pass) ==
    /\ req[r].phase = "choosing"
    /\ req[r].pass = pass
    /\ ~ChainEnded(r)
    /\ ~Stopped(r)

Walking(q) == [q EXCEPT !.phase = "choosing", !.at = @ + 1]

Declined(r) == Walking([req[r] EXCEPT !.soft = @ \cup {Cand(r)}])
Barred(r) == Walking([req[r] EXCEPT !.hard = @ \cup {req[r].at}])

Shared == <<health, modelCool, acctCool, hits, pool, cursor, gate, strikes>>

-----------------------------------------------------------------------------
(* The gates, in the order the code applies them. *)

(* A model cools when every managed account that could serve it is cooling *)
(* it; a provider without managed accounts always counts as live.          *)
AnyLive(c) ==
    \/ pool[c.provider] = << >>
    \/ \E a \in Range(pool[c.provider]) : acctCool[c][a] = 0

ModelCooling(c) == modelCool[c] > 0 /\ ~AnyLive(c)

Exhausted(c) == gate # "open" /\ c \in Paid

RateGated(c) == RateEnabled /\ c.provider \notin Local

HardBlocked(c) == ModelCooling(c) \/ (Exhausted(c) /\ gate = "known")

(* An idle or finished client sends a request (afresh). *)
Arrive(r) ==
    /\ req[r].phase \in {"idle", "served", "failed"}
    /\ req' = [req EXCEPT ![r] = [Idle EXCEPT !.phase = "choosing", !.left = Deadline]]
    /\ UNCHANGED Shared

SkipUnknown(r) ==
    /\ \E pass \in {0, 1} : Choosing(r, pass)
    /\ Cand(r).provider \notin Registered
    /\ req' = [req EXCEPT ![r] = Walking(@)]
    /\ UNCHANGED Shared

Considered(r) == Choosing(r, 0) /\ Cand(r).provider \in Registered

SkipUnavailable(r) ==
    /\ Considered(r)
    /\ ~Available(health[Cand(r).provider])
    /\ req' = [req EXCEPT ![r] = Declined(r)]
    /\ UNCHANGED Shared

SkipCooling(r) ==
    /\ Considered(r)
    /\ Available(health[Cand(r).provider])
    /\ ModelCooling(Cand(r))
    /\ req' = [req EXCEPT ![r] = Barred(r)]
    /\ UNCHANGED Shared

(* A published reset bars the candidate; an unknown one leaves it to the   *)
(* probe.                                                                  *)
SkipExhausted(r) ==
    /\ Considered(r)
    /\ Available(health[Cand(r).provider])
    /\ ~ModelCooling(Cand(r))
    /\ Exhausted(Cand(r))
    /\ req' = [req EXCEPT ![r] = IF gate = "known" THEN Barred(r) ELSE Declined(r)]
    /\ UNCHANGED Shared

Admit(r) ==
    /\ Considered(r)
    /\ Available(health[Cand(r).provider])
    /\ ~ModelCooling(Cand(r))
    /\ ~Exhausted(Cand(r))
    /\ req' = [req EXCEPT ![r] =
                 IF RateGated(Cand(r))
                 THEN [@ EXCEPT !.phase = "queued", !.wait = MaxWait, !.sleep = 0]
                 ELSE [@ EXCEPT !.phase = "admitted"]]
    /\ UNCHANGED Shared

(* Slip: the queue's patience never ends. *)
WaitsOn(r, recent) == [req[r] EXCEPT !.sleep = Most(NextSlot(recent), 1)]

(* Sleep until the next slot or the end of the patience, then give up. *)
AfterRefusal(r, recent) ==
    IF req[r].wait = 0
    THEN [Declined(r) EXCEPT !.starved = TRUE]
    ELSE [req[r] EXCEPT !.sleep = Least(Most(NextSlot(recent), 1), req[r].wait)]

(* One look of wait_permit at the window, which drops the expired hits. *)
Permit(r) ==
    LET p == Cand(r).provider
        recent == Recent(hits[p])
    IN  /\ req[r].phase = "queued"
        /\ req[r].sleep = 0
        /\ \/ /\ Admits(hits[p])
              /\ hits' = [hits EXCEPT ![p] = Append(recent, 0)]
              /\ req' = [req EXCEPT ![r].phase = "admitted", ![r].wait = 0]
           \/ /\ ~Admits(hits[p])
              /\ hits' = [hits EXCEPT ![p] = recent]
              /\ req' = [req EXCEPT ![r] = AfterRefusal(r, recent)]
        /\ UNCHANGED <<health, modelCool, acctCool, pool, cursor, gate, strikes>>

-----------------------------------------------------------------------------
(* Pass 1 starts over at the head of the chain. *)
StartProbing(r) ==
    /\ req[r].phase = "choosing"
    /\ req[r].pass = 0
    /\ ChainEnded(r)
    /\ req' = [req EXCEPT ![r].pass = 1, ![r].at = 1]
    /\ UNCHANGED Shared

(* Slip: a provider may be probed again. *)
ProbesEvery(r) == Cand(r) \in req[r].soft

Probes(r) == Cand(r) \in req[r].soft /\ Cand(r).provider \notin req[r].probed

Probing(r) ==
    [req[r] EXCEPT !.probed = @ \cup {Cand(r).provider}, !.phase = "admitted"]

Probe(r) ==
    /\ Choosing(r, 1)
    /\ Cand(r).provider \in Registered
    /\ req' = [req EXCEPT ![r] = IF Probes(r) THEN Probing(r) ELSE Walking(@)]
    /\ UNCHANGED Shared

-----------------------------------------------------------------------------
(* pick_account_for_model: round-robin, in pool order, over the accounts    *)
(* that cool neither on their own key nor on this model, or over a wider   *)
(* set when there are none.                                                *)
Rotation(c) ==
    LET accounts == Range(pool[c.provider])
        Free == {a \in accounts : health[a].cooldown = 0}
        keyFree == IF Free = {} THEN accounts ELSE Free
        Live == {a \in keyFree : acctCool[c][a] = 0}
    IN  IF Live = {} THEN keyFree ELSE Live

Before(p, a, b) ==
    \E i, j \in DOMAIN pool[p] : i < j /\ pool[p][i] = a /\ pool[p][j] = b

(* The key whose turn it is, as a singleton. *)
Picked(c) ==
    IF pool[c.provider] = << >> THEN {c.provider}
    ELSE {k \in Rotation(c) :
             Cardinality({a \in Rotation(c) : Before(c.provider, a, k)})
                 = cursor % Cardinality(Rotation(c))}

(* The free lane drops the accounts that cool on either count and always   *)
(* has the anonymous credential.                                           *)
LaneKeys(c) ==
    {c.provider} \cup {a \in Range(pool[c.provider]) :
                          health[a].cooldown = 0 /\ acctCool[c][a] = 0}

Attempted(r) ==
    [req[r] EXCEPT !.attempts = @ + 1, !.sent = @ \cup {<<req[r].pass, req[r].at>>}]

Flying(r, k) == [Attempted(r) EXCEPT !.phase = "flying", !.key = k]

Send(r) ==
    /\ req[r].phase = "admitted"
    /\ Cand(r) \notin FreeLane
    /\ \E k \in Picked(Cand(r)) :
          /\ health' = [health EXCEPT ![k] = SlotTaken(@)]
          /\ req' = [req EXCEPT ![r] = Flying(r, k)]
    /\ cursor' = IF Len(pool[Cand(r).provider]) > 1
                 THEN (cursor + 1) % CursorModulus ELSE cursor
    /\ UNCHANGED <<modelCool, acctCool, hits, pool, gate, strikes>>

SendFreeLane(r) ==
    /\ req[r].phase = "admitted"
    /\ Cand(r) \in FreeLane
    /\ \E k \in LaneKeys(Cand(r)) :
          /\ health' = [health EXCEPT ![k] = SlotTaken(@)]
          /\ req' = [req EXCEPT ![r] = Flying(r, k)]
    /\ UNCHANGED <<modelCool, acctCool, hits, pool, cursor, gate, strikes>>

(* The local budget refuses: the attempt counts, nothing is dispatched. *)
RefuseLocally(r) ==
    /\ req[r].phase = "admitted"
    /\ Cand(r) \in FreeLane
    /\ req' = [req EXCEPT ![r] = Walking(Attempted(r))]
    /\ UNCHANGED Shared

(* A quota 429 moves the free lane to another credential, on its own guard. *)
SwitchCredential(r) ==
    /\ req[r].phase = "flying"
    /\ Cand(r) \in FreeLane
    /\ \E k \in LaneKeys(Cand(r)) \ {req[r].key} :
          /\ health' = [health EXCEPT ![req[r].key] = SlotReleased(@), ![k] = SlotTaken(@)]
          /\ req' = [req EXCEPT ![r].key = k]
    /\ UNCHANGED <<modelCool, acctCool, hits, pool, cursor, gate, strikes>>

(* The upstream answers and the guard drops, before the verdict is booked. *)
Land(r, answer) ==
    /\ req[r].phase = "flying"
    /\ answer = Quota => Cand(r) \in FreeLane
    /\ health' = [health EXCEPT ![req[r].key] = SlotReleased(@)]
    /\ req' = [req EXCEPT ![r].phase = "landed", ![r].answer = answer]
    /\ UNCHANGED <<modelCool, acctCool, hits, pool, cursor, gate, strikes>>

-----------------------------------------------------------------------------
ModelLevel(answer) == answer \in Failures /\ (answer.kind = "RateLimit" \/ answer.ofModel)

BookSuccess(r) ==
    /\ req[r].phase = "landed"
    /\ req[r].answer = Ok
    /\ health' = [health EXCEPT ![req[r].key] = AfterSuccess(@)]
    /\ strikes' = [strikes EXCEPT ![req[r].key] = << >>]
    /\ req' = [req EXCEPT ![r] = [Idle EXCEPT !.phase = "served"]]
    /\ UNCHANGED <<modelCool, acctCool, hits, pool, cursor, gate>>

(* A client error or a free-lane quota or egress failure cools nothing. *)
BookNeutral(r) ==
    /\ req[r].phase = "landed"
    /\ req[r].answer \in {Quota, Client}
    /\ req' = [req EXCEPT ![r] = Walking(@)]
    /\ UNCHANGED Shared

BookModelFailure(r) ==
    LET until == ModelCooldown(req[r].answer.kind)
    IN  /\ req[r].phase = "landed"
        /\ ModelLevel(req[r].answer)
        /\ modelCool' = [modelCool EXCEPT ![Cand(r)] = until]
        /\ acctCool' = [acctCool EXCEPT ![Cand(r)][req[r].key] = until]
        /\ req' = [req EXCEPT ![r] = Walking(@)]
        /\ UNCHANGED <<health, hits, pool, cursor, gate, strikes>>

(* As many of the latest failures as the breaker's threshold. *)
Latest(ages) ==
    IF Len(ages) > BreakerThreshold THEN Tail(ages) ELSE ages

BookFailure(r) ==
    /\ req[r].phase = "landed"
    /\ req[r].answer \in Failures
    /\ ~ModelLevel(req[r].answer)
    /\ health' = [health EXCEPT ![req[r].key] = AfterFailure(@, req[r].answer.kind)]
    /\ strikes' = [strikes EXCEPT ![req[r].key] = Latest(Append(@, 0))]
    /\ req' = [req EXCEPT ![r] = Walking(@)]
    /\ UNCHANGED <<modelCool, acctCool, hits, pool, cursor, gate>>

-----------------------------------------------------------------------------
(* Slip: only the providers' own cooldowns are waited for. *)
HintedByProviders(r) == \E c \in Range(ChainOf[r]) : health[c.provider].cooldown > 0

(* Whether the failure of a request without an attempt carries a           *)
(* Retry-After: the longest of these waits, when it is not zero.           *)
Hinted(r) ==
    /\ req[r].attempts = 0
    /\ \/ \E c \in Range(ChainOf[r]) :
             \/ health[c.provider].cooldown > 0
             \/ modelCool[c] > 0
             \/ gate # "open" /\ c \in Paid
       \/ req[r].starved
       \/ BudgetWaits /\ Range(ChainOf[r]) \subseteq FreeLane

Fail(r) ==
    /\ req[r].phase = "choosing"
    /\ \/ ChainEnded(r) /\ req[r].pass = 1
       \/ ~ChainEnded(r) /\ Stopped(r)
    /\ req' = [req EXCEPT ![r] = [Idle EXCEPT !.phase = "failed", !.attempts = req[r].attempts,
                                               !.hinted = Hinted(r)]]
    /\ UNCHANGED Shared

(* The client disconnects at an await: the future is dropped, the guard    *)
(* with it, and nothing is booked.                                         *)
Cancel(r) ==
    /\ req[r].phase \in {"queued", "flying"}
    /\ health' = IF req[r].phase = "flying"
                 THEN [health EXCEPT ![req[r].key] = SlotReleased(@)] ELSE health
    /\ req' = [req EXCEPT ![r] = Idle]
    /\ UNCHANGED <<modelCool, acctCool, hits, pool, cursor, gate, strikes>>

-----------------------------------------------------------------------------
(* An admin edits the accounts of a provider. *)
RefreshPool(p) ==
    /\ \E accounts \in PoolChoices[p] \ {pool[p]} : pool' = [pool EXCEPT ![p] = accounts]
    /\ UNCHANGED <<health, modelCool, acctCool, hits, cursor, gate, req, strikes>>

(* The background refresher installs a reading, or one goes stale. *)
ReadQuota ==
    /\ gate' \in Gates \ {gate}
    /\ UNCHANGED <<health, modelCool, acctCool, hits, pool, cursor, req, strikes>>

Tick ==
    /\ health' = [k \in Keys |-> HealthAged(health[k])]
    /\ modelCool' = [c \in Candidates |-> Left(modelCool[c])]
    /\ acctCool' = [c \in Candidates |-> [k \in Keys |-> Left(acctCool[c][k])]]
    /\ hits' = [p \in Providers |-> Older(hits[p], RateWindow)]
    /\ req' = [r \in Requests |-> [req[r] EXCEPT !.left = Left(@), !.wait = Left(@),
                                                  !.sleep = Left(@)]]
    /\ strikes' = [k \in Keys |-> Older(strikes[k], BreakerWindow)]
    /\ UNCHANGED <<pool, cursor, gate>>

Walk(r) ==
    \/ SkipUnknown(r) \/ SkipUnavailable(r) \/ SkipCooling(r) \/ SkipExhausted(r)
    \/ Admit(r) \/ Permit(r) \/ StartProbing(r) \/ Probe(r)
    \/ Send(r) \/ SendFreeLane(r) \/ RefuseLocally(r)
    \/ BookSuccess(r) \/ BookNeutral(r) \/ BookModelFailure(r) \/ BookFailure(r)
    \/ Fail(r)

Next ==
    \/ \E r \in Requests :
          \/ Arrive(r) \/ Walk(r) \/ SwitchCredential(r) \/ Cancel(r)
          \/ \E answer \in Answers : Land(r, answer)
    \/ \E p \in Providers : RefreshPool(p)
    \/ ReadQuota
    \/ Tick

Spec == Init /\ [][Next]_vars

(* The runtime polls every request that can run, the upstream answers or   *)
(* its timeout fires, and the clock advances.                              *)
Fairness ==
    /\ WF_vars(Tick)
    /\ \A r \in Requests :
          WF_vars(Walk(r)) /\ WF_vars(\E answer \in Answers : Land(r, answer))

FairSpec == Spec /\ Fairness
-----------------------------------------------------------------------------
TypeOK ==
    /\ health \in [Keys -> Health]
    /\ modelCool \in [Candidates -> Nat]
    /\ acctCool \in [Candidates -> [Keys -> Nat]]
    /\ hits \in [Providers -> Seq(Nat)]
    /\ pool \in Pools
    /\ cursor \in 0 .. CursorModulus - 1
    /\ gate \in Gates
    /\ req \in [Requests -> Request]
    /\ strikes \in [Keys -> Seq(Nat)]

Flights(k) == {r \in Requests : req[r].phase = "flying" /\ req[r].key = k}

(* The in-flight count of a circuit key is the number of requests upstream *)
(* on it: no interleaving of answers, credential switches and client       *)
(* disconnects leaks a slot or frees one twice (InFlightGuard).            *)
SlotsMatchFlights == \A k \in Keys : health[k].inFlight = Cardinality(Flights(k))

(* A place of the chain that pass 0 left over to pass 1: it neither sent   *)
(* the candidate from there nor met a hard gate.                           *)
LeftOver(r, place) == <<0, place>> \notin req[r].sent /\ place \notin req[r].hard

(* What a request probes in pass 1 stands at some place that pass 0 left   *)
(* over, so that no candidate is tried more often than the chain names it; *)
(* a provider is probed at most once; and the attempts stop at the cap     *)
(* (the two passes of handle_chat, over a chain that combo.rs does not     *)
(* clear of repeated candidates).                                          *)
AttemptsDisciplined ==
    \A r \in Requests :
        /\ \A one \in req[r].sent : one[1] = 1 =>
              \E place \in DOMAIN ChainOf[r] :
                  ChainOf[r][place] = ChainOf[r][one[2]] /\ LeftOver(r, place)
        /\ \A one, other \in req[r].sent :
              one[1] = 1 /\ other[1] = 1
                /\ ChainOf[r][one[2]].provider = ChainOf[r][other[2]].provider => one = other
        /\ Cardinality(req[r].sent) <= MaxAttempts

(* A breaker opens only after BreakerThreshold failures of its key in a    *)
(* row, all within the window: neither a failure before the last success   *)
(* nor one that aged out counts (record_failure, record_success).          *)
BreakerEarned ==
    [][\A k \in Keys :
          health'[k].breaker > health[k].breaker =>
              Len(Within(strikes'[k], BreakerWindow)) >= BreakerThreshold]_vars

(* A request that fails without an attempt carries a Retry-After unless    *)
(* none of its candidates is barred any longer (the terminal answer of     *)
(* handle_chat).                                                           *)
UndispatchedHasHint ==
    [][\A r \in Requests :
          req[r].phase = "choosing" /\ req'[r].phase = "failed"
              /\ req[r].attempts = 0 /\ ~req'[r].hinted =>
                  \A c \in Range(ChainOf[r]) :
                      c.provider \in Registered => ~HardBlocked(c)]_vars

(* The permits a provider grants stay within its rate window: at most Rpm  *)
(* at a time in the window, and MinInterval apart (RateLimiter).           *)
PermitsWithinRate ==
    \A p \in Providers :
        LET recent == Recent(hits[p])
        IN  /\ Len(recent) <= Rpm
            /\ \A i \in 1 .. Len(recent) - 1 : recent[i] - recent[i + 1] >= MinInterval

(* Every request that is not dropped by its client is answered, whatever   *)
(* the others do to the circuits and windows they share.                   *)
RequestsAnswered ==
    \A r \in Requests : []<>(req[r].phase \in {"idle", "served", "failed"})

-----------------------------------------------------------------------------
(* What the repository says and the code does not keep.                    *)

(* README: 6 concurrent requests per connection. *)
ConcurrencyCapKept == \A k \in Keys : health[k].inFlight <= ConcurrencyLimit

=============================================================================
