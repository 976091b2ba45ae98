----------------------------- MODULE BudgetFile -----------------------------
(***************************************************************************)
(* The free lane's accounting file and what each operation of              *)
(* opencode_free_budget.rs does to it.  Every operation runs under one     *)
(* write lock (with_state), so each is one state transformer here; who     *)
(* calls them, and in which order, is the subject of FreeLaneBudget.       *)
(*                                                                         *)
(* A bucket is one credential leaving through one exit.  The direct dial   *)
(* is an exit like the proxies, except that it never cools: the program    *)
(* keeps its scope, last 429 and probe stamp in process-wide fields.       *)
(* Instants are ticks; 0 is "never", as in the program.                    *)
(***************************************************************************)
EXTENDS Integers, Sequences

CONSTANTS
    Buckets,            \* accounting buckets (credential x exit)
    Exits,              \* egresses, Direct among them
    Direct,             \* the host's own address
    ExitOf,             \* the exit each bucket leaves through
    AccountPlan,        \* buckets of managed accounts, in list order
    AnonymousPlan,      \* buckets of the anonymous credential, in list order
    Models,             \* upstream model ids
    Limit,              \* configured daily ceiling of each bucket
    MaxInFlight,        \* per-bucket concurrency cap, 0 = none
    Learning,           \* is opencode_free_learned_limit on?
    LearnedTtl,         \* lifetime of a learned ceiling, 0 = forever
    LearnedMinSamples,  \* daily 429s after fewer requests are suspicions
    LowUsageUpgrade,    \* that many suspicions make the next one daily
    ShortQuotaCooldown, \* cooldown of a suspicion
    ShortLimitMax,      \* longest Retry-After of a burst limit
    ProbeWindow,        \* two 429s this close blame the exit
    Recheck,            \* pause between half-open probes of an exit
    ProxyCooldown,      \* cooldown of an exit whose tunnel failed
    DayLength,          \* ticks in a UTC day
    None                \* no value

ASSUME PlanAssumption ==
    /\ Direct \in Exits
    /\ ExitOf \in [Buckets -> Exits]
    /\ AccountPlan \in Seq(Buckets) /\ AnonymousPlan \in Seq(Buckets)

ASSUME LimitAssumption ==
    /\ Limit \in [Buckets -> Nat \ {0}]
    /\ MaxInFlight \in Nat
    /\ Learning \in BOOLEAN

ASSUME TimingAssumption ==
    /\ {LearnedTtl, LearnedMinSamples, LowUsageUpgrade, ShortQuotaCooldown} \subseteq Nat
    /\ {ShortLimitMax, ProbeWindow, Recheck, ProxyCooldown} \subseteq Nat
    /\ DayLength \in Nat \ {0}

ASSUME NoneAssumption == None \notin [limit : Nat, at : Nat]

Scopes == {"unknown", "account", "egress"}

Prev == [limit : Nat, at : Nat]

Quota429 == [model : Models, bucket : Buckets, at : Nat]

Bucket == [known : BOOLEAN, used : Nat, learned : Nat, learnedAt : Nat,
           prev : Prev \cup {None}, cooldown : Nat]

ExitState == [known : BOOLEAN, scope : Scopes, last429 : Quota429 \cup {None},
              probe : Nat, cooldown : Nat]

File == [window : Nat, buckets : [Buckets -> Bucket],
         exits : [Exits -> ExitState], refusals : Nat]

FreshBucket == [known |-> FALSE, used |-> 0, learned |-> 0, learnedAt |-> 0,
                prev |-> None, cooldown |-> 0]

FreshFile ==
    [window |-> 0, buckets |-> [b \in Buckets |-> FreshBucket],
     exits |-> [e \in Exits |-> [known |-> e = Direct, scope |-> "unknown",
                                 last429 |-> None, probe |-> 0, cooldown |-> 0]],
     refusals |-> 0]

-----------------------------------------------------------------------------
(* The UTC window *)

AtLeast(x, y) == IF x >= y THEN x ELSE y
AtMost(x, y) == IF x <= y THEN x ELSE y

WindowDay(t) == t \div DayLength

WindowResetAt(t) == (t \div DayLength + 1) * DayLength

StillCooling(until, t) == IF until <= t THEN 0 ELSE until

(* The first operation of another day clears the counters and the scope    *)
(* lessons; learned ceilings are committed, the probe stamps stay.         *)
Rollover(f, t) ==
    IF f.window = WindowDay(t) THEN f
    ELSE [window   |-> WindowDay(t),
          buckets  |-> [b \in Buckets |->
                          [f.buckets[b] EXCEPT
                             !.used = 0, !.prev = None,
                             !.cooldown = StillCooling(@, t)]],
          exits    |-> [e \in Exits |->
                          [f.exits[e] EXCEPT
                             !.scope = "unknown", !.last429 = None,
                             !.cooldown = StillCooling(@, t)]],
          refusals |-> 0]

-----------------------------------------------------------------------------
(* One bucket *)

EffectiveLimit(b, k) == IF k.learned > 0 THEN AtMost(Limit[b], k.learned) ELSE Limit[b]

(* Slip: the last request of the day is granted twice. *)
SpentTooLate(b, k) == k.used > EffectiveLimit(b, k)

Spent(b, k) == k.used >= EffectiveLimit(b, k)

(* A ceiling nobody confirmed for LearnedTtl rises by 20 %, one at least,  *)
(* and is forgotten when it reaches the configured one.                    *)
RefreshLearned(b, k, t) ==
    LET raised == AtMost(AtLeast((6 * k.learned + 4) \div 5, k.learned + 1), Limit[b]) IN
    IF \/ k.learned = 0 \/ LearnedTtl = 0 \/ k.learnedAt = 0
       \/ t - k.learnedAt <= LearnedTtl
      THEN k
    ELSE IF raised >= Limit[b] THEN [k EXCEPT !.learned = 0, !.learnedAt = 0]
    ELSE [k EXCEPT !.learned = raised, !.learnedAt = t]

-----------------------------------------------------------------------------
(* begin: walk the credentials in order and reserve the first usable one.  *)
(* The cursor rotates the accounts; the anonymous credentials come last.   *)

Order(cursor) ==
    LET n == Len(AccountPlan) IN
    [i \in 1 .. n + Len(AnonymousPlan) |->
        IF i <= n THEN AccountPlan[((cursor + i - 1) % n) + 1] ELSE AnonymousPlan[i - n]]

Parked(f, b) == f.exits[ExitOf[b]].scope = "egress"

(* Has the exit's stamp aged past the recheck interval? *)
StampAged(f, b, t) ==
    /\ f.exits[ExitOf[b]].probe > 0
    /\ t - f.exits[ExitOf[b]].probe >= Recheck

(* The lesson of a parked exit blocks its buckets between two probes. *)
ScopeBlocked(f, b, t) == Parked(f, b) /\ f.exits[ExitOf[b]].probe > 0 /\ ~StampAged(f, b, t)

ExitCooling(f, b, t) == f.exits[ExitOf[b]].cooldown > t

(* The half-open probe of a parked exit, and that of a cooling bucket.     *)
LiftsPark(f, b, t) == Parked(f, b) /\ ~ScopeBlocked(f, b, t)

LiftsCooldown(f, b, t) ==
    /\ ~Parked(f, b) /\ ~ExitCooling(f, b, t)
    /\ f.buckets[b].cooldown > t /\ StampAged(f, b, t)

RaisesProbe(f, b, t) == LiftsPark(f, b, t) \/ LiftsCooldown(f, b, t)

(* What the walk leaves in an untried bucket it looked at. *)
Visited(f, b, t) ==
    LET reopened == IF RaisesProbe(f, b, t) THEN [f.buckets[b] EXCEPT !.cooldown = 0]
                                            ELSE f.buckets[b] IN
    IF ScopeBlocked(f, b, t) THEN f.buckets[b]
    ELSE IF ExitCooling(f, b, t) THEN reopened
    ELSE RefreshLearned(b, [reopened EXCEPT !.known = TRUE], t)

(* The gates a bucket passes before its in-flight cap is looked at. *)
Usable(f, b, t) ==
    /\ ~ScopeBlocked(f, b, t)
    /\ ~ExitCooling(f, b, t)
    /\ Visited(f, b, t).cooldown <= t
    /\ ~Spent(b, Visited(f, b, t))

(* Slip: one slot too many. *)
HasSlotTooMany(inFlight, b) == MaxInFlight = 0 \/ inFlight[b] <= MaxInFlight

HasSlot(inFlight, b) == MaxInFlight = 0 \/ inFlight[b] < MaxInFlight

Ready(f, inFlight, b, t) == Usable(f, b, t) /\ HasSlot(inFlight, b)

(* Positions the walk stops at: the first untried ready credential. *)
FirstReady(f, inFlight, order, tried, t, i) ==
    /\ order[i] \notin tried /\ Ready(f, inFlight, order[i], t)
    /\ \A j \in DOMAIN order :
         j < i => order[j] \in tried \/ ~Ready(f, inFlight, order[j], t)

NoneReady(f, inFlight, order, tried, t) ==
    \A i \in DOMAIN order : order[i] \in tried \/ ~Ready(f, inFlight, order[i], t)

SomeBusy(f, inFlight, order, tried, t) ==
    \E i \in DOMAIN order :
        order[i] \notin tried /\ Usable(f, order[i], t) /\ ~HasSlot(inFlight, order[i])

(* The file after the walk looked at the untried buckets of `seen`. *)
AfterWalk(f, seen, t) ==
    [f EXCEPT !.buckets = [b \in Buckets |->
        IF b \in seen THEN Visited(f, b, t) ELSE f.buckets[b]]]

(* Slip: the probe is not stamped. *)
ReserveUnstamped(f, seen, b, t) == [AfterWalk(f, seen, t) EXCEPT !.buckets[b].used = @ + 1]

(* The probe flag is per walk, and the stamp goes to the exit of the       *)
(* credential that is dispatched, whichever bucket raised the flag.        *)
AfterReserve(f, seen, b, t) ==
    LET walked == AfterWalk(f, seen, t)
        e == ExitOf[b]
        stamped == f.exits[e].known /\ \E s \in seen : RaisesProbe(f, s, t) IN
    [walked EXCEPT !.buckets[b].used = @ + 1,
                   !.exits[e].probe = IF stamped THEN t ELSE @]

-----------------------------------------------------------------------------
(* begin_warm_probe: one dispatch past the quota verdict. *)

(* Only a dead tunnel or a full credential stops the probe. *)
Probeable(f, inFlight, b, t) == ~ExitCooling(f, b, t) /\ HasSlot(inFlight, b)

AfterWarmProbe(f, b) == [f EXCEPT !.buckets[b].known = TRUE, !.buckets[b].used = @ + 1]

-----------------------------------------------------------------------------
(* note_quota_429: a credential was refused for quota. *)

ShortBurst(retryAfter) == retryAfter > 0 /\ retryAfter <= ShortLimitMax

(* The request that is refused was charged when it was dispatched. *)
Observed(k) == AtLeast(k.used, 1)

LowUsage(k, retryAfter) == ~ShortBurst(retryAfter) /\ Observed(k) < LearnedMinSamples

Learn(k, t) ==
    IF ~Learning THEN k
    ELSE [k EXCEPT
            !.prev = IF @ = None THEN [limit |-> k.learned, at |-> k.learnedAt] ELSE @,
            !.learned = IF @ > 0 THEN AtMost(@, Observed(k)) ELSE Observed(k),
            !.learnedAt = t]

(* Slip: the saved ceiling is copied back but not taken. *)
UnlearnKeepsPrev(k) ==
    IF k.prev = None THEN k
    ELSE [k EXCEPT !.learned = k.prev.limit, !.learnedAt = k.prev.at]

Unlearn(k) ==
    IF k.prev = None THEN k
    ELSE [k EXCEPT !.learned = k.prev.limit, !.learnedAt = k.prev.at, !.prev = None]

(* Was another credential refused for this model within the probe window?  *)
SwitchedAfter429(x, b, m, t) ==
    /\ x.last429 # None
    /\ x.last429.model = m /\ x.last429.bucket # b
    /\ t - x.last429.at <= ProbeWindow

(* The bucket and the suspicion count the 429 is judged with. *)
Judged(f, b, t) == [RefreshLearned(b, f.buckets[b], t) EXCEPT !.known = TRUE]

Refusals(f, b, retryAfter, t) ==
    f.refusals + (IF LowUsage(Judged(f, b, t), retryAfter) THEN 1 ELSE 0)

Suspected(f, b, retryAfter, t) ==
    LowUsage(Judged(f, b, t), retryAfter) /\ Refusals(f, b, retryAfter, t) < LowUsageUpgrade

TrustedDaily(f, b, retryAfter, t) == ~ShortBurst(retryAfter) /\ ~Suspected(f, b, retryAfter, t)

LearnsEgress(f, b, m, retryAfter, t) ==
    /\ TrustedDaily(f, b, retryAfter, t)
    /\ ~Parked(f, b)
    /\ SwitchedAfter429(f.exits[ExitOf[b]], b, m, t)

QuotaCooldown(f, b, retryAfter, t) ==
    IF Suspected(f, b, retryAfter, t)
      THEN LET cap == AtLeast(ShortQuotaCooldown, 1)
           IN  t + (IF retryAfter > 0 THEN AtMost(retryAfter, cap) ELSE cap)
    ELSE IF retryAfter > 0 THEN t + retryAfter ELSE WindowResetAt(t)

(* The refused bucket before any egress lesson. *)
Refused(f, b, retryAfter, t) ==
    LET cooled == [Judged(f, b, t) EXCEPT
                     !.cooldown = AtLeast(@, QuotaCooldown(f, b, retryAfter, t))] IN
    IF TrustedDaily(f, b, retryAfter, t) THEN Learn(cooled, t) ELSE cooled

(* An egress lesson cools every bucket of the exit to the window's end and *)
(* takes back what this window made them learn.                            *)
Park(k, t) ==
    Unlearn([k EXCEPT !.cooldown = AtLeast(AtLeast(@, WindowResetAt(t)), t + 1)])

(* Slip: a lesson parks the buckets of every exit. *)
NotedEverywhere(f, b, m, retryAfter, t) ==
    LET lesson == LearnsEgress(f, b, m, retryAfter, t)
        noted == [f.buckets EXCEPT ![b] = Refused(f, b, retryAfter, t)] IN
    [c \in Buckets |-> IF lesson /\ noted[c].known THEN Park(noted[c], t) ELSE noted[c]]

NotedBuckets(f, b, m, retryAfter, t) ==
    LET lesson == LearnsEgress(f, b, m, retryAfter, t)
        noted == [f.buckets EXCEPT ![b] = Refused(f, b, retryAfter, t)] IN
    [c \in Buckets |-> IF lesson /\ ExitOf[c] = ExitOf[b] /\ noted[c].known
                         THEN Park(noted[c], t) ELSE noted[c]]

NotedExit(f, b, m, retryAfter, t) ==
    LET lesson == LearnsEgress(f, b, m, retryAfter, t)
        x == f.exits[ExitOf[b]] IN
    IF ~TrustedDaily(f, b, retryAfter, t) THEN x
    ELSE [known |-> TRUE,
          scope |-> IF lesson \/ x.scope = "egress" THEN "egress" ELSE "account",
          last429 |-> [model |-> m, bucket |-> b, at |-> t],
          probe |-> IF lesson THEN t ELSE x.probe,
          cooldown |-> x.cooldown]

AfterQuota429(f, b, m, retryAfter, t) ==
    [f EXCEPT !.refusals = Refusals(f, b, retryAfter, t),
              !.buckets = NotedBuckets(f, b, m, retryAfter, t),
              !.exits[ExitOf[b]] = NotedExit(f, b, m, retryAfter, t)]

-----------------------------------------------------------------------------
(* note_success, note_egress_failure, refund *)

(* A 2xx on a parked exit disproves the lesson; one after a sibling's 429  *)
(* blames the account and commits what the sibling learned.                *)
AfterSuccess(f, b, m, t) ==
    LET e == ExitOf[b]
        x == f.exits[e]
        switched == SwitchedAfter429(x, b, m, t) IN
    [f EXCEPT
       !.buckets = [c \in Buckets |->
            [f.buckets[c] EXCEPT
               !.cooldown = IF Parked(f, b) /\ ExitOf[c] = e THEN 0 ELSE @,
               !.prev = IF switched /\ c = x.last429.bucket THEN None ELSE @]],
       !.exits[e].scope = IF switched THEN "account"
                          ELSE IF @ = "egress" THEN "unknown" ELSE @,
       !.exits[e].last429 = None]

AfterEgressFailure(f, e, t) ==
    [f EXCEPT !.exits[e].known = TRUE,
              !.exits[e].cooldown = IF ProxyCooldown > 0 THEN AtLeast(@, t + ProxyCooldown) ELSE @]

(* Slip: the subtraction does not saturate. *)
RefundBelowZero(f, b) == [f EXCEPT !.buckets[b].used = @ - 1]

(* Unlike every other operation, refund does not roll the window first. *)
AfterRefund(f, b) == [f EXCEPT !.buckets[b].used = IF @ > 0 THEN @ - 1 ELSE 0]

=============================================================================
