----------------------- MODULE FreeLaneBudget_proofs -----------------------
(* Theorems about FreeLaneBudget, for any pool of credentials, any exits,  *)
(* ceilings, caps and clock skew, and any number of requests.              *)
EXTENDS FreeLaneBudget, FiniteSetTheorems, TLAPS

-----------------------------------------------------------------------------
(* What the operations on the accounting file return. *)

(* The walk visits buckets only: rotation stays inside the account list.   *)
LEMMA OrderType ==
    ASSUME NEW c \in 0 .. CursorModulus - 1, NEW i \in DOMAIN Order(c)
    PROVE  Order(c)[i] \in Buckets
<1> DEFINE n == Len(AccountPlan)
<1>1. n \in Nat /\ Len(AnonymousPlan) \in Nat
  BY PlanAssumption
<1>2. i \in 1 .. n + Len(AnonymousPlan)
  BY <1>1 DEF Order
<1>3. CASE i <= n
  <2>1. n \in Nat \ {0}
    BY <1>1, <1>2, <1>3
  <2>2. ((c + i - 1) % n) + 1 \in 1 .. n
    BY <2>1, <1>2 DEF CursorModulus, AtLeast
  <2>3. AccountPlan[((c + i - 1) % n) + 1] \in Buckets
    BY <2>2, PlanAssumption
  <2> QED BY <2>3, <1>2, <1>3 DEF Order
<1>4. CASE ~ (i <= n)
  <2>1. i - n \in 1 .. Len(AnonymousPlan)
    BY <1>1, <1>2, <1>4
  <2>2. AnonymousPlan[i - n] \in Buckets
    BY <2>1, PlanAssumption
  <2> QED BY <2>2, <1>2, <1>4 DEF Order
<1> QED BY <1>3, <1>4

LEMMA CursorStep ==
    ASSUME NEW c \in 0 .. CursorModulus - 1
    PROVE  (c + 1) % CursorModulus \in 0 .. CursorModulus - 1
<1>1. CursorModulus \in Nat \ {0}
  BY PlanAssumption DEF CursorModulus, AtLeast
<1> QED BY <1>1

LEMMA DayType ==
    ASSUME NEW t \in Nat
    PROVE  /\ WindowDay(t) \in Nat
           /\ WindowResetAt(t) \in Nat
<1>1. DayLength \in Nat \ {0}
  BY TimingAssumption
<1>2. t \div DayLength \in Nat
  BY <1>1
<1> QED BY <1>1, <1>2 DEF WindowDay, WindowResetAt

LEMMA FreshType == FreshFile \in File
BY DEF FreshFile, File, Bucket, FreshBucket, ExitState, Scopes

LEMMA RolloverType ==
    ASSUME NEW f \in File, NEW t \in Nat
    PROVE  /\ Rollover(f, t) \in File
           /\ f.window # WindowDay(t) =>
                \A b \in Buckets : Rollover(f, t).buckets[b].used = 0
<1> DEFINE k(b) == [f.buckets[b] EXCEPT !.used = 0, !.prev = None,
                                        !.cooldown = StillCooling(@, t)]
           x(e) == [f.exits[e] EXCEPT !.scope = "unknown", !.last429 = None,
                                      !.cooldown = StillCooling(@, t)]
<1>1. ASSUME NEW b \in Buckets PROVE k(b) \in Bucket /\ k(b).used = 0
  <2>1. f.buckets[b] \in Bucket
    BY DEF File
  <2>2. StillCooling(f.buckets[b].cooldown, t) \in Nat
    BY <2>1 DEF StillCooling, Bucket
  <2> QED BY <2>1, <2>2 DEF Bucket
<1>2. ASSUME NEW e \in Exits PROVE x(e) \in ExitState
  <2>1. f.exits[e] \in ExitState
    BY DEF File
  <2>2. StillCooling(f.exits[e].cooldown, t) \in Nat
    BY <2>1 DEF StillCooling, ExitState
  <2> QED BY <2>1, <2>2 DEF ExitState, Scopes
<1>3. WindowDay(t) \in Nat
  BY DayType
<1>4. f.window # WindowDay(t) =>
        Rollover(f, t) = [window |-> WindowDay(t), buckets |-> [b \in Buckets |-> k(b)],
                          exits |-> [e \in Exits |-> x(e)], refusals |-> 0]
  BY DEF Rollover
<1>5. f.window = WindowDay(t) => Rollover(f, t) = f
  BY DEF Rollover
<1> HIDE DEF k, x
<1> QED BY <1>1, <1>2, <1>3, <1>4, <1>5 DEF File

LEMMA RefreshType ==
    ASSUME NEW b \in Buckets, NEW k \in Bucket, NEW t \in Nat
    PROVE  /\ RefreshLearned(b, k, t) \in Bucket
           /\ RefreshLearned(b, k, t).used = k.used
<1>1. Limit[b] \in Nat \ {0}
  BY LimitAssumption
<1>2. AtMost(AtLeast((6 * k.learned + 4) \div 5, k.learned + 1), Limit[b]) \in Nat
  BY <1>1 DEF AtMost, AtLeast, Bucket
<1> QED BY <1>2 DEF RefreshLearned, Bucket

LEMMA VisitedType ==
    ASSUME NEW f \in File, NEW b \in Buckets, NEW t \in Nat
    PROVE  /\ Visited(f, b, t) \in Bucket
           /\ Visited(f, b, t).used = f.buckets[b].used
<1> DEFINE reopened == IF RaisesProbe(f, b, t) THEN [f.buckets[b] EXCEPT !.cooldown = 0]
                                               ELSE f.buckets[b]
<1>1. f.buckets[b] \in Bucket
  BY DEF File
<1>2. reopened \in Bucket /\ reopened.used = f.buckets[b].used
  BY <1>1 DEF Bucket
<1>3. /\ [reopened EXCEPT !.known = TRUE] \in Bucket
      /\ [reopened EXCEPT !.known = TRUE].used = f.buckets[b].used
  BY <1>2 DEF Bucket
<1> HIDE DEF reopened
<1>4. /\ RefreshLearned(b, [reopened EXCEPT !.known = TRUE], t) \in Bucket
      /\ RefreshLearned(b, [reopened EXCEPT !.known = TRUE], t).used = f.buckets[b].used
  BY <1>3, RefreshType
<1> QED BY <1>1, <1>2, <1>4 DEF Visited, reopened

LEMMA WalkType ==
    ASSUME NEW f \in File, NEW seen, NEW t \in Nat
    PROVE  /\ AfterWalk(f, seen, t) \in File
           /\ AfterWalk(f, seen, t).window = f.window
           /\ \A b \in Buckets : AfterWalk(f, seen, t).buckets[b].used = f.buckets[b].used
BY VisitedType DEF AfterWalk, File

(* A reservation charges one request to a bucket that still had one.       *)
LEMMA ReserveType ==
    ASSUME NEW f \in File, NEW seen, NEW b \in Buckets, NEW t \in Nat, Usable(f, b, t)
    PROVE  /\ AfterReserve(f, seen, b, t) \in File
           /\ AfterReserve(f, seen, b, t).window = f.window
           /\ \A c \in Buckets : AfterReserve(f, seen, b, t).buckets[c].used =
                                   f.buckets[c].used + (IF c = b THEN 1 ELSE 0)
           /\ f.buckets[b].used < Limit[b]
<1> DEFINE walked == AfterWalk(f, seen, t)
           g == AfterReserve(f, seen, b, t)
           e == ExitOf[b]
           stamped == f.exits[e].known /\ \E s \in seen : RaisesProbe(f, s, t)
<1>1. walked \in File /\ walked.window = f.window
  BY WalkType
<1>2. e \in Exits
  BY PlanAssumption
<1>3. g = [walked EXCEPT !.buckets = [walked.buckets EXCEPT ![b] =
                                        [walked.buckets[b] EXCEPT !.used = @ + 1]],
                         !.exits = [walked.exits EXCEPT ![e] =
                                     [walked.exits[e] EXCEPT !.probe = IF stamped THEN t ELSE @]]]
  BY <1>1, <1>2 DEF AfterReserve, File
<1>4. \A c \in Buckets : walked.buckets[c].used = f.buckets[c].used
  BY WalkType
<1> HIDE DEF walked, g, stamped
<1>5. [walked.buckets[b] EXCEPT !.used = @ + 1] \in Bucket
  BY <1>1 DEF File, Bucket
<1>6. [walked.exits[e] EXCEPT !.probe = IF stamped THEN t ELSE @] \in ExitState
  BY <1>1, <1>2 DEF File, ExitState
<1>7. g \in File /\ g.window = f.window
  <2>1. [walked.buckets EXCEPT ![b] = [walked.buckets[b] EXCEPT !.used = @ + 1]]
          \in [Buckets -> Bucket]
    BY <1>1, <1>5 DEF File
  <2>2. [walked.exits EXCEPT ![e] = [walked.exits[e] EXCEPT !.probe = IF stamped THEN t ELSE @]]
          \in [Exits -> ExitState]
    BY <1>1, <1>2, <1>6 DEF File
  <2> QED BY <1>1, <1>3, <2>1, <2>2 DEF File
<1>8. \A c \in Buckets : g.buckets[c].used = f.buckets[c].used + (IF c = b THEN 1 ELSE 0)
  <2>1. g.buckets = [walked.buckets EXCEPT ![b] = [walked.buckets[b] EXCEPT !.used = @ + 1]]
    BY <1>1, <1>3 DEF File
  <2>2. walked.buckets[b] \in Bucket /\ walked.buckets \in [Buckets -> Bucket]
    BY <1>1 DEF File
  <2>3. \A c \in Buckets : f.buckets[c].used \in Nat
    BY DEF File, Bucket
  <2>4. g.buckets[b].used = walked.buckets[b].used + 1
    BY <2>1, <2>2 DEF Bucket
  <2>5. \A c \in Buckets : c # b => g.buckets[c] = walked.buckets[c]
    BY <2>1, <2>2
  <2>6. g.buckets[b].used = f.buckets[b].used + 1
    BY <2>4, <1>4
  <2>7. ASSUME NEW c \in Buckets, c # b PROVE g.buckets[c].used = f.buckets[c].used
    BY <2>5, <2>7, <1>4
  <2>8. ASSUME NEW c \in Buckets, c # b
        PROVE  g.buckets[c].used = f.buckets[c].used + 0
    BY <2>3, <2>7, <2>8
  <2> QED BY <2>6, <2>8
<1>9. f.buckets[b].used < Limit[b]
  <2>1. Visited(f, b, t) \in Bucket /\ Visited(f, b, t).used = f.buckets[b].used
    BY VisitedType
  <2>2. Limit[b] \in Nat
    BY LimitAssumption
  <2> QED BY <2>1, <2>2 DEF Usable, Spent, EffectiveLimit, AtMost, Bucket
<1> QED BY <1>7, <1>8, <1>9 DEF g

LEMMA RefusedType ==
    ASSUME NEW f \in File, NEW b \in Buckets, NEW ra \in Nat, NEW t \in Nat
    PROVE  /\ Refused(f, b, ra, t) \in Bucket
           /\ Refused(f, b, ra, t).used = f.buckets[b].used
<1> DEFINE k == Judged(f, b, t)
           cooled == [k EXCEPT !.cooldown = AtLeast(@, QuotaCooldown(f, b, ra, t))]
<1>1. k \in Bucket /\ k.used = f.buckets[b].used
  <2>1. f.buckets[b] \in Bucket
    BY DEF File
  <2>2. /\ RefreshLearned(b, f.buckets[b], t) \in Bucket
        /\ RefreshLearned(b, f.buckets[b], t).used = f.buckets[b].used
    BY <2>1, RefreshType
  <2> QED BY <2>2 DEF Judged, Bucket
<1>2. QuotaCooldown(f, b, ra, t) \in Nat
  BY DayType, TimingAssumption DEF QuotaCooldown, AtLeast, AtMost
<1> HIDE DEF k
<1>3. cooled \in Bucket /\ cooled.used = f.buckets[b].used
  BY <1>1, <1>2 DEF AtLeast, Bucket
<1> HIDE DEF cooled
<1>4. Learn(cooled, t) \in Bucket /\ Learn(cooled, t).used = f.buckets[b].used
  BY <1>3 DEF Learn, Bucket, Prev, Observed, AtLeast, AtMost
<1> QED BY <1>3, <1>4 DEF Refused, cooled, k

LEMMA ParkType ==
    ASSUME NEW k \in Bucket, NEW t \in Nat
    PROVE  Park(k, t) \in Bucket /\ Park(k, t).used = k.used
<1> DEFINE cooled == [k EXCEPT !.cooldown = AtLeast(AtLeast(@, WindowResetAt(t)), t + 1)]
<1>1. cooled \in Bucket /\ cooled.used = k.used /\ cooled.prev = k.prev
  BY DayType DEF Bucket, AtLeast
<1> HIDE DEF cooled
<1>2. Unlearn(cooled) \in Bucket /\ Unlearn(cooled).used = k.used
  BY <1>1 DEF Unlearn, Bucket, Prev
<1> QED BY <1>2 DEF Park, cooled

LEMMA NotedBucketsType ==
    ASSUME NEW f \in File, NEW b \in Buckets, NEW m \in Models, NEW ra \in Nat, NEW t \in Nat
    PROVE  /\ NotedBuckets(f, b, m, ra, t) \in [Buckets -> Bucket]
           /\ \A c \in Buckets :
                NotedBuckets(f, b, m, ra, t)[c].used = f.buckets[c].used
<1> DEFINE noted == [f.buckets EXCEPT ![b] = Refused(f, b, ra, t)]
           lesson == LearnsEgress(f, b, m, ra, t)
<1>1. noted \in [Buckets -> Bucket] /\ \A c \in Buckets : noted[c].used = f.buckets[c].used
  BY RefusedType DEF File
<1>2. NotedBuckets(f, b, m, ra, t) =
        [c \in Buckets |-> IF lesson /\ ExitOf[c] = ExitOf[b] /\ noted[c].known
                             THEN Park(noted[c], t) ELSE noted[c]]
  BY DEF NotedBuckets
<1> HIDE DEF noted, lesson
<1> QED BY <1>1, <1>2, ParkType

LEMMA NotedExitType ==
    ASSUME NEW f \in File, NEW b \in Buckets, NEW m \in Models, NEW ra \in Nat, NEW t \in Nat
    PROVE  NotedExit(f, b, m, ra, t) \in ExitState
<1> DEFINE lesson == LearnsEgress(f, b, m, ra, t)
           x == f.exits[ExitOf[b]]
<1>1. x \in ExitState
  BY PlanAssumption DEF File
<1>2. [model |-> m, bucket |-> b, at |-> t] \in Quota429
  BY DEF Quota429
<1>3. NotedExit(f, b, m, ra, t) =
        IF ~TrustedDaily(f, b, ra, t) THEN x
        ELSE [known |-> TRUE,
              scope |-> IF lesson \/ x.scope = "egress" THEN "egress" ELSE "account",
              last429 |-> [model |-> m, bucket |-> b, at |-> t],
              probe |-> IF lesson THEN t ELSE x.probe,
              cooldown |-> x.cooldown]
  BY DEF NotedExit
<1> HIDE DEF lesson, x
<1> QED BY <1>1, <1>2, <1>3 DEF ExitState, Scopes

LEMMA Quota429Type ==
    ASSUME NEW f \in File, NEW b \in Buckets, NEW m \in Models, NEW ra \in Nat, NEW t \in Nat
    PROVE  /\ AfterQuota429(f, b, m, ra, t) \in File
           /\ AfterQuota429(f, b, m, ra, t).window = f.window
           /\ \A c \in Buckets : AfterQuota429(f, b, m, ra, t).buckets[c].used = f.buckets[c].used
<1>1. Refusals(f, b, ra, t) \in Nat
  BY DEF Refusals, File
<1>2. ExitOf[b] \in Exits
  BY PlanAssumption
<1> DEFINE nb == NotedBuckets(f, b, m, ra, t)
           nx == NotedExit(f, b, m, ra, t)
           g == AfterQuota429(f, b, m, ra, t)
<1>3. /\ nb \in [Buckets -> Bucket]
      /\ \A c \in Buckets : nb[c].used = f.buckets[c].used
  BY NotedBucketsType
<1>4. nx \in ExitState
  BY NotedExitType
<1>5. g = [f EXCEPT !.refusals = Refusals(f, b, ra, t), !.buckets = nb,
                    !.exits = [f.exits EXCEPT ![ExitOf[b]] = nx]]
  BY DEF AfterQuota429, File
<1> HIDE DEF nb, nx, g
<1>6. g \in File /\ g.window = f.window /\ g.buckets = nb
  BY <1>1, <1>2, <1>3, <1>4, <1>5 DEF File
<1> QED BY <1>3, <1>6 DEF g

LEMMA SuccessType ==
    ASSUME NEW f \in File, NEW b \in Buckets, NEW m \in Models, NEW t \in Nat
    PROVE  /\ AfterSuccess(f, b, m, t) \in File
           /\ AfterSuccess(f, b, m, t).window = f.window
           /\ \A c \in Buckets : AfterSuccess(f, b, m, t).buckets[c].used = f.buckets[c].used
<1> DEFINE e == ExitOf[b]
           switched == SwitchedAfter429(f.exits[e], b, m, t)
           lifted == [c \in Buckets |->
                        [f.buckets[c] EXCEPT
                           !.cooldown = IF Parked(f, b) /\ ExitOf[c] = e THEN 0 ELSE @,
                           !.prev = IF switched /\ c = f.exits[e].last429.bucket THEN None ELSE @]]
           x == [f.exits[e] EXCEPT
                   !.scope = IF switched THEN "account"
                             ELSE IF @ = "egress" THEN "unknown" ELSE @,
                   !.last429 = None]
           g == AfterSuccess(f, b, m, t)
<1>1. e \in Exits
  BY PlanAssumption
<1> HIDE DEF switched
<1>2. lifted \in [Buckets -> Bucket] /\ \A c \in Buckets : lifted[c].used = f.buckets[c].used
  BY DEF File, Bucket
<1>3. x \in ExitState
  <2>1. f.exits[e] \in ExitState
    BY <1>1 DEF File
  <2> QED BY <2>1 DEF ExitState, Scopes
<1>4. g = [f EXCEPT !.buckets = lifted, !.exits = [f.exits EXCEPT ![e] = x]]
  BY <1>1 DEF AfterSuccess, File, ExitState, switched
<1> HIDE DEF lifted, x, g
<1> QED BY <1>1, <1>2, <1>3, <1>4 DEF File, g

LEMMA EgressFailureType ==
    ASSUME NEW f \in File, NEW e \in Exits, NEW t \in Nat
    PROVE  /\ AfterEgressFailure(f, e, t) \in File
           /\ AfterEgressFailure(f, e, t).window = f.window
           /\ AfterEgressFailure(f, e, t).buckets = f.buckets
<1>1. f.exits[e] \in ExitState
  BY DEF File
<1>2. ProxyCooldown \in Nat
  BY TimingAssumption
<1> DEFINE x == [f.exits[e] EXCEPT
                   !.known = TRUE,
                   !.cooldown = IF ProxyCooldown > 0 THEN AtLeast(@, t + ProxyCooldown) ELSE @]
<1>3. x \in ExitState
  <2>1. (IF ProxyCooldown > 0 THEN AtLeast(f.exits[e].cooldown, t + ProxyCooldown)
                              ELSE f.exits[e].cooldown) \in Nat
    BY <1>1, <1>2 DEF ExitState, AtLeast
  <2> QED BY <1>1, <2>1 DEF ExitState
<1>4. AfterEgressFailure(f, e, t) = [f EXCEPT !.exits = [f.exits EXCEPT ![e] = x]]
  BY <1>1 DEF AfterEgressFailure, File, ExitState
<1> HIDE DEF x
<1> QED BY <1>3, <1>4 DEF File

LEMMA RefundType ==
    ASSUME NEW f \in File, NEW b \in Buckets
    PROVE  /\ AfterRefund(f, b) \in File
           /\ AfterRefund(f, b).window = f.window
           /\ \A c \in Buckets :
                LET u == f.buckets[c].used IN
                AfterRefund(f, b).buckets[c].used =
                    IF c # b THEN u ELSE IF u > 0 THEN u - 1 ELSE 0
BY DEF AfterRefund, File, Bucket

(* A warm probe charges one request, whatever the bucket has spent.        *)
LEMMA WarmProbeType ==
    ASSUME NEW f \in File, NEW b \in Buckets
    PROVE  /\ AfterWarmProbe(f, b) \in File
           /\ AfterWarmProbe(f, b).window = f.window
           /\ AfterWarmProbe(f, b).exits = f.exits
           /\ \A c \in Buckets : AfterWarmProbe(f, b).buckets[c].used =
                                   f.buckets[c].used + (IF c = b THEN 1 ELSE 0)
<1> DEFINE k == [f.buckets[b] EXCEPT !.known = TRUE, !.used = @ + 1]
           g == AfterWarmProbe(f, b)
<1>1. f.buckets \in [Buckets -> Bucket] /\ f.buckets[b] \in Bucket
  BY DEF File
<1>2. k \in Bucket /\ k.used = f.buckets[b].used + 1
  <2> DEFINE opened == [f.buckets[b] EXCEPT !.known = TRUE]
  <2>1. opened \in Bucket /\ opened.used = f.buckets[b].used
    BY <1>1 DEF Bucket
  <2>2. k = [opened EXCEPT !.used = @ + 1]
    BY <1>1 DEF Bucket
  <2> HIDE DEF opened, k
  <2> QED BY <2>1, <2>2 DEF Bucket
<1>3. g = [f EXCEPT !.buckets = [f.buckets EXCEPT ![b] = k]]
  BY <1>1 DEF AfterWarmProbe, File, Bucket
<1> HIDE DEF k, g
<1>4. g.buckets = [f.buckets EXCEPT ![b] = k] /\ g.exits = f.exits /\ g.window = f.window
  BY <1>3 DEF File
<1>5. g \in File
  <2>1. [f.buckets EXCEPT ![b] = k] \in [Buckets -> Bucket]
    BY <1>1, <1>2
  <2> QED BY <1>3, <2>1 DEF File
<1>6. ASSUME NEW c \in Buckets
      PROVE  g.buckets[c].used = f.buckets[c].used + (IF c = b THEN 1 ELSE 0)
  <2>1. f.buckets[c].used \in Nat
    BY <1>1 DEF Bucket
  <2>2. CASE c = b
    BY <1>1, <1>2, <1>4, <2>2
  <2>3. CASE c # b
    <3>1. g.buckets[c].used = f.buckets[c].used
      BY <1>1, <1>4, <2>3
    <3> QED BY <2>1, <2>3, <3>1
  <2> QED BY <2>2, <2>3
<1> QED BY <1>4, <1>5, <1>6 DEF g

-----------------------------------------------------------------------------
(* Type correctness *)

LEMMA StampType ==
    ASSUME TypeOK, NEW t \in Stamps
    PROVE  t \in Nat /\ Rollover(file, t) \in File
<1>1. t \in Nat
  BY DEF TypeOK, Stamps
<1>2. file \in File
  BY DEF TypeOK
<1> QED BY <1>1, <1>2, RolloverType

LEMMA LimitType == \A b \in Buckets : Limit[b] \in Nat \ {0}
BY LimitAssumption

(* The history counters stay numbers. *)
HistoryType ==
    ledger \in [Buckets -> Int] /\ late \in [Buckets -> Nat] /\ probed \in [Buckets -> Nat]

LEMMA RolledType ==
    ASSUME TypeOK, NEW t \in Nat
    PROVE  /\ Rolled(ledger, t) \in [Buckets -> Int]
           /\ Rolled(late, t) \in [Buckets -> Nat] /\ Rolled(probed, t) \in [Buckets -> Nat]
BY DEF TypeOK, Rolled

LEMMA RolledHistoryType ==
    ASSUME TypeOK, NEW t \in Nat, RollHistory(t)
    PROVE  HistoryType'
BY RolledType DEF RollHistory, HistoryType

(* A request record that knows its bucket when it has one.                 *)
Sound(q) == q \in Request /\ (q.phase \notin Undispatched => q.held \in Buckets)

LEMMA IdleSound == Sound(Idle) /\ Idle.phase = "idle"
<1>1. 0 \in 0 .. ProbeAttempts
  BY RequestAssumption
<1> QED BY <1>1 DEF Idle, Sound, Request, Phases, Undispatched

LEMMA WalkingSound ==
    ASSUME NEW q \in Request, q.held \in Buckets, NEW lost \in BOOLEAN
    PROVE  Sound(Walking(q, lost)) /\ Walking(q, lost).phase = "walking"
<1> DEFINE warm == IF q.warm = "retry" THEN "spent" ELSE q.warm
           w == Walking(q, lost)
<1>1. 0 \in 0 .. ProbeAttempts
  BY RequestAssumption
<1>2. q.tried \cup {q.held} \in SUBSET Buckets
  BY DEF Request
<1>3. warm \in {"unused", "retry", "spent", "probe"}
  BY DEF Request
<1>4. w = [phase |-> "walking", held |-> None, tried |-> q.tried \cup {q.held},
           retryAfter |-> 0, booked |-> 0, warm |-> warm, lost |-> lost, probes |-> 0]
  BY DEF Walking
<1> HIDE DEF w, warm
<1>5. w \in Request
  BY <1>1, <1>2, <1>3, <1>4 DEF Request, Phases
<1>6. w.phase = "walking"
  BY <1>4
<1>7. Sound(w)
  BY <1>5, <1>6 DEF Sound, Undispatched
<1> QED BY <1>6, <1>7 DEF w

LEMMA RequestSound ==
    ASSUME TypeOK, NEW r \in Requests
    PROVE  Sound(req[r]) /\ req[r] \in Request /\ req \in [Requests -> Request]
BY DEF TypeOK, Sound

LEMMA HeldType ==
    ASSUME TypeOK, NEW r \in Requests, req[r].phase \notin Undispatched
    PROVE  /\ req[r] \in Request /\ req[r].held \in Buckets /\ req[r].tried \subseteq Buckets
           /\ req[r].retryAfter \in Nat /\ ExitOf[req[r].held] \in Exits
BY PlanAssumption DEF TypeOK, Request

(* A request that changes its phase only.                                  *)
LEMMA PhaseSound ==
    ASSUME TypeOK, NEW r \in Requests, NEW p \in Phases,
           p \in Undispatched \/ req[r].held \in Buckets
    PROVE  /\ Sound([req[r] EXCEPT !.phase = p])
           /\ [req[r] EXCEPT !.phase = p].phase = p
           /\ [req[r] EXCEPT !.phase = p].held = req[r].held
<1> DEFINE q == [req[r] EXCEPT !.phase = p]
<1>1. req[r] \in Request
  BY RequestSound
<1>2. q \in Request /\ q.phase = p /\ q.held = req[r].held
  BY <1>1 DEF Request
<1> HIDE DEF q
<1>3. Sound(q)
  BY <1>2 DEF Sound
<1> QED BY <1>2, <1>3 DEF q

(* A step that only replaces one request's record by a sound one.          *)
RequestsType ==
    /\ req \in [Requests -> Request]
    /\ \A r \in Requests : req[r].phase \notin Undispatched => req[r].held \in Buckets

LEMMA RequestStepType ==
    ASSUME TypeOK, NEW r \in Requests, NEW q, Sound(q), req' = [req EXCEPT ![r] = q]
    PROVE  RequestsType'
BY DEF TypeOK, RequestsType, Sound

(* What a step leaves typed besides its own variables. *)
LEMMA TypeFrom ==
    ASSUME TypeOK, now' = now, turns' \in Nat, file' \in File, inFlight' \in [Buckets -> Nat],
           cursor' \in 0 .. CursorModulus - 1, RequestsType', HistoryType'
    PROVE  TypeOK'
BY DEF TypeOK, RequestsType, HistoryType, CursorModulus

LEMMA TypeParts ==
    ASSUME TypeOK
    PROVE  /\ now \in Nat /\ turns \in Nat /\ file \in File /\ inFlight \in [Buckets -> Nat]
           /\ cursor \in 0 .. CursorModulus - 1 /\ RequestsType /\ HistoryType
BY DEF TypeOK, RequestsType, HistoryType

LEMMA UntouchedType ==
    ASSUME TypeOK, UNCHANGED history
    PROVE  HistoryType'
BY DEF TypeOK, HistoryType, history

LEMMA ReleaseType ==
    ASSUME TypeOK, NEW b \in Buckets, ReleaseGuard(b)
    PROVE  inFlight' \in [Buckets -> Nat]
BY DEF TypeOK, ReleaseGuard

LEMMA TakeType ==
    ASSUME TypeOK, NEW b \in Buckets, inFlight' = [inFlight EXCEPT ![b] = @ + 1]
    PROVE  inFlight' \in [Buckets -> Nat]
BY DEF TypeOK

LEMMA GiveBackType ==
    ASSUME TypeOK, NEW r \in Requests, req[r].held \in Buckets, GiveBack(r)
    PROVE  /\ file' \in File /\ HistoryType' /\ now' = now /\ turns' \in Nat
           /\ inFlight' \in [Buckets -> Nat] /\ cursor' \in 0 .. CursorModulus - 1
<1>1. file' \in File
  BY RefundType DEF GiveBack, TypeOK
<1>2. ASSUME NEW n \in Nat PROVE n + 1 \in Nat /\ AtLeast(n - 1, 0) \in Nat
  BY DEF AtLeast
<1>3. HistoryType'
  BY <1>2 DEF GiveBack, TypeOK, HistoryType
<1> QED BY <1>1, <1>3 DEF GiveBack, TypeOK

LEMMA InitType == Init => TypeOK
<1>1. CursorModulus \in Nat \ {0}
  BY PlanAssumption DEF CursorModulus, AtLeast
<1> QED BY <1>1, FreshType, IdleSound DEF Init, TypeOK, Sound

(* What begin is asked for is a list of buckets. *)
LEMMA AskedType ==
    ASSUME TypeOK, NEW r \in Requests, req[r].phase \in {"walking", "retrying"},
           NEW i \in DOMAIN Asked(r)
    PROVE  Asked(r)[i] \in Buckets /\ i \in 1 .. i
<1>1. cursor \in 0 .. CursorModulus - 1
  BY DEF TypeOK
<1>2. CASE req[r].phase = "retrying"
  <2>1. req[r].held \in Buckets
    BY <1>2, HeldType DEF Undispatched
  <2>2. Asked(r) = <<req[r].held>> /\ i = 1
    BY <1>2 DEF Asked
  <2> QED BY <2>1, <2>2
<1>3. CASE req[r].phase = "walking"
  <2>1. Asked(r) = Order(cursor)
    BY <1>3 DEF Asked
  <2>2. i \in Nat \ {0}
    BY <2>1, PlanAssumption DEF Order
  <2> QED BY <1>1, <2>1, <2>2, OrderType
<1> QED BY <1>2, <1>3

LEMMA ListType ==
    ASSUME TypeOK, NEW b \in Range(Order(cursor))
    PROVE  b \in Buckets
BY OrderType DEF TypeOK, Range

(* The reservation of a bucket, by begin or by begin_warm_probe: what      *)
(* becomes of the request and of the counters.                             *)
LEMMA DispatchedSound ==
    ASSUME TypeOK, NEW r \in Requests, NEW b \in Buckets, NEW w \in Nat
    PROVE  LET q == [req[r] EXCEPT !.phase = "flying", !.held = b, !.booked = w] IN
           Sound(q) /\ q.phase = "flying" /\ q.held = b
<1> DEFINE q == [req[r] EXCEPT !.phase = "flying", !.held = b, !.booked = w]
<1>1. req[r] \in Request
  BY RequestSound
<1>2. q \in Request /\ q.phase = "flying" /\ q.held = b
  BY <1>1 DEF Request, Phases
<1> HIDE DEF q
<1>3. Sound(q)
  BY <1>2 DEF Sound
<1> QED BY <1>2, <1>3 DEF q

LEMMA ProbedSound ==
    ASSUME TypeOK, NEW r \in Requests, NEW b \in Buckets, NEW w \in Nat, req[r].probes > 0
    PROVE  LET q == [req[r] EXCEPT !.phase = "flying", !.held = b, !.booked = w,
                                   !.probes = req[r].probes - 1] IN
           Sound(q) /\ q.phase = "flying" /\ q.held = b
<1> DEFINE q == [req[r] EXCEPT !.phase = "flying", !.held = b, !.booked = w,
                               !.probes = req[r].probes - 1]
<1>1. req[r] \in Request
  BY RequestSound
<1>2. req[r].probes - 1 \in 0 .. ProbeAttempts
  BY <1>1, RequestAssumption DEF Request
<1>3. q \in Request /\ q.phase = "flying" /\ q.held = b
  BY <1>1, <1>2 DEF Request, Phases
<1> HIDE DEF q
<1>4. Sound(q)
  BY <1>3 DEF Sound
<1> QED BY <1>3, <1>4 DEF q

THEOREM TypeStep == TypeOK /\ [Next]_vars => TypeOK'
<1> SUFFICES ASSUME TypeOK, [Next]_vars PROVE TypeOK'
  OBVIOUS
<1> USE TypeParts
<1>1. CASE UNCHANGED vars
  BY <1>1 DEF TypeOK, vars
<1>2. CASE Tick
  BY <1>2 DEF Tick, TypeOK, history
<1>3. ASSUME NEW r \in Requests, Arrive(r) PROVE TypeOK'
  <2>1. /\ req' = [req EXCEPT ![r] = [req[r] EXCEPT !.phase = "walking"]]
        /\ turns' = turns + 1 /\ UNCHANGED <<now, file, inFlight, cursor>> /\ UNCHANGED history
    BY <1>3, RequestSound DEF Arrive, history
  <2>2. Sound([req[r] EXCEPT !.phase = "walking"])
    BY PhaseSound DEF Phases, Undispatched
  <2>3. RequestsType'
    BY <2>1, <2>2, RequestStepType
  <2> QED BY <2>1, <2>3, UntouchedType, TypeFrom
<1>4. ASSUME NEW r \in Requests, ArriveAuto(r) PROVE TypeOK'
  <2>1. PICK t \in Stamps :
          /\ file' = Rollover(file, t) /\ RollHistory(t)
          /\ turns' = turns + 1
          /\ \/ req' = req
             \/ req' = [req EXCEPT ![r] = [req[r] EXCEPT !.phase = "walking"]]
          /\ UNCHANGED <<now, inFlight, cursor>>
    BY <1>4, RequestSound DEF ArriveAuto
  <2>2. t \in Nat /\ file' \in File
    BY <2>1, StampType
  <2>3. HistoryType'
    BY <2>1, <2>2, RolledHistoryType
  <2>4. Sound([req[r] EXCEPT !.phase = "walking"])
    BY PhaseSound DEF Phases, Undispatched
  <2>5. RequestsType'
    BY <2>1, <2>4, RequestStepType DEF RequestsType
  <2> QED BY <2>1, <2>2, <2>3, <2>5, TypeFrom
<1>5. ASSUME NEW r \in Requests, Reserve(r) PROVE TypeOK'
  <2>1. PICK t \in Stamps, i \in DOMAIN Asked(r) :
          LET f == Rollover(file, t)
              b == Asked(r)[i]
              seen == {Asked(r)[j] : j \in 1 .. i} \ Excluded(r) IN
          /\ req[r].phase \in {"walking", "retrying"}
          /\ FirstReady(f, inFlight, Asked(r), Excluded(r), t, i)
          /\ file' = AfterReserve(f, seen, b, t)
          /\ inFlight' = [inFlight EXCEPT ![b] = @ + 1]
          /\ cursor' = (cursor + 1) % CursorModulus
          /\ req' = [req EXCEPT ![r].phase = "flying", ![r].held = b, ![r].booked = f.window]
          /\ ledger' = [Rolled(ledger, t) EXCEPT ![b] = @ + 1]
          /\ late' = Rolled(late, t)
          /\ probed' = Rolled(probed, t)
          /\ UNCHANGED <<now, turns>>
    BY <1>5 DEF Reserve
  <2> DEFINE f == Rollover(file, t)
             b == Asked(r)[i]
             seen == {Asked(r)[j] : j \in 1 .. i} \ Excluded(r)
             q == [req[r] EXCEPT !.phase = "flying", !.held = b, !.booked = f.window]
  <2>2. t \in Nat /\ f \in File
    BY StampType
  <2>3. b \in Buckets
    BY <2>1, AskedType
  <2>4. Usable(f, b, t)
    BY <2>1 DEF FirstReady, Ready
  <2>5. file' \in File
    BY <2>1, <2>2, <2>3, <2>4, ReserveType
  <2>6. cursor' \in 0 .. CursorModulus - 1
    BY <2>1, CursorStep
  <2>7. f.window \in Nat
    BY <2>2 DEF File
  <2>8. Sound(q)
    BY <2>3, <2>7, DispatchedSound
  <2>9. req' = [req EXCEPT ![r] = q]
    BY <2>1, RequestSound
  <2>10. /\ Rolled(ledger, t) \in [Buckets -> Int]
         /\ late' \in [Buckets -> Nat] /\ probed' \in [Buckets -> Nat]
    BY <2>1, <2>2, RolledType
  <2> HIDE DEF q
  <2>11. RequestsType'
    BY <2>8, <2>9, RequestStepType
  <2>12. inFlight' \in [Buckets -> Nat]
    BY <2>1, <2>3, TakeType
  <2>13. HistoryType'
    BY <2>1, <2>3, <2>10 DEF HistoryType
  <2> QED BY <2>1, <2>5, <2>6, <2>11, <2>12, <2>13, TypeFrom
<1>6. ASSUME NEW r \in Requests, NEW t \in Stamps, WalkInVain(r, t), RequestsType'
      PROVE  TypeOK'
  <2>1. t \in Nat /\ Rollover(file, t) \in File
    BY StampType
  <2>2. file' \in File
    BY <1>6, <2>1, WalkType DEF WalkInVain
  <2>3. HistoryType'
    BY <1>6, <2>1, RolledHistoryType DEF WalkInVain
  <2> QED BY <1>6, <2>2, <2>3, TypeFrom DEF WalkInVain
<1>7. ASSUME NEW r \in Requests, PollSlot(r) PROVE TypeOK'
  <2>1. PICK t \in Stamps : WalkInVain(r, t) /\ req' = req
    BY <1>7 DEF PollSlot
  <2>2. RequestsType'
    BY <2>1 DEF RequestsType
  <2> QED BY <1>6, <2>1, <2>2
<1>8. ASSUME NEW r \in Requests, LeaveLane(r) PROVE TypeOK'
  <2>1. PICK t \in Stamps : WalkInVain(r, t) /\ req' = [req EXCEPT ![r] = Idle]
    BY <1>8 DEF LeaveLane
  <2>2. RequestsType'
    BY <2>1, RequestStepType, IdleSound
  <2> QED BY <1>6, <2>1, <2>2
<1>9. ASSUME NEW r \in Requests, StartProbing(r) PROVE TypeOK'
  <2>1. PICK t \in Stamps, n \in 1 .. ProbeAttempts :
          /\ WalkInVain(r, t)
          /\ req' = [req EXCEPT ![r] = [req[r] EXCEPT !.phase = "probing", !.warm = "probe",
                                                      !.probes = n]]
    BY <1>9, RequestSound DEF StartProbing
  <2> DEFINE q == [req[r] EXCEPT !.phase = "probing", !.warm = "probe", !.probes = n]
  <2>2. n \in 0 .. ProbeAttempts
    BY RequestAssumption
  <2>3. q \in Request /\ q.phase = "probing"
    BY <2>2, RequestSound DEF Request, Phases
  <2>4. req' = [req EXCEPT ![r] = q]
    BY <2>1
  <2> HIDE DEF q
  <2>5. Sound(q)
    BY <2>3 DEF Sound, Undispatched
  <2>6. RequestsType'
    BY <2>4, <2>5, RequestStepType
  <2> QED BY <1>6, <2>1, <2>6
<1>10. ASSUME NEW r \in Requests, ReserveProbe(r) PROVE TypeOK'
  <2>1. PICK t \in Stamps, b \in Range(Order(cursor)) :
          LET f == Rollover(file, t) IN
          /\ req[r].probes > 0
          /\ file' = AfterWarmProbe(f, b)
          /\ inFlight' = [inFlight EXCEPT ![b] = @ + 1]
          /\ cursor' = (cursor + 1) % CursorModulus
          /\ req' = [req EXCEPT ![r] =
                      [req[r] EXCEPT !.phase = "flying", !.held = b, !.booked = f.window,
                                     !.probes = req[r].probes - 1]]
          /\ ledger' = [Rolled(ledger, t) EXCEPT ![b] = @ + 1]
          /\ probed' = [Rolled(probed, t) EXCEPT ![b] = @ + 1]
          /\ late' = Rolled(late, t)
          /\ UNCHANGED <<now, turns>>
    BY <1>10, RequestSound DEF ReserveProbe
  <2> DEFINE f == Rollover(file, t)
             q == [req[r] EXCEPT !.phase = "flying", !.held = b, !.booked = f.window,
                                 !.probes = req[r].probes - 1]
  <2>2. t \in Nat /\ f \in File
    BY StampType
  <2>3. b \in Buckets
    BY ListType
  <2>4. file' \in File
    BY <2>1, <2>2, <2>3, WarmProbeType
  <2>5. cursor' \in 0 .. CursorModulus - 1
    BY <2>1, CursorStep
  <2>6. f.window \in Nat
    BY <2>2 DEF File
  <2>7. Sound(q)
    BY <2>1, <2>3, <2>6, ProbedSound
  <2>8. req' = [req EXCEPT ![r] = q]
    BY <2>1
  <2>9. /\ Rolled(ledger, t) \in [Buckets -> Int]
        /\ late' \in [Buckets -> Nat] /\ Rolled(probed, t) \in [Buckets -> Nat]
    BY <2>1, <2>2, RolledType
  <2> HIDE DEF q
  <2>10. RequestsType'
    BY <2>7, <2>8, RequestStepType
  <2>11. inFlight' \in [Buckets -> Nat]
    BY <2>1, <2>3, TakeType
  <2>12. HistoryType'
    BY <2>1, <2>3, <2>9 DEF HistoryType
  <2> QED BY <2>1, <2>4, <2>5, <2>10, <2>11, <2>12, TypeFrom
<1>11. ASSUME NEW r \in Requests, EndProbing(r) PROVE TypeOK'
  <2>1. PICK t \in Stamps :
          /\ \/ UNCHANGED <<file, history>>
             \/ file' = Rollover(file, t) /\ RollHistory(t)
          /\ req' = [req EXCEPT ![r] = Idle]
          /\ UNCHANGED <<now, inFlight, cursor, turns>>
    BY <1>11 DEF EndProbing
  <2>2. t \in Nat /\ Rollover(file, t) \in File
    BY StampType
  <2>3. file' \in File /\ HistoryType'
    BY <2>1, <2>2, RolledHistoryType, UntouchedType
  <2>4. RequestsType'
    BY <2>1, RequestStepType, IdleSound
  <2> QED BY <2>1, <2>3, <2>4, TypeFrom
<1>12. ASSUME NEW r \in Requests,
              Served(r) \/ Refuse(r) \/ Abandon(r) \/ LeaveTunnel(r) \/ LeaveProbe(r)
       PROVE  TypeOK'
  <2>1. req[r].phase \in Guarded
    BY <1>12 DEF Served, Refuse, Abandon, LeaveTunnel, LeaveProbe, Guarded
  <2>2. req[r] \in Request /\ req[r].held \in Buckets
    BY <2>1, HeldType DEF Guarded, Undispatched
  <2>3. inFlight' \in [Buckets -> Nat]
    BY <1>12, <2>2, ReleaseType DEF Served, Refuse, Abandon, LeaveTunnel, LeaveProbe
  <2>4. PICK q : Sound(q) /\ req' = [req EXCEPT ![r] = q]
    <3>1. CASE Served(r) \/ LeaveTunnel(r)
      <4>1. \/ req' = [req EXCEPT ![r] = Idle]
            \/ \E p \in {"served", "dead"} :
                 req' = [req EXCEPT ![r] = [req[r] EXCEPT !.phase = p]]
        BY <3>1, RequestSound DEF Served, LeaveTunnel
      <4>2. \A p \in {"served", "dead"} : Sound([req[r] EXCEPT !.phase = p])
        BY <2>2, PhaseSound DEF Phases
      <4> QED BY <4>1, <4>2, IdleSound
    <3>2. CASE Refuse(r)
      <4>1. PICK ra \in RetryAfters :
              req' = [req EXCEPT ![r] = [req[r] EXCEPT !.phase = "refused", !.retryAfter = ra]]
        BY <3>2, RequestSound DEF Refuse
      <4>2. ra \in Nat
        BY RequestAssumption
      <4> DEFINE q == [req[r] EXCEPT !.phase = "refused", !.retryAfter = ra]
      <4>3. q \in Request /\ q.held \in Buckets
        BY <2>2, <4>2 DEF Request, Phases
      <4>4. req' = [req EXCEPT ![r] = q]
        BY <4>1
      <4> HIDE DEF q
      <4> QED BY <4>3, <4>4 DEF Sound
    <3>3. CASE Abandon(r)
      BY <3>3, IdleSound DEF Abandon
    <3>4. CASE LeaveProbe(r)
      <4> DEFINE q == [req[r] EXCEPT !.phase = "probing", !.held = None, !.booked = 0]
      <4>1. req' = [req EXCEPT ![r] = q]
        BY <3>4, RequestSound DEF LeaveProbe
      <4>2. q \in Request /\ q.phase = "probing"
        BY <2>2 DEF Request, Phases
      <4> HIDE DEF q
      <4> QED BY <4>1, <4>2 DEF Sound, Undispatched
    <3> QED BY <1>12, <3>1, <3>2, <3>3, <3>4
  <2>5. RequestsType'
    BY <2>4, RequestStepType
  <2>6. now' = now /\ turns' = turns /\ file' = file /\ cursor' = cursor /\ UNCHANGED history
    BY <1>12 DEF Served, Refuse, Abandon, LeaveTunnel, LeaveProbe, history
  <2> QED BY <2>3, <2>5, <2>6, UntouchedType, TypeFrom
<1>13. ASSUME NEW r \in Requests, TunnelFails(r) PROVE TypeOK'
  <2>1. PICK t \in Stamps :
          /\ file' = AfterEgressFailure(Rollover(file, t), ExitOf[req[r].held], t)
          /\ RollHistory(t)
    BY <1>13 DEF TunnelFails
  <2>2. req[r].held \in Buckets /\ ExitOf[req[r].held] \in Exits
    BY <1>13, HeldType DEF TunnelFails, Undispatched
  <2>3. t \in Nat /\ file' \in File
    BY <2>1, <2>2, StampType, EgressFailureType
  <2>4. HistoryType'
    BY <2>1, <2>3, RolledHistoryType
  <2>5. req' = [req EXCEPT ![r] = [req[r] EXCEPT !.phase = "tunnelDown"]]
    BY <1>13, RequestSound DEF TunnelFails
  <2>6. RequestsType'
    BY <2>2, <2>5, PhaseSound, RequestStepType DEF Phases
  <2> QED BY <1>13, <2>3, <2>4, <2>6, TypeFrom DEF TunnelFails
<1>14. ASSUME NEW r \in Requests, Refund(r) \/ RetryWarm(r) \/ RefundProbe(r) PROVE TypeOK'
  <2>1. req[r].held \in Buckets /\ req[r] \in Request /\ GiveBack(r)
    BY <1>14, HeldType DEF Refund, RetryWarm, RefundProbe, Undispatched
  <2>2. PICK q : Sound(q) /\ req' = [req EXCEPT ![r] = q]
    <3>1. CASE Refund(r)
      <4>1. req' = [req EXCEPT ![r] = Walking(req[r], TRUE)]
        BY <3>1, RequestSound DEF Refund
      <4>2. Sound(Walking(req[r], TRUE))
        BY <2>1, WalkingSound
      <4> QED BY <4>1, <4>2
    <3>2. CASE RetryWarm(r)
      <4> DEFINE q == [req[r] EXCEPT !.phase = "retrying", !.warm = "retry"]
      <4>1. req' = [req EXCEPT ![r] = q]
        BY <3>2, RequestSound DEF RetryWarm
      <4>2. q \in Request /\ q.held \in Buckets
        BY <2>1 DEF Request, Phases
      <4> HIDE DEF q
      <4> QED BY <4>1, <4>2 DEF Sound
    <3>3. CASE RefundProbe(r)
      <4>1. req' = [req EXCEPT ![r] = [req[r] EXCEPT !.phase = "demoted"]]
        BY <3>3, RequestSound DEF RefundProbe
      <4> QED BY <2>1, <4>1, PhaseSound DEF Phases
    <3> QED BY <1>14, <3>1, <3>2, <3>3
  <2>3. RequestsType'
    BY <2>2, RequestStepType
  <2> QED BY <2>1, <2>3, GiveBackType, TypeFrom
<1>15. ASSUME NEW r \in Requests, NoteSuccess(r) PROVE TypeOK'
  <2>1. PICK t \in Stamps :
          /\ file' = AfterSuccess(Rollover(file, t), req[r].held, ModelOf[r], t)
          /\ RollHistory(t)
    BY <1>15 DEF NoteSuccess
  <2>2. req[r].held \in Buckets /\ ModelOf[r] \in Models
    BY <1>15, HeldType, RequestAssumption DEF NoteSuccess, Undispatched
  <2>3. t \in Nat /\ file' \in File
    BY <2>1, <2>2, StampType, SuccessType
  <2>4. HistoryType'
    BY <2>1, <2>3, RolledHistoryType
  <2>5. RequestsType'
    BY <1>15, IdleSound, RequestStepType DEF NoteSuccess
  <2> QED BY <1>15, <2>3, <2>4, <2>5, TypeFrom DEF NoteSuccess
<1>16. ASSUME NEW r \in Requests, NoteQuota429(r) PROVE TypeOK'
  <2>1. PICK t \in Stamps :
          /\ file' = AfterQuota429(Rollover(file, t), req[r].held, ModelOf[r],
                                   req[r].retryAfter, t)
          /\ \/ req' = [req EXCEPT ![r] = Idle]
             \/ req' = [req EXCEPT ![r] = Walking(req[r], req[r].lost)]
          /\ RollHistory(t)
    BY <1>16, RequestSound DEF NoteQuota429
  <2>2. /\ req[r].held \in Buckets /\ req[r] \in Request
        /\ req[r].retryAfter \in Nat /\ ModelOf[r] \in Models
    BY <1>16, HeldType, RequestAssumption DEF NoteQuota429, Undispatched
  <2>3. t \in Nat /\ file' \in File
    BY <2>1, <2>2, StampType, Quota429Type
  <2>4. HistoryType'
    BY <2>1, <2>3, RolledHistoryType
  <2>5. Sound(Walking(req[r], req[r].lost))
    BY <2>2, WalkingSound DEF Request
  <2>6. RequestsType'
    BY <2>1, <2>5, IdleSound, RequestStepType
  <2> QED BY <1>16, <2>3, <2>4, <2>6, TypeFrom DEF NoteQuota429
<1> QED BY <1>1, <1>2, <1>3, <1>4, <1>5, <1>7, <1>8, <1>9, <1>10, <1>11, <1>12, <1>13, <1>14,
           <1>15, <1>16 DEF Next

(* The state of the lane is well-typed: counters never go negative, every  *)
(* dispatched request knows its bucket, the cursor stays in range.         *)
THEOREM TypeCorrect == Spec => []TypeOK
<1>1. Init => TypeOK
  BY InitType
<1>2. TypeOK /\ [Next]_vars => TypeOK'
  BY TypeStep
<1> QED BY <1>1, <1>2, PTL DEF Spec

-----------------------------------------------------------------------------
(* The daily ceiling.  SpendBound alone is not inductive: a reservation    *)
(* compares the program's own counter with the ceiling, so the invariant   *)
(* has to know that the ledger never exceeds that counter by more than the *)
(* late refunds.  A warm probe raises the counter past the ceiling.        *)

Fits(b, used, spent, given, probes) ==
    spent <= used + given /\ spent <= Limit[b] + given + probes

Charged(buckets, spent, given, probes) ==
    \A b \in Buckets : Fits(b, buckets[b].used, spent[b], given[b], probes[b])

Spending == Charged(file.buckets, ledger, late, probed)

LEMMA NothingFits ==
    ASSUME NEW b \in Buckets
    PROVE  Fits(b, 0, 0, 0, 0)
<1>1. Limit[b] \in Nat
  BY LimitType
<1>2. 0 <= Limit[b] + 0 + 0
  BY <1>1
<1> QED BY <1>2 DEF Fits

(* Rolling the window clears the counter and the history together.         *)
LEMMA RollKeepsSpending ==
    ASSUME TypeOK, Spending, NEW t \in Nat
    PROVE  Charged(Rollover(file, t).buckets, Rolled(ledger, t), Rolled(late, t),
                   Rolled(probed, t))
<1>1. CASE file.window = WindowDay(t)
  BY <1>1 DEF Rollover, Rolled, Spending
<1>2. CASE file.window # WindowDay(t)
  <2>1. \A b \in Buckets : Rollover(file, t).buckets[b].used = 0
    BY <1>2, RolloverType DEF TypeOK
  <2>2. \A b \in Buckets :
          Rolled(ledger, t)[b] = 0 /\ Rolled(late, t)[b] = 0 /\ Rolled(probed, t)[b] = 0
    BY <1>2 DEF Rolled
  <2>4. ASSUME NEW b \in Buckets
        PROVE  Fits(b, Rollover(file, t).buckets[b].used, Rolled(ledger, t)[b],
                    Rolled(late, t)[b], Rolled(probed, t)[b])
    BY <2>1, <2>2, NothingFits
  <2> QED BY <2>4 DEF Charged
<1> QED BY <1>1, <1>2

(* An operation that rolls the window and then charges nothing.            *)
LEMMA NothingCharged ==
    ASSUME TypeOK, Spending, NEW t \in Nat, RollHistory(t),
           \A b \in Buckets :
               file'.buckets[b].used = Rollover(file, t).buckets[b].used
    PROVE  Spending'
BY RollKeepsSpending DEF Charged, Spending, RollHistory

(* One that does neither. *)
LEMMA SpendingKept ==
    ASSUME Spending, file' = file, UNCHANGED history
    PROVE  Spending'
BY DEF Spending, Charged, history

LEMMA UsedType ==
    ASSUME NEW f \in File, NEW b \in Buckets
    PROVE  f.buckets[b].used \in Nat /\ Limit[b] \in Nat
BY LimitType DEF File, Bucket

(* What one more reservation, and one returned, do to the two bounds.      *)
LEMMA FitsArithmetic ==
    ASSUME NEW b \in Buckets, NEW u \in Nat, NEW s \in Int, NEW g \in Nat, NEW p \in Nat,
           Fits(b, u, s, g, p)
    PROVE  LET v == IF u > 0 THEN u - 1 ELSE 0 IN
           /\ u < Limit[b] => Fits(b, u + 1, s + 1, g, p)
           /\ Fits(b, u + 1, s + 1, g, p + 1)
           /\ Fits(b, v, s - 1, g, p)
           /\ Fits(b, v, s - 1, g, AtLeast(p - 1, 0))
           /\ Fits(b, v, s, g + 1, p)
BY LimitType DEF Fits, AtLeast

(* A reservation of bucket b that the ceiling allows, or that is a probe.  *)
LEMMA DispatchSpends ==
    ASSUME TypeOK, Spending, NEW t \in Stamps, NEW b \in Buckets,
           \A c \in Buckets : file'.buckets[c].used =
               Rollover(file, t).buckets[c].used + (IF c = b THEN 1 ELSE 0),
           ledger' = [Rolled(ledger, t) EXCEPT ![b] = @ + 1],
           late' = Rolled(late, t),
           \/ Rollover(file, t).buckets[b].used < Limit[b] /\ probed' = Rolled(probed, t)
           \/ probed' = [Rolled(probed, t) EXCEPT ![b] = @ + 1]
    PROVE  Spending'
<1> DEFINE f == Rollover(file, t)
           s == Rolled(ledger, t)
           p == Rolled(probed, t)
<1>1. t \in Nat /\ f \in File
  BY StampType
<1>2. Charged(f.buckets, s, late', p)
  BY <1>1, RollKeepsSpending
<1>3. s \in [Buckets -> Int] /\ late' \in [Buckets -> Nat] /\ p \in [Buckets -> Nat]
  BY <1>1, RolledType
<1>4. \A c \in Buckets : f.buckets[c].used \in Nat
  BY <1>1, UsedType
<1> HIDE DEF f, s, p
<1>5. ASSUME NEW c \in Buckets
      PROVE  Fits(c, file'.buckets[c].used, ledger'[c], late'[c], probed'[c])
  <2>1. Fits(c, f.buckets[c].used, s[c], late'[c], p[c])
    BY <1>2 DEF Charged
  <2>2. f.buckets[c].used \in Nat /\ s[c] \in Int /\ late'[c] \in Nat /\ p[c] \in Nat
    BY <1>3, <1>4
  <2>3. CASE c = b
    <3>1. file'.buckets[c].used = f.buckets[c].used + 1 /\ ledger'[c] = s[c] + 1
      BY <1>3, <2>3 DEF f, s
    <3>2. CASE f.buckets[b].used < Limit[b] /\ probed' = p
      <4>1. f.buckets[c].used < Limit[c] /\ probed'[c] = p[c]
        BY <2>3, <3>2
      <4>2. Fits(c, f.buckets[c].used + 1, s[c] + 1, late'[c], p[c])
        BY <2>1, <2>2, <4>1, FitsArithmetic
      <4> QED BY <3>1, <4>1, <4>2
    <3>3. CASE probed' = [p EXCEPT ![b] = @ + 1]
      <4>1. probed'[c] = p[c] + 1
        BY <1>3, <2>3, <3>3
      <4>2. Fits(c, f.buckets[c].used + 1, s[c] + 1, late'[c], p[c] + 1)
        BY <2>1, <2>2, FitsArithmetic
      <4> QED BY <3>1, <4>1, <4>2
    <3> QED BY <3>2, <3>3 DEF f, p
  <2>4. CASE c # b
    <3>1. file'.buckets[c].used = f.buckets[c].used + 0
      BY <2>4 DEF f
    <3>2. file'.buckets[c].used = f.buckets[c].used
      BY <2>2, <3>1
    <3>3. ledger'[c] = s[c]
      BY <1>3, <2>4 DEF s
    <3>4. probed'[c] = p[c]
      BY <1>3, <2>4 DEF f, p
    <3> QED BY <2>1, <3>2, <3>3, <3>4
  <2> QED BY <2>3, <2>4
<1> QED BY <1>5 DEF Spending, Charged

LEMMA ReserveSpends ==
    ASSUME TypeOK, Spending, NEW r \in Requests, Reserve(r)
    PROVE  Spending'
<1>1. PICK t \in Stamps, i \in DOMAIN Asked(r) :
        LET f == Rollover(file, t)
            b == Asked(r)[i]
            seen == {Asked(r)[j] : j \in 1 .. i} \ Excluded(r) IN
        /\ req[r].phase \in {"walking", "retrying"}
        /\ FirstReady(f, inFlight, Asked(r), Excluded(r), t, i)
        /\ file' = AfterReserve(f, seen, b, t)
        /\ ledger' = [Rolled(ledger, t) EXCEPT ![b] = @ + 1]
        /\ late' = Rolled(late, t)
        /\ probed' = Rolled(probed, t)
  BY DEF Reserve
<1> DEFINE f == Rollover(file, t)
           b == Asked(r)[i]
           seen == {Asked(r)[j] : j \in 1 .. i} \ Excluded(r)
<1>2. t \in Nat /\ f \in File
  BY StampType
<1>3. b \in Buckets
  BY <1>1, AskedType
<1>4. Usable(f, b, t)
  BY <1>1 DEF FirstReady, Ready
<1>5. /\ \A c \in Buckets : file'.buckets[c].used = f.buckets[c].used + (IF c = b THEN 1 ELSE 0)
      /\ f.buckets[b].used < Limit[b]
  BY <1>1, <1>2, <1>3, <1>4, ReserveType
<1>6. /\ ledger' = [Rolled(ledger, t) EXCEPT ![b] = @ + 1]
      /\ late' = Rolled(late, t) /\ probed' = Rolled(probed, t)
  BY <1>1
<1> HIDE DEF b, seen
<1> QED BY <1>3, <1>5, <1>6, DispatchSpends

LEMMA ProbeSpends ==
    ASSUME TypeOK, Spending, NEW r \in Requests, ReserveProbe(r)
    PROVE  Spending'
<1>1. PICK t \in Stamps, b \in Range(Order(cursor)) :
        /\ file' = AfterWarmProbe(Rollover(file, t), b)
        /\ ledger' = [Rolled(ledger, t) EXCEPT ![b] = @ + 1]
        /\ probed' = [Rolled(probed, t) EXCEPT ![b] = @ + 1]
        /\ late' = Rolled(late, t)
  BY DEF ReserveProbe
<1>2. b \in Buckets /\ Rollover(file, t) \in File
  BY ListType, StampType
<1>3. \A c \in Buckets : file'.buckets[c].used =
          Rollover(file, t).buckets[c].used + (IF c = b THEN 1 ELSE 0)
  BY <1>1, <1>2, WarmProbeType
<1> QED BY <1>1, <1>2, <1>3, DispatchSpends

LEMMA GiveBackSpends ==
    ASSUME TypeOK, Spending, NEW r \in Requests, GiveBack(r), req[r].held \in Buckets
    PROVE  Spending'
<1> DEFINE b == req[r].held
<1>1. /\ file' = AfterRefund(file, b) /\ file \in File
      /\ ledger \in [Buckets -> Int] /\ late \in [Buckets -> Nat] /\ probed \in [Buckets -> Nat]
  BY DEF GiveBack, TypeOK
<1>2. \/ /\ ledger' = [ledger EXCEPT ![b] = @ - 1] /\ late' = late
         /\ \/ probed' = probed
            \/ probed' = [probed EXCEPT ![b] = AtLeast(@ - 1, 0)]
      \/ late' = [late EXCEPT ![b] = @ + 1] /\ ledger' = ledger /\ probed' = probed
  BY <1>1 DEF GiveBack
<1>3. \A c \in Buckets :
        file'.buckets[c].used = IF c # b THEN file.buckets[c].used
                                ELSE IF file.buckets[c].used > 0 THEN file.buckets[c].used - 1
                                ELSE 0
  BY <1>1, RefundType
<1> HIDE DEF b
<1>4. ASSUME NEW c \in Buckets
      PROVE  Fits(c, file'.buckets[c].used, ledger'[c], late'[c], probed'[c])
  <2>1. Fits(c, file.buckets[c].used, ledger[c], late[c], probed[c])
    BY DEF Spending, Charged
  <2>2. file.buckets[c].used \in Nat /\ ledger[c] \in Int /\ late[c] \in Nat /\ probed[c] \in Nat
    BY <1>1, UsedType
  <2>3. CASE c = b
    <3> DEFINE v == IF file.buckets[c].used > 0 THEN file.buckets[c].used - 1 ELSE 0
    <3>1. file'.buckets[c].used = v
      BY <1>3, <2>3
    <3>2. \/ /\ ledger'[c] = ledger[c] - 1 /\ late'[c] = late[c]
             /\ probed'[c] = probed[c] \/ probed'[c] = AtLeast(probed[c] - 1, 0)
          \/ late'[c] = late[c] + 1 /\ ledger'[c] = ledger[c] /\ probed'[c] = probed[c]
      BY <1>1, <1>2, <2>3
    <3>3. /\ Fits(c, v, ledger[c] - 1, late[c], probed[c])
          /\ Fits(c, v, ledger[c] - 1, late[c], AtLeast(probed[c] - 1, 0))
          /\ Fits(c, v, ledger[c], late[c] + 1, probed[c])
      BY <2>1, <2>2, FitsArithmetic
    <3> HIDE DEF v
    <3> QED BY <3>1, <3>2, <3>3
  <2>4. CASE c # b
    <3>1. ledger'[c] = ledger[c] /\ late'[c] = late[c] /\ probed'[c] = probed[c]
      BY <1>1, <1>2, <2>4
    <3>2. file'.buckets[c].used = file.buckets[c].used
      BY <1>3, <2>4
    <3> QED BY <2>1, <3>1, <3>2
  <2> QED BY <2>3, <2>4
<1> QED BY <1>4 DEF Spending, Charged

LEMMA SpendingStep == TypeOK /\ Spending /\ [Next]_vars => Spending'
<1> SUFFICES ASSUME TypeOK, Spending, [Next]_vars PROVE Spending'
  OBVIOUS
<1>1. CASE UNCHANGED vars \/ Tick
  <2>1. file' = file /\ UNCHANGED history
    BY <1>1 DEF vars, Tick, history
  <2> QED BY <2>1, SpendingKept
<1>2. ASSUME NEW r \in Requests,
             \/ Arrive(r) \/ Served(r) \/ Refuse(r) \/ Abandon(r) \/ LeaveTunnel(r)
             \/ LeaveProbe(r)
      PROVE  Spending'
  <2>1. file' = file /\ UNCHANGED history
    BY <1>2 DEF Arrive, Served, Refuse, Abandon, LeaveTunnel, LeaveProbe
  <2> QED BY <2>1, SpendingKept
<1>3. ASSUME NEW r \in Requests, ArriveAuto(r) \/ EndProbing(r) PROVE Spending'
  <2>1. PICK t \in Stamps : \/ file' = Rollover(file, t) /\ RollHistory(t)
                            \/ file' = file /\ UNCHANGED history
    BY <1>3 DEF ArriveAuto, EndProbing
  <2> QED BY <2>1, StampType, NothingCharged, SpendingKept
<1>4. ASSUME NEW r \in Requests, NEW t \in Stamps, WalkInVain(r, t) PROVE Spending'
  <2>1. t \in Nat /\ Rollover(file, t) \in File
    BY StampType
  <2>2. \A b \in Buckets : file'.buckets[b].used = Rollover(file, t).buckets[b].used
    BY <1>4, <2>1, WalkType DEF WalkInVain
  <2>3. RollHistory(t)
    BY <1>4 DEF WalkInVain
  <2> QED BY <2>1, <2>2, <2>3, NothingCharged
<1>5. ASSUME NEW r \in Requests, PollSlot(r) \/ LeaveLane(r) \/ StartProbing(r) PROVE Spending'
  BY <1>4, <1>5 DEF PollSlot, LeaveLane, StartProbing
<1>6. ASSUME NEW r \in Requests, TunnelFails(r) PROVE Spending'
  <2>1. PICK t \in Stamps :
          /\ file' = AfterEgressFailure(Rollover(file, t), ExitOf[req[r].held], t)
          /\ RollHistory(t)
    BY <1>6 DEF TunnelFails
  <2>2. ExitOf[req[r].held] \in Exits
    BY <1>6, HeldType DEF TunnelFails, Undispatched
  <2>3. t \in Nat /\ file'.buckets = Rollover(file, t).buckets
    BY <2>1, <2>2, StampType, EgressFailureType
  <2> QED BY <2>1, <2>3, NothingCharged
<1>7. ASSUME NEW r \in Requests, NoteSuccess(r) PROVE Spending'
  <2>1. PICK t \in Stamps :
          /\ file' = AfterSuccess(Rollover(file, t), req[r].held, ModelOf[r], t)
          /\ RollHistory(t)
    BY <1>7 DEF NoteSuccess
  <2>2. req[r].held \in Buckets /\ ModelOf[r] \in Models
    BY <1>7, HeldType, RequestAssumption DEF NoteSuccess, Undispatched
  <2>3. /\ t \in Nat
        /\ \A b \in Buckets : file'.buckets[b].used = Rollover(file, t).buckets[b].used
    BY <2>1, <2>2, StampType, SuccessType
  <2> QED BY <2>1, <2>3, NothingCharged
<1>8. ASSUME NEW r \in Requests, NoteQuota429(r) PROVE Spending'
  <2>1. PICK t \in Stamps :
          /\ file' = AfterQuota429(Rollover(file, t), req[r].held, ModelOf[r], req[r].retryAfter, t)
          /\ RollHistory(t)
    BY <1>8 DEF NoteQuota429
  <2>2. req[r].held \in Buckets /\ req[r].retryAfter \in Nat /\ ModelOf[r] \in Models
    BY <1>8, HeldType, RequestAssumption DEF NoteQuota429, Undispatched
  <2>3. /\ t \in Nat
        /\ \A b \in Buckets : file'.buckets[b].used = Rollover(file, t).buckets[b].used
    BY <2>1, <2>2, StampType, Quota429Type
  <2> QED BY <2>1, <2>3, NothingCharged
<1>9. ASSUME NEW r \in Requests, Refund(r) \/ RetryWarm(r) \/ RefundProbe(r) PROVE Spending'
  <2>1. req[r].held \in Buckets /\ GiveBack(r)
    BY <1>9, HeldType DEF Refund, RetryWarm, RefundProbe, Undispatched
  <2> QED BY <2>1, GiveBackSpends
<1> QED BY <1>1, <1>2, <1>3, <1>5, <1>6, <1>7, <1>8, <1>9, ReserveSpends, ProbeSpends DEF Next

(* No window dispatches more through a bucket than its ceiling, but for    *)
(* the warm probes kept and the refunds that arrive a window late.         *)
THEOREM SpendBounded == Spec => []SpendBound
<1>1. Init => TypeOK /\ Spending
  <2>1. ASSUME Init, NEW b \in Buckets
        PROVE  Fits(b, file.buckets[b].used, ledger[b], late[b], probed[b])
    <3>1. file.buckets[b].used = 0
      BY <2>1 DEF Init, FreshFile, FreshBucket
    <3>2. ledger[b] = 0 /\ late[b] = 0 /\ probed[b] = 0
      BY <2>1 DEF Init
    <3> QED BY <3>1, <3>2, NothingFits
  <2> QED BY <2>1, InitType DEF Spending, Charged
<1>2. (TypeOK /\ Spending) /\ [Next]_vars => (TypeOK /\ Spending)'
  BY TypeStep, SpendingStep
<1>3. TypeOK /\ Spending => SpendBound
  BY DEF SpendBound, Spending, Charged, Fits
<1> QED BY <1>1, <1>2, <1>3, PTL DEF Spec

-----------------------------------------------------------------------------
(* The in-flight slots *)

LEMMA GuardsFinite == \A b : IsFiniteSet(Guards(b)) /\ IsFiniteSet(Guards(b)')
<1>1. \A b : Guards(b) \subseteq Requests /\ Guards(b)' \subseteq Requests
  BY DEF Guards
<1> QED BY <1>1, RequestAssumption, FS_Subset

(* A step that leaves the counters alone, and every guard with its owner.  *)
GuardsStay ==
    /\ inFlight' = inFlight
    /\ \A s \in Requests :
         /\ req'[s].phase \in Guarded <=> req[s].phase \in Guarded
         /\ req[s].phase \in Guarded => req'[s].held = req[s].held

LEMMA SlotsStay ==
    ASSUME SlotsMatchGuards, GuardsStay
    PROVE  SlotsMatchGuards'
<1>1. \A b \in Buckets : Guards(b)' = Guards(b)
  BY DEF Guards, GuardsStay
<1> QED BY <1>1 DEF SlotsMatchGuards, GuardsStay

(* A request that holds no guard, or keeps the one it holds, changes state. *)
LEMMA OneRequestStays ==
    ASSUME TypeOK, inFlight' = inFlight, NEW r \in Requests, NEW q,
           req' = [req EXCEPT ![r] = q],
           \/ req[r].phase \notin Guarded /\ q.phase \notin Guarded
           \/ q.phase \in Guarded /\ req[r].phase \in Guarded /\ q.held = req[r].held
    PROVE  GuardsStay
BY DEF GuardsStay, TypeOK

(* The guard taken by a reservation. *)
LEMMA SlotTaken ==
    ASSUME TypeOK, SlotsMatchGuards, NEW r \in Requests, NEW b \in Buckets, HasSlot(inFlight, b),
           req[r].phase \notin Guarded,
           inFlight' = [inFlight EXCEPT ![b] = @ + 1],
           req'[r].phase \in Guarded, req'[r].held = b,
           \A s \in Requests : s # r => req'[s] = req[s]
    PROVE  SlotsMatchGuards'
<1>1. r \notin Guards(b) /\ Guards(b)' = Guards(b) \cup {r}
  BY DEF Guards
<1>2. \A c \in Buckets : c # b => Guards(c)' = Guards(c)
  BY DEF Guards
<1>3. Cardinality(Guards(b)') = Cardinality(Guards(b)) + 1
  BY <1>1, GuardsFinite, FS_AddElement
<1>4. inFlight'[b] = inFlight[b] + 1 /\ inFlight[b] \in Nat
  BY DEF TypeOK
<1>5. \A c \in Buckets : c # b => inFlight'[c] = inFlight[c]
  BY DEF TypeOK
<1>6. MaxInFlight \in Nat /\ (MaxInFlight > 0 => inFlight[b] < MaxInFlight)
  BY LimitAssumption DEF HasSlot
<1>7. inFlight'[b] = Cardinality(Guards(b)') /\ (MaxInFlight > 0 => inFlight'[b] <= MaxInFlight)
  BY <1>3, <1>4, <1>6 DEF SlotsMatchGuards
<1> QED BY <1>2, <1>5, <1>7 DEF SlotsMatchGuards

(* The guard dropped by an answer, a hang-up or a failed tunnel.           *)
LEMMA SlotReturned ==
    ASSUME TypeOK, SlotsMatchGuards, NEW r \in Requests, req[r].phase \in Guarded,
           ReleaseGuard(req[r].held), req'[r].phase \notin Guarded,
           \A s \in Requests : s # r => req'[s] = req[s]
    PROVE  SlotsMatchGuards'
<1>1. PICK b \in Buckets : b = req[r].held
  BY HeldType DEF Guarded, Undispatched
<1>2. r \in Guards(b) /\ Guards(b)' = Guards(b) \ {r}
  BY <1>1 DEF Guards
<1>3. \A c \in Buckets : c # b => Guards(c)' = Guards(c)
  BY <1>1 DEF Guards
<1>4. /\ Cardinality(Guards(b)') = Cardinality(Guards(b)) - 1
      /\ Cardinality(Guards(b)) \in Nat /\ Cardinality(Guards(b)') \in Nat
  BY <1>2, GuardsFinite, FS_RemoveElement, FS_CardinalityType
<1>5. inFlight[b] \in Nat /\ inFlight[b] = Cardinality(Guards(b))
  BY <1>1 DEF TypeOK, SlotsMatchGuards
<1>6. inFlight'[b] = IF inFlight[b] > 0 THEN inFlight[b] - 1 ELSE 0
  BY <1>1 DEF TypeOK, ReleaseGuard
<1>7. \A c \in Buckets : c # b => inFlight'[c] = inFlight[c]
  BY <1>1 DEF TypeOK, ReleaseGuard
<1>8. inFlight'[b] = Cardinality(Guards(b)') /\ inFlight'[b] <= inFlight[b]
  BY <1>4, <1>5, <1>6
<1>9. MaxInFlight \in Nat /\ (MaxInFlight > 0 => inFlight[b] <= MaxInFlight)
  BY <1>1, LimitAssumption DEF SlotsMatchGuards
<1>10. inFlight'[b] \in Nat /\ (MaxInFlight > 0 => inFlight'[b] <= MaxInFlight)
  BY <1>4, <1>5, <1>8, <1>9
<1> QED BY <1>3, <1>7, <1>8, <1>10 DEF SlotsMatchGuards

LEMMA SlotsStep == TypeOK /\ SlotsMatchGuards /\ [Next]_vars => SlotsMatchGuards'
<1> SUFFICES ASSUME TypeOK, SlotsMatchGuards, [Next]_vars PROVE SlotsMatchGuards'
  OBVIOUS
<1>1. CASE UNCHANGED vars \/ Tick
  <2>1. inFlight' = inFlight /\ req' = req
    BY <1>1 DEF vars, Tick
  <2> QED BY <2>1, SlotsStay DEF GuardsStay
<1>2. ASSUME NEW r \in Requests, Arrive(r) \/ ArriveAuto(r) PROVE SlotsMatchGuards'
  <2>1. PICK q \in {req[r], [req[r] EXCEPT !.phase = "walking"]} :
          inFlight' = inFlight /\ req' = [req EXCEPT ![r] = q]
    BY <1>2, RequestSound DEF Arrive, ArriveAuto
  <2>2. [req[r] EXCEPT !.phase = "walking"].phase = "walking"
    BY PhaseSound DEF Phases, Undispatched
  <2>3. req[r].phase = "idle" /\ q.phase \in {"idle", "walking"}
    BY <1>2, <2>2 DEF Arrive, ArriveAuto
  <2> QED BY <2>1, <2>3, OneRequestStays, SlotsStay DEF Guarded
<1>3. ASSUME NEW r \in Requests, Reserve(r) PROVE SlotsMatchGuards'
  <2>1. PICK t \in Stamps, i \in DOMAIN Asked(r) :
          LET b == Asked(r)[i] IN
          /\ req[r].phase \in {"walking", "retrying"}
          /\ FirstReady(Rollover(file, t), inFlight, Asked(r), Excluded(r), t, i)
          /\ inFlight' = [inFlight EXCEPT ![b] = @ + 1]
          /\ req' = [req EXCEPT ![r].phase = "flying", ![r].held = b,
                                ![r].booked = Rollover(file, t).window]
    BY <1>3 DEF Reserve
  <2>2. PICK b \in Buckets : b = Asked(r)[i]
    BY <2>1, AskedType
  <2>3. HasSlot(inFlight, b)
    BY <2>1, <2>2 DEF FirstReady, Ready
  <2>4. PICK w \in Nat : w = Rollover(file, t).window
    BY StampType DEF File
  <2> DEFINE q == [req[r] EXCEPT !.phase = "flying", !.held = b, !.booked = w]
  <2>5. req' = [req EXCEPT ![r] = q]
    BY <2>1, <2>2, <2>4, RequestSound
  <2>6. q.phase = "flying" /\ q.held = b
    BY RequestSound DEF Request
  <2> HIDE DEF q
  <2>7. req'[r].phase = "flying" /\ req'[r].held = b /\ \A s \in Requests : s # r => req'[s] = req[s]
    BY <2>5, <2>6, RequestSound
  <2> QED BY <2>1, <2>2, <2>3, <2>7, SlotTaken DEF Guarded
<1>4. ASSUME NEW r \in Requests, ReserveProbe(r) PROVE SlotsMatchGuards'
  <2>1. PICK t \in Stamps, b \in Range(Order(cursor)) :
          /\ req[r].phase = "probing" /\ req[r].probes > 0
          /\ Probeable(Rollover(file, t), inFlight, b, t)
          /\ inFlight' = [inFlight EXCEPT ![b] = @ + 1]
          /\ req' = [req EXCEPT ![r].phase = "flying", ![r].held = b,
                                ![r].booked = Rollover(file, t).window,
                                ![r].probes = @ - 1]
    BY <1>4 DEF ReserveProbe
  <2>2. b \in Buckets /\ HasSlot(inFlight, b)
    BY <2>1, ListType DEF Probeable
  <2>3. PICK w \in Nat : w = Rollover(file, t).window
    BY StampType DEF File
  <2> DEFINE q == [req[r] EXCEPT !.phase = "flying", !.held = b, !.booked = w,
                                 !.probes = req[r].probes - 1]
  <2>4. q.phase = "flying" /\ q.held = b
    BY RequestSound DEF Request
  <2>5. req' = [req EXCEPT ![r] = q]
    BY <2>1, <2>3, RequestSound
  <2> HIDE DEF q
  <2>6. req'[r].phase = "flying" /\ req'[r].held = b /\ \A s \in Requests : s # r => req'[s] = req[s]
    BY <2>4, <2>5, RequestSound
  <2> QED BY <2>1, <2>2, <2>6, SlotTaken DEF Guarded
<1>5. ASSUME NEW r \in Requests,
             LeaveLane(r) \/ EndProbing(r) \/ NoteSuccess(r) \/ NoteQuota429(r) \/ Refund(r)
      PROVE  SlotsMatchGuards'
  <2>1. req[r].phase \in {"walking", "retrying", "probing", "served", "refused", "dead"}
    BY <1>5 DEF LeaveLane, WalkInVain, EndProbing, NoteSuccess, NoteQuota429, Refund
  <2>2. PICK q : req' = [req EXCEPT ![r] = q] /\ q.phase \in {"idle", "walking"}
    <3>1. CASE LeaveLane(r) \/ EndProbing(r) \/ NoteSuccess(r)
      BY <3>1, IdleSound DEF LeaveLane, EndProbing, NoteSuccess
    <3>2. CASE NoteQuota429(r) \/ Refund(r)
      <4>1. \/ req' = [req EXCEPT ![r] = Idle]
            \/ \E lost \in {TRUE, req[r].lost} : req' = [req EXCEPT ![r] = Walking(req[r], lost)]
        BY <3>2, RequestSound DEF NoteQuota429, Refund
      <4>2. \A lost : Walking(req[r], lost).phase = "walking"
        BY DEF Walking
      <4> QED BY <4>1, <4>2, IdleSound
    <3> QED BY <1>5, <3>1, <3>2
  <2>3. inFlight' = inFlight
    BY <1>5 DEF LeaveLane, WalkInVain, EndProbing, NoteSuccess, NoteQuota429, Refund, GiveBack
  <2> QED BY <2>1, <2>2, <2>3, OneRequestStays, SlotsStay DEF Guarded
<1>6. ASSUME NEW r \in Requests, StartProbing(r) \/ RetryWarm(r) PROVE SlotsMatchGuards'
  <2>1. PICK q \in {[req[r] EXCEPT !.phase = "probing", !.warm = "probe", !.probes = n] :
                      n \in 1 .. ProbeAttempts}
                   \cup {[req[r] EXCEPT !.phase = "retrying", !.warm = "retry"]} :
          req' = [req EXCEPT ![r] = q]
    BY <1>6, RequestSound DEF StartProbing, RetryWarm
  <2>2. q.phase \in {"probing", "retrying"}
    BY RequestSound DEF Request
  <2>3. req[r].phase \in {"walking", "refused"} /\ inFlight' = inFlight
    BY <1>6 DEF StartProbing, WalkInVain, RetryWarm, GiveBack
  <2> QED BY <2>1, <2>2, <2>3, OneRequestStays, SlotsStay DEF Guarded
<1>7. ASSUME NEW r \in Requests, PollSlot(r) PROVE SlotsMatchGuards'
  <2>1. inFlight' = inFlight /\ req' = req
    BY <1>7 DEF PollSlot, WalkInVain
  <2> QED BY <2>1, SlotsStay DEF GuardsStay
<1>8. ASSUME NEW r \in Requests, TunnelFails(r) \/ RefundProbe(r) PROVE SlotsMatchGuards'
  <2>1. PICK p \in {"tunnelDown", "demoted"} : req' = [req EXCEPT ![r] = [req[r] EXCEPT !.phase = p]]
    BY <1>8, RequestSound DEF TunnelFails, RefundProbe
  <2>2. req[r].phase \in {"flying", "tunnelDown"} /\ inFlight' = inFlight
    BY <1>8 DEF TunnelFails, RefundProbe, GiveBack
  <2>3. req[r].held \in Buckets
    BY <2>2, HeldType DEF Undispatched
  <2> DEFINE q == [req[r] EXCEPT !.phase = p]
  <2>4. q.phase = p /\ q.held = req[r].held
    BY <2>3, PhaseSound DEF Phases
  <2>5. req' = [req EXCEPT ![r] = q]
    BY <2>1
  <2> HIDE DEF q
  <2> QED BY <2>2, <2>4, <2>5, OneRequestStays, SlotsStay DEF Guarded
<1>9. ASSUME NEW r \in Requests,
             Served(r) \/ Refuse(r) \/ Abandon(r) \/ LeaveTunnel(r) \/ LeaveProbe(r)
      PROVE  SlotsMatchGuards'
  <2>1. req[r].phase \in Guarded /\ ReleaseGuard(req[r].held)
    BY <1>9 DEF Served, Refuse, Abandon, LeaveTunnel, LeaveProbe, Guarded
  <2>2. req'[r].phase \in {"served", "refused", "idle", "dead", "probing"}
    BY <1>9, IdleSound, RequestSound
       DEF Served, Refuse, Abandon, LeaveTunnel, LeaveProbe, Request
  <2>3. \A s \in Requests : s # r => req'[s] = req[s]
    BY <1>9, RequestSound DEF Served, Refuse, Abandon, LeaveTunnel, LeaveProbe
  <2> QED BY <2>1, <2>2, <2>3, SlotReturned DEF Guarded
<1> QED BY <1>1, <1>2, <1>3, <1>4, <1>5, <1>6, <1>7, <1>8, <1>9 DEF Next

(* However requests interleave, a bucket's in-flight counter is the number *)
(* of its live guards and never exceeds the cap.                           *)
THEOREM SlotsCorrect == Spec => []SlotsMatchGuards
<1>1. Init => TypeOK /\ SlotsMatchGuards
  <2> SUFFICES ASSUME Init, NEW b \in Buckets
               PROVE  inFlight[b] = Cardinality(Guards(b)) /\ (MaxInFlight > 0 => inFlight[b] <= MaxInFlight)
    BY InitType DEF SlotsMatchGuards
  <2>1. Guards(b) = {}
    BY IdleSound DEF Init, Guards, Guarded
  <2> QED BY <2>1, FS_EmptySet, LimitAssumption DEF Init
<1>2. (TypeOK /\ SlotsMatchGuards) /\ [Next]_vars => (TypeOK /\ SlotsMatchGuards)'
  BY TypeStep, SlotsStep
<1> QED BY <1>1, <1>2, PTL DEF Spec

-----------------------------------------------------------------------------
(* The half-open probe of a parked exit.  A parked exit that was never     *)
(* stamped would be open to every request; the invariant is that a lesson  *)
(* always stamps, on an exit the program has a record of.                  *)

Stamped(f) ==
    \A e \in Exits : f.exits[e].scope = "egress" => f.exits[e].probe > 0 /\ f.exits[e].known

LEMMA RolloverStamped ==
    ASSUME NEW f \in File, NEW t \in Nat, Stamped(f)
    PROVE  Stamped(Rollover(f, t)) /\ \A e \in Exits : Rollover(f, t).exits[e].probe = f.exits[e].probe
<1> DEFINE x(e) == [f.exits[e] EXCEPT !.scope = "unknown", !.last429 = None,
                                      !.cooldown = StillCooling(@, t)]
<1>1. ASSUME NEW e \in Exits PROVE x(e).scope = "unknown" /\ x(e).probe = f.exits[e].probe
  <2>1. f.exits[e] \in ExitState
    BY DEF File
  <2> QED BY <2>1 DEF ExitState
<1>2. f.window # WindowDay(t) => Rollover(f, t).exits = [e \in Exits |-> x(e)]
  BY DEF Rollover
<1>3. f.window = WindowDay(t) => Rollover(f, t) = f
  BY DEF Rollover
<1> HIDE DEF x
<1>4. CASE f.window # WindowDay(t)
  BY <1>1, <1>2, <1>4 DEF Stamped
<1>5. CASE f.window = WindowDay(t)
  BY <1>3, <1>5
<1> QED BY <1>4, <1>5

LEMMA WalkStamped ==
    ASSUME NEW f \in File, NEW seen, NEW t \in Nat
    PROVE  AfterWalk(f, seen, t).exits = f.exits
BY DEF AfterWalk, File

(* A dispatch stamps its exit when some bucket it looked at raised the flag. *)
LEMMA ReserveStamped ==
    ASSUME NEW f \in File, NEW seen, NEW b \in Buckets, NEW t \in Nat \ {0}, Stamped(f)
    PROVE  /\ Stamped(AfterReserve(f, seen, b, t))
           /\ f.exits[ExitOf[b]].known /\ (\E s \in seen : RaisesProbe(f, s, t)) =>
                AfterReserve(f, seen, b, t).exits[ExitOf[b]].probe = t
<1> DEFINE walked == AfterWalk(f, seen, t)
           e == ExitOf[b]
           stamped == f.exits[e].known /\ \E s \in seen : RaisesProbe(f, s, t)
           x == [f.exits[e] EXCEPT !.probe = IF stamped THEN t ELSE @]
           g == AfterReserve(f, seen, b, t)
<1>1. e \in Exits /\ f.exits \in [Exits -> ExitState] /\ f.exits[e] \in ExitState
  BY PlanAssumption DEF File
<1>2. walked \in File /\ walked.exits = f.exits
  BY WalkType, WalkStamped
<1>3. g.exits = [f.exits EXCEPT ![e] = x]
  BY <1>1, <1>2 DEF AfterReserve, File
<1> HIDE DEF stamped, g, walked
<1>4. /\ x.scope = f.exits[e].scope /\ x.known = f.exits[e].known
      /\ x.probe = IF stamped THEN t ELSE f.exits[e].probe
  BY <1>1 DEF ExitState
<1> HIDE DEF x
<1>5. Stamped(g)
  BY <1>1, <1>3, <1>4 DEF Stamped
<1>6. stamped => g.exits[e].probe = t
  BY <1>1, <1>3, <1>4
<1> QED BY <1>5, <1>6 DEF g, stamped

LEMMA NoteStamped ==
    ASSUME NEW f \in File, NEW b \in Buckets, NEW m \in Models, NEW ra \in Nat,
           NEW t \in Nat \ {0}, Stamped(f)
    PROVE  Stamped(AfterQuota429(f, b, m, ra, t))
<1> DEFINE e == ExitOf[b]
           lesson == LearnsEgress(f, b, m, ra, t)
           nx == NotedExit(f, b, m, ra, t)
           g == AfterQuota429(f, b, m, ra, t)
<1>1. e \in Exits /\ f.exits \in [Exits -> ExitState]
  BY PlanAssumption DEF File
<1>2. g.exits = [f.exits EXCEPT ![e] = nx]
  BY DEF AfterQuota429, File
<1>3. \/ nx = f.exits[e]
      \/ /\ nx.known = TRUE
         /\ nx.scope = IF lesson \/ f.exits[e].scope = "egress" THEN "egress" ELSE "account"
         /\ nx.probe = IF lesson THEN t ELSE f.exits[e].probe
  BY DEF NotedExit
<1> HIDE DEF nx, g, lesson
<1>4. nx.scope = "egress" => nx.probe > 0 /\ nx.known
  BY <1>1, <1>3 DEF Stamped
<1>5. Stamped(g)
  BY <1>1, <1>2, <1>4 DEF Stamped
<1> QED BY <1>5 DEF g

LEMMA SuccessStamped ==
    ASSUME NEW f \in File, NEW b \in Buckets, NEW m \in Models, NEW t \in Nat, Stamped(f)
    PROVE  Stamped(AfterSuccess(f, b, m, t))
<1> DEFINE e == ExitOf[b]
           switched == SwitchedAfter429(f.exits[e], b, m, t)
           x == [f.exits[e] EXCEPT
                   !.scope = IF switched THEN "account"
                             ELSE IF @ = "egress" THEN "unknown" ELSE @,
                   !.last429 = None]
           g == AfterSuccess(f, b, m, t)
<1>1. e \in Exits /\ f.exits \in [Exits -> ExitState] /\ f.exits[e] \in ExitState
  BY PlanAssumption DEF File
<1> HIDE DEF switched
<1>2. x.scope # "egress"
  BY <1>1 DEF ExitState
<1>3. g.exits = [f.exits EXCEPT ![e] = x]
  BY DEF AfterSuccess, File, switched
<1> HIDE DEF x, g
<1>4. Stamped(g)
  BY <1>1, <1>2, <1>3 DEF Stamped
<1> QED BY <1>4 DEF g

LEMMA EgressFailureStamped ==
    ASSUME NEW f \in File, NEW e \in Exits, NEW t \in Nat, Stamped(f)
    PROVE  Stamped(AfterEgressFailure(f, e, t))
<1> DEFINE x == [f.exits[e] EXCEPT
                   !.known = TRUE,
                   !.cooldown = IF ProxyCooldown > 0 THEN AtLeast(@, t + ProxyCooldown) ELSE @]
           g == AfterEgressFailure(f, e, t)
<1>1. f.exits \in [Exits -> ExitState] /\ f.exits[e] \in ExitState
  BY DEF File
<1>2. x.scope = f.exits[e].scope /\ x.known = TRUE /\ x.probe = f.exits[e].probe
  BY <1>1 DEF ExitState
<1>3. g.exits = [f.exits EXCEPT ![e] = x]
  BY <1>1 DEF AfterEgressFailure, File, ExitState
<1> HIDE DEF x, g
<1>4. Stamped(g)
  BY <1>1, <1>2, <1>3 DEF Stamped
<1> QED BY <1>4 DEF g

LEMMA ClockReading ==
    ASSUME TypeOK, Stamped(file), NEW t \in Stamps
    PROVE  /\ t \in Nat \ {0} /\ t <= now /\ now <= t + Skew
           /\ Rollover(file, t) \in File /\ Stamped(Rollover(file, t))
<1>1. now \in Nat /\ file \in File
  BY DEF TypeOK
<1>2. t \in Nat \ {0} /\ t <= now /\ now <= t + Skew
  BY <1>1 DEF Stamps
<1> QED BY <1>1, <1>2, RolloverType, RolloverStamped

LEMMA StampedStep ==
    TypeOK /\ Stamped(file) /\ [Next]_vars => Stamped(file)'
<1> SUFFICES ASSUME TypeOK, Stamped(file), [Next]_vars
             PROVE  Stamped(file)'
  OBVIOUS
<1>1. CASE UNCHANGED vars
  BY <1>1 DEF Stamped, vars
<1>2. CASE Tick
  BY <1>2 DEF Tick, Stamped, TypeOK
<1>3. ASSUME NEW r \in Requests,
             \/ Arrive(r) \/ Served(r) \/ Refuse(r) \/ Abandon(r) \/ LeaveTunnel(r)
             \/ LeaveProbe(r)
      PROVE  Stamped(file)'
  BY <1>3 DEF Arrive, Served, Refuse, Abandon, LeaveTunnel, LeaveProbe, Stamped
<1>4. ASSUME NEW r \in Requests, ArriveAuto(r) \/ EndProbing(r)
      PROVE  Stamped(file)'
  <2>1. PICK t \in Stamps : (file' = file \/ file' = Rollover(file, t))
    BY <1>4 DEF ArriveAuto, EndProbing
  <2>2. Stamped(Rollover(file, t))
    BY ClockReading
  <2> QED BY <2>1, <2>2 DEF Stamped
<1>5. ASSUME NEW r \in Requests, NEW t \in Stamps, WalkInVain(r, t)
      PROVE  Stamped(file)'
  <2>1. t \in Nat /\ Rollover(file, t) \in File /\ Stamped(Rollover(file, t))
    BY ClockReading
  <2>2. file'.exits = Rollover(file, t).exits
    BY <1>5, <2>1, WalkStamped DEF WalkInVain
  <2> QED BY <1>5, <2>1, <2>2 DEF WalkInVain, Stamped
<1>6. ASSUME NEW r \in Requests, PollSlot(r) \/ LeaveLane(r) \/ StartProbing(r)
      PROVE  Stamped(file)'
  BY <1>5, <1>6 DEF PollSlot, LeaveLane, StartProbing
<1>7. ASSUME NEW r \in Requests, Reserve(r) PROVE Stamped(file)'
  <2>1. PICK t \in Stamps, i \in DOMAIN Asked(r) :
          /\ req[r].phase \in {"walking", "retrying"}
          /\ file' = AfterReserve(Rollover(file, t), {Asked(r)[j] : j \in 1 .. i} \ Excluded(r),
                                  Asked(r)[i], t)
    BY <1>7 DEF Reserve
  <2>2. Asked(r)[i] \in Buckets
    BY <2>1, AskedType
  <2>3. t \in Nat \ {0} /\ Rollover(file, t) \in File /\ Stamped(Rollover(file, t))
    BY ClockReading
  <2> DEFINE g == AfterReserve(Rollover(file, t), {Asked(r)[j] : j \in 1 .. i} \ Excluded(r),
                               Asked(r)[i], t)
  <2>4. Stamped(g)
    BY <2>2, <2>3, ReserveStamped
  <2> QED BY <1>7, <2>1, <2>4 DEF Reserve, Stamped
<1>8. ASSUME NEW r \in Requests, TunnelFails(r) PROVE Stamped(file)'
  <2>1. PICK t \in Stamps : file' = AfterEgressFailure(Rollover(file, t), ExitOf[req[r].held], t)
    BY <1>8 DEF TunnelFails
  <2>2. ExitOf[req[r].held] \in Exits
    BY <1>8, HeldType DEF TunnelFails, Undispatched
  <2>3. t \in Nat \ {0} /\ Rollover(file, t) \in File /\ Stamped(Rollover(file, t))
    BY ClockReading
  <2>4. Stamped(AfterEgressFailure(Rollover(file, t), ExitOf[req[r].held], t))
    BY <2>2, <2>3, EgressFailureStamped
  <2> QED BY <1>8, <2>1, <2>4 DEF TunnelFails, Stamped
<1>9. ASSUME NEW r \in Requests, Refund(r) \/ RetryWarm(r) \/ RefundProbe(r)
      PROVE  Stamped(file)'
  <2>1. GiveBack(r)
    BY <1>9 DEF Refund, RetryWarm, RefundProbe
  <2>2. file'.exits = file.exits
    BY <2>1 DEF GiveBack, AfterRefund, TypeOK, File
  <2> QED BY <2>2 DEF Stamped
<1>10. ASSUME NEW r \in Requests, NoteSuccess(r) PROVE Stamped(file)'
  <2>1. PICK t \in Stamps : file' = AfterSuccess(Rollover(file, t), req[r].held, ModelOf[r], t)
    BY <1>10 DEF NoteSuccess
  <2>2. req[r].held \in Buckets /\ ModelOf[r] \in Models
    BY <1>10, HeldType, RequestAssumption DEF NoteSuccess, Undispatched
  <2>3. t \in Nat \ {0} /\ Rollover(file, t) \in File /\ Stamped(Rollover(file, t))
    BY ClockReading
  <2>4. Stamped(AfterSuccess(Rollover(file, t), req[r].held, ModelOf[r], t))
    BY <2>2, <2>3, SuccessStamped
  <2> QED BY <1>10, <2>1, <2>4 DEF NoteSuccess, Stamped
<1>11. ASSUME NEW r \in Requests, NoteQuota429(r) PROVE Stamped(file)'
  <2>1. PICK t \in Stamps :
          file' = AfterQuota429(Rollover(file, t), req[r].held, ModelOf[r], req[r].retryAfter, t)
    BY <1>11 DEF NoteQuota429
  <2>2. req[r].held \in Buckets /\ req[r].retryAfter \in Nat /\ ModelOf[r] \in Models
    BY <1>11, HeldType, RequestAssumption DEF NoteQuota429, Undispatched
  <2>3. t \in Nat \ {0} /\ Rollover(file, t) \in File /\ Stamped(Rollover(file, t))
    BY ClockReading
  <2>4. Stamped(AfterQuota429(Rollover(file, t), req[r].held, ModelOf[r], req[r].retryAfter, t))
    BY <2>2, <2>3, NoteStamped
  <2> QED BY <1>11, <2>1, <2>4 DEF NoteQuota429, Stamped
<1>12. ASSUME NEW r \in Requests, ReserveProbe(r) PROVE Stamped(file)'
  <2>1. PICK t \in Stamps, b \in Range(Order(cursor)) :
          file' = AfterWarmProbe(Rollover(file, t), b)
    BY <1>12 DEF ReserveProbe
  <2>2. Stamped(Rollover(file, t)) /\ Rollover(file, t) \in File /\ b \in Buckets
    BY ClockReading, ListType
  <2>3. file'.exits = Rollover(file, t).exits
    BY <2>1, <2>2, WarmProbeType
  <2> QED BY <2>1, <2>2, <2>3 DEF Stamped
<1> QED BY <1>1, <1>2, <1>3, <1>4, <1>6, <1>7, <1>8, <1>9, <1>10, <1>11, <1>12 DEF Next

LEMMA ReserveWindow ==
    ASSUME NEW f \in File, NEW seen, NEW b, NEW t
    PROVE  AfterReserve(f, seen, b, t).window = f.window
BY DEF AfterReserve, AfterWalk, File

(* Only a reservation of begin dispatches, the warm probes aside.          *)
LEMMA OnlyReserveDispatches ==
    ASSUME TypeOK, [Next]_vars, NEW r \in Requests, Dispatches(r), req[r].phase # "probing"
    PROVE  Reserve(r)
<1>1. req[r].phase # "flying" /\ req'[r].phase = "flying"
  BY DEF Dispatches
<1>2. ~ UNCHANGED vars /\ ~ Tick
  BY <1>1 DEF vars, Tick
<1>3. ASSUME NEW s \in Requests, s # r,
             \/ Arrive(s) \/ ArriveAuto(s) \/ Reserve(s) \/ PollSlot(s) \/ LeaveLane(s)
             \/ Served(s) \/ Refuse(s) \/ Abandon(s) \/ TunnelFails(s) \/ LeaveTunnel(s)
             \/ Refund(s) \/ NoteSuccess(s) \/ NoteQuota429(s) \/ RetryWarm(s)
             \/ StartProbing(s) \/ ReserveProbe(s) \/ RefundProbe(s) \/ LeaveProbe(s)
             \/ EndProbing(s)
      PROVE  FALSE
  <2>1. req'[r] = req[r]
    BY <1>3, RequestSound
       DEF Arrive, ArriveAuto, Reserve, PollSlot, LeaveLane, Served, Refuse, Abandon, TunnelFails,
           LeaveTunnel, Refund, NoteSuccess, NoteQuota429, RetryWarm, StartProbing, ReserveProbe,
           RefundProbe, LeaveProbe, EndProbing
  <2> QED BY <1>1, <2>1
<1>4. ~ (\/ Arrive(r) \/ ArriveAuto(r) \/ Served(r) \/ Refuse(r) \/ TunnelFails(r)
         \/ RetryWarm(r) \/ StartProbing(r) \/ RefundProbe(r) \/ LeaveProbe(r))
  BY <1>1, RequestSound DEF Arrive, ArriveAuto, Served, Refuse, TunnelFails, RetryWarm,
                            StartProbing, RefundProbe, LeaveProbe, Request
<1>5. ~ (\/ PollSlot(r) \/ LeaveLane(r) \/ EndProbing(r) \/ NoteSuccess(r) \/ Abandon(r))
  BY <1>1, IdleSound, RequestSound DEF PollSlot, LeaveLane, EndProbing, NoteSuccess, Abandon
<1>6. ~ (\/ LeaveTunnel(r) \/ Refund(r) \/ NoteQuota429(r))
  <2>1. \A lost : Walking(req[r], lost).phase = "walking"
    BY DEF Walking
  <2> QED BY <1>1, <2>1, IdleSound, RequestSound DEF LeaveTunnel, Refund, NoteQuota429, Request
<1>7. ~ ReserveProbe(r)
  BY DEF ReserveProbe
<1> QED BY <1>2, <1>3, <1>4, <1>5, <1>6, <1>7 DEF Next

ProbesParkedExit ==
    \A r \in Requests, e \in Exits :
        LeavesParked(r, e) =>
            /\ file'.exits[e].probe >= file.exits[e].probe + Recheck
            /\ file'.exits[e].probe \in Stamps

LEMMA DispatchProbes ==
    ASSUME TypeOK, Stamped(file), [Next]_vars
    PROVE  ProbesParkedExit
<1> SUFFICES ASSUME NEW r \in Requests, NEW e \in Exits, LeavesParked(r, e)
             PROVE  /\ file'.exits[e].probe >= file.exits[e].probe + Recheck
                    /\ file'.exits[e].probe \in Stamps
  BY DEF ProbesParkedExit
<1>1. Reserve(r)
  BY OnlyReserveDispatches DEF LeavesParked
<1>2. PICK t \in Stamps, i \in DOMAIN Asked(r) :
        LET f == Rollover(file, t)
            b == Asked(r)[i]
            seen == {Asked(r)[j] : j \in 1 .. i} \ Excluded(r) IN
        /\ req[r].phase \in {"walking", "retrying"}
        /\ FirstReady(f, inFlight, Asked(r), Excluded(r), t, i)
        /\ file' = AfterReserve(f, seen, b, t)
        /\ req' = [req EXCEPT ![r].phase = "flying", ![r].held = b, ![r].booked = f.window]
  BY <1>1 DEF Reserve
<1> DEFINE b == Asked(r)[i]
           seen == {Asked(r)[j] : j \in 1 .. i} \ Excluded(r)
<1>3. b \in Buckets
  BY <1>2, AskedType
<1>4. ExitOf[b] = e
  <2>1. req[r] \in Request
    BY DEF TypeOK
  <2> DEFINE q == [req[r] EXCEPT !.phase = "flying", !.held = b,
                                 !.booked = Rollover(file, t).window]
  <2>2. q.held = b
    BY <2>1 DEF Request
  <2>3. req' = [req EXCEPT ![r] = q]
    BY <1>2, <2>1 DEF TypeOK
  <2> HIDE DEF q
  <2> QED BY <2>2, <2>3 DEF TypeOK, LeavesParked
<1>5. t \in Nat \ {0} /\ Rollover(file, t) \in File /\ file \in File
  BY ClockReading DEF TypeOK
<1>6. Rollover(file, t) = file
  <2>1. file'.window = Rollover(file, t).window
    BY <1>2, <1>5, ReserveWindow
  <2>2. Rollover(file, t).window = WindowDay(t)
    BY DEF Rollover
  <2>3. file.window = WindowDay(t)
    BY <2>1, <2>2 DEF LeavesParked
  <2> QED BY <2>3 DEF Rollover
<1>7. file.exits[e].scope = "egress" /\ file.exits[e].probe > 0 /\ file.exits[e].known
  BY DEF LeavesParked, Stamped
<1>8. StampAged(file, b, t) /\ LiftsPark(file, b, t)
  BY <1>2, <1>4, <1>6, <1>7 DEF FirstReady, Ready, Usable, ScopeBlocked, Parked, LiftsPark
<1>9. b \in seen
  <2>1. i \in 1 .. i
    BY <1>2, AskedType
  <2> QED BY <1>2, <2>1 DEF FirstReady
<1>10. file'.exits[e].probe = t
  <2>1. \E s \in seen : RaisesProbe(file, s, t)
    BY <1>8, <1>9 DEF RaisesProbe
  <2>2. file' = AfterReserve(file, seen, b, t)
    BY <1>2, <1>6
  <2> HIDE DEF seen
  <2> QED BY <1>3, <1>4, <1>5, <1>7, <2>1, <2>2, ReserveStamped
<1>11. t - file.exits[e].probe >= Recheck
  BY <1>4, <1>8 DEF StampAged
<1>12. file.exits[e].probe \in Nat /\ Recheck \in Nat
  BY <1>5, TimingAssumption DEF File, ExitState
<1> QED BY <1>2, <1>5, <1>10, <1>11, <1>12

(* A parked exit is only ever used by a half-open probe, warm probes       *)
(* aside, and two probes are a recheck interval apart, however old the     *)
(* readings of the clock are that the reservations work with.              *)
THEOREM ParkedExitProbed == Spec => ParkedExitOnlyProbed
<1>1. Init => TypeOK /\ Stamped(file)
  BY InitType DEF Init, Stamped, FreshFile
<1>2. TypeOK /\ Stamped(file) /\ [Next]_vars =>
        (TypeOK /\ Stamped(file))'
  BY TypeStep, StampedStep
<1>3. TypeOK /\ Stamped(file) /\ [Next]_vars => [ProbesParkedExit]_vars
  BY DispatchProbes
<1>4. ParkedExitOnlyProbed <=> [][ProbesParkedExit]_vars
  BY DEF ParkedExitOnlyProbed, ProbesParkedExit
<1> QED BY <1>1, <1>2, <1>3, <1>4, PTL DEF Spec

-----------------------------------------------------------------------------
(* The ceiling learned in a window.  That a second 429 cannot raise it is  *)
(* only inductive together with the day it was learned in: no provisional  *)
(* ceiling outlives its window, so it never expires before it is committed *)
(* or taken back, whichever clock readings the operations work with.       *)

Tight(k, w) ==
    k.prev # None =>
        /\ k.learned > 0 /\ (k.prev.limit > 0 => k.learned <= k.prev.limit)
        /\ WindowDay(k.learnedAt) = w

Provisional(f) == \A b \in Buckets : Tight(f.buckets[b], f.window)

LEMMA SameDay ==
    ASSUME NEW d \in Nat \ {0}, NEW s \in Nat, NEW t \in Nat, s \div d = t \div d
    PROVE  t - s < d
<1>1. s = d * (s \div d) + (s % d) /\ t = d * (t \div d) + (t % d)
  OBVIOUS
<1>2. s % d \in 0 .. d - 1 /\ t % d \in 0 .. d - 1
  OBVIOUS
<1> DEFINE q == d * (s \div d)
<1>3. q \in Int
  OBVIOUS
<1>4. s = q + (s % d) /\ t = q + (t % d)
  BY <1>1
<1> HIDE DEF q
<1> QED BY <1>2, <1>3, <1>4

LEMMA RefreshTight ==
    ASSUME LearnedTtl = 0 \/ DayLength <= LearnedTtl,
           NEW b \in Buckets, NEW k \in Bucket, NEW t \in Nat, Tight(k, WindowDay(t))
    PROVE  Tight(RefreshLearned(b, k, t), WindowDay(t))
<1>1. CASE k.prev = None
  <2>1. RefreshLearned(b, k, t).prev = None
    BY <1>1 DEF RefreshLearned, Bucket
  <2> QED BY <2>1 DEF Tight
<1>2. CASE k.prev # None
  <2>1. WindowDay(k.learnedAt) = WindowDay(t) /\ k.learnedAt \in Nat
    BY <1>2 DEF Tight, Bucket
  <2>2. t - k.learnedAt < DayLength
    BY <2>1, SameDay, TimingAssumption DEF WindowDay
  <2>3. LearnedTtl = 0 \/ t - k.learnedAt <= LearnedTtl
    BY <2>1, <2>2, TimingAssumption
  <2>4. RefreshLearned(b, k, t) = k
    BY <2>3 DEF RefreshLearned
  <2> QED BY <2>4
<1> QED BY <1>1, <1>2

LEMMA RolloverTight ==
    ASSUME NEW f \in File, NEW t \in Nat, Provisional(f)
    PROVE  Provisional(Rollover(f, t)) /\ Rollover(f, t).window = WindowDay(t)
<1> DEFINE k(b) == [f.buckets[b] EXCEPT !.used = 0, !.prev = None,
                                        !.cooldown = StillCooling(@, t)]
<1>1. ASSUME NEW b \in Buckets PROVE k(b).prev = None
  <2>1. f.buckets[b] \in Bucket
    BY DEF File
  <2> QED BY <2>1 DEF Bucket
<1>2. f.window # WindowDay(t) =>
        /\ Rollover(f, t).buckets = [b \in Buckets |-> k(b)]
        /\ Rollover(f, t).window = WindowDay(t)
  BY DEF Rollover
<1>3. f.window = WindowDay(t) => Rollover(f, t) = f
  BY DEF Rollover
<1> HIDE DEF k
<1> QED BY <1>1, <1>2, <1>3 DEF Provisional, Tight

LEMMA VisitedTight ==
    ASSUME LearnedTtl = 0 \/ DayLength <= LearnedTtl,
           NEW f \in File, NEW b \in Buckets, NEW t \in Nat, Tight(f.buckets[b], WindowDay(t))
    PROVE  Tight(Visited(f, b, t), WindowDay(t))
<1> DEFINE reopened == IF RaisesProbe(f, b, t) THEN [f.buckets[b] EXCEPT !.cooldown = 0]
                                               ELSE f.buckets[b]
           opened == [reopened EXCEPT !.known = TRUE]
<1>1. f.buckets[b] \in Bucket
  BY DEF File
<1>2. /\ reopened \in Bucket /\ reopened.prev = f.buckets[b].prev
      /\ reopened.learned = f.buckets[b].learned /\ reopened.learnedAt = f.buckets[b].learnedAt
  BY <1>1 DEF Bucket
<1> HIDE DEF reopened
<1>3. /\ opened \in Bucket /\ opened.prev = f.buckets[b].prev
      /\ opened.learned = f.buckets[b].learned /\ opened.learnedAt = f.buckets[b].learnedAt
  BY <1>2 DEF Bucket
<1> HIDE DEF opened
<1>4. Tight(reopened, WindowDay(t)) /\ Tight(opened, WindowDay(t))
  BY <1>2, <1>3 DEF Tight
<1>5. Tight(RefreshLearned(b, opened, t), WindowDay(t))
  BY <1>3, <1>4, RefreshTight
<1> QED BY <1>4, <1>5 DEF Visited, reopened, opened

LEMMA WalkTight ==
    ASSUME LearnedTtl = 0 \/ DayLength <= LearnedTtl,
           NEW f \in File, NEW seen, NEW t \in Nat, Provisional(f), f.window = WindowDay(t)
    PROVE  Provisional(AfterWalk(f, seen, t))
<1> DEFINE g == AfterWalk(f, seen, t)
<1>1. /\ g.window = f.window
      /\ g.buckets = [b \in Buckets |-> IF b \in seen THEN Visited(f, b, t) ELSE f.buckets[b]]
  BY DEF AfterWalk, File
<1> HIDE DEF g
<1>2. ASSUME NEW b \in Buckets PROVE Tight(g.buckets[b], g.window)
  <2>1. Tight(f.buckets[b], WindowDay(t))
    BY DEF Provisional
  <2>2. Tight(Visited(f, b, t), WindowDay(t))
    BY <2>1, VisitedTight
  <2> QED BY <1>1, <2>1, <2>2
<1> QED BY <1>2 DEF Provisional, g

(* The step that charges a bucket leaves its ceilings alone. *)
LEMMA ChargeTight ==
    ASSUME NEW f \in File, NEW g \in File, Provisional(f), g.window = f.window,
           \A b \in Buckets : /\ g.buckets[b].prev = f.buckets[b].prev
                              /\ g.buckets[b].learned = f.buckets[b].learned
                              /\ g.buckets[b].learnedAt = f.buckets[b].learnedAt
    PROVE  Provisional(g)
BY DEF Provisional, Tight

LEMMA ReserveTight ==
    ASSUME LearnedTtl = 0 \/ DayLength <= LearnedTtl,
           NEW f \in File, NEW seen, NEW b \in Buckets, NEW t \in Nat, Usable(f, b, t),
           Provisional(f), f.window = WindowDay(t)
    PROVE  Provisional(AfterReserve(f, seen, b, t))
<1> DEFINE walked == AfterWalk(f, seen, t)
           g == AfterReserve(f, seen, b, t)
           k == [walked.buckets[b] EXCEPT !.used = @ + 1]
<1>1. walked \in File /\ walked.window = f.window /\ Provisional(walked)
  BY WalkType, WalkTight
<1>2. g \in File /\ g.window = f.window
  BY ReserveType
<1>3. g.buckets = [walked.buckets EXCEPT ![b] = k]
  BY <1>1 DEF AfterReserve, File
<1> HIDE DEF walked, g
<1>4. walked.buckets \in [Buckets -> Bucket] /\ walked.buckets[b] \in Bucket
  BY <1>1 DEF File
<1>5. /\ k.prev = walked.buckets[b].prev /\ k.learned = walked.buckets[b].learned
      /\ k.learnedAt = walked.buckets[b].learnedAt
  BY <1>4 DEF Bucket
<1> HIDE DEF k
<1>6. Provisional(g)
  BY <1>1, <1>2, <1>3, <1>4, <1>5, ChargeTight
<1> QED BY <1>6 DEF g

(* A refusal learns at most what the bucket was charged, and never more    *)
(* than it had learned before.                                             *)
LEMMA RefusedTight ==
    ASSUME LearnedTtl = 0 \/ DayLength <= LearnedTtl,
           NEW f \in File, NEW b \in Buckets, NEW ra \in Nat, NEW t \in Nat,
           Tight(f.buckets[b], WindowDay(t))
    PROVE  Tight(Refused(f, b, ra, t), WindowDay(t))
<1> DEFINE fresh == RefreshLearned(b, f.buckets[b], t)
           k == Judged(f, b, t)
           cooled == [k EXCEPT !.cooldown = AtLeast(@, QuotaCooldown(f, b, ra, t))]
<1>1. f.buckets[b] \in Bucket
  BY DEF File
<1>2. fresh \in Bucket /\ Tight(fresh, WindowDay(t))
  BY <1>1, RefreshType, RefreshTight
<1>3. k = [fresh EXCEPT !.known = TRUE]
  BY DEF Judged
<1> HIDE DEF fresh, k
<1>4. k \in Bucket /\ Tight(k, WindowDay(t))
  BY <1>2, <1>3 DEF Bucket, Tight
<1>5. QuotaCooldown(f, b, ra, t) \in Nat
  BY DayType, TimingAssumption DEF QuotaCooldown, AtLeast, AtMost
<1>6. cooled \in Bucket /\ Tight(cooled, WindowDay(t))
  BY <1>4, <1>5 DEF AtLeast, Bucket, Tight
<1> HIDE DEF cooled
<1>7. Tight(Learn(cooled, t), WindowDay(t))
  <2>1. CASE ~ Learning
    BY <1>6, <2>1 DEF Learn
  <2>2. CASE Learning
    <3> DEFINE seen == Observed(cooled)
               l == IF cooled.learned > 0 THEN AtMost(cooled.learned, seen) ELSE seen
               p == IF cooled.prev = None
                      THEN [limit |-> cooled.learned, at |-> cooled.learnedAt]
                      ELSE cooled.prev
               n == Learn(cooled, t)
    <3>1. n = [cooled EXCEPT !.prev = p, !.learned = l, !.learnedAt = t]
      BY <2>2, <1>6 DEF Learn, Bucket
    <3>2. seen \in Nat \ {0} /\ cooled.learned \in Nat
      BY <1>6 DEF Observed, AtLeast, Bucket
    <3>3. l > 0 /\ (cooled.learned > 0 => l <= cooled.learned)
      BY <3>2 DEF AtMost
    <3>4. p.limit > 0 => l <= p.limit
      <4>1. CASE cooled.prev = None
        BY <3>3, <4>1
      <4>2. CASE cooled.prev # None
        <5>1. /\ cooled.learned > 0 /\ p = cooled.prev
              /\ cooled.prev.limit > 0 => cooled.learned <= cooled.prev.limit
          BY <1>6, <4>2 DEF Tight
        <5>2. p.limit \in Nat /\ l \in Nat
          BY <1>6, <4>2, <5>1, <3>2 DEF Bucket, Prev, AtMost
        <5> QED BY <3>2, <3>3, <5>1, <5>2
      <4> QED BY <4>1, <4>2
    <3> HIDE DEF l, p, n
    <3>5. n.prev = p /\ n.learned = l /\ n.learnedAt = t
      BY <1>6, <3>1 DEF Bucket
    <3>6. Tight(n, WindowDay(t))
      BY <3>3, <3>4, <3>5 DEF Tight
    <3> QED BY <3>6 DEF n
  <2> QED BY <2>1, <2>2
<1> QED BY <1>6, <1>7 DEF Refused, cooled, k

LEMMA ParkTight ==
    ASSUME NEW k \in Bucket, NEW t \in Nat, NEW w
    PROVE  Tight(Park(k, t), w)
<1> DEFINE cooled == [k EXCEPT !.cooldown = AtLeast(AtLeast(@, WindowResetAt(t)), t + 1)]
<1>1. cooled \in Bucket
  BY DayType DEF Bucket, AtLeast
<1> HIDE DEF cooled
<1>2. Unlearn(cooled).prev = None
  BY <1>1 DEF Unlearn, Bucket
<1> QED BY <1>2 DEF Park, cooled, Tight

LEMMA NoteTight ==
    ASSUME LearnedTtl = 0 \/ DayLength <= LearnedTtl,
           NEW f \in File, NEW b \in Buckets, NEW m \in Models, NEW ra \in Nat, NEW t \in Nat,
           Provisional(f), f.window = WindowDay(t)
    PROVE  Provisional(AfterQuota429(f, b, m, ra, t))
<1> DEFINE noted == [f.buckets EXCEPT ![b] = Refused(f, b, ra, t)]
           lesson == LearnsEgress(f, b, m, ra, t)
           g == AfterQuota429(f, b, m, ra, t)
<1>1. /\ g.window = f.window
      /\ g.buckets = [c \in Buckets |-> IF lesson /\ ExitOf[c] = ExitOf[b] /\ noted[c].known
                                          THEN Park(noted[c], t) ELSE noted[c]]
  BY DEF AfterQuota429, NotedBuckets, File
<1>2. noted \in [Buckets -> Bucket]
  BY RefusedType DEF File
<1>3. ASSUME NEW c \in Buckets PROVE Tight(noted[c], WindowDay(t))
  <2>1. Tight(f.buckets[c], WindowDay(t)) /\ Tight(Refused(f, b, ra, t), WindowDay(t))
    BY RefusedTight DEF Provisional
  <2> QED BY <2>1 DEF File
<1> HIDE DEF noted, lesson, g
<1>4. ASSUME NEW c \in Buckets PROVE Tight(g.buckets[c], g.window)
  <2>1. Tight(Park(noted[c], t), WindowDay(t))
    BY <1>2, ParkTight
  <2> QED BY <1>1, <1>3, <2>1
<1> QED BY <1>4 DEF Provisional, g

LEMMA SuccessTight ==
    ASSUME NEW f \in File, NEW b \in Buckets, NEW m \in Models, NEW t \in Nat, Provisional(f)
    PROVE  Provisional(AfterSuccess(f, b, m, t))
<1> DEFINE g == AfterSuccess(f, b, m, t)
<1>1. g.window = f.window
  BY SuccessType
<1>2. ASSUME NEW c \in Buckets
      PROVE  /\ g.buckets[c].prev \in {f.buckets[c].prev, None}
             /\ g.buckets[c].learned = f.buckets[c].learned
             /\ g.buckets[c].learnedAt = f.buckets[c].learnedAt
  <2> DEFINE switched == SwitchedAfter429(f.exits[ExitOf[b]], b, m, t)
             k == [f.buckets[c] EXCEPT
                     !.cooldown = IF Parked(f, b) /\ ExitOf[c] = ExitOf[b] THEN 0 ELSE @,
                     !.prev = IF switched /\ c = f.exits[ExitOf[b]].last429.bucket
                                THEN None ELSE @]
  <2>1. g.buckets[c] = k
    BY DEF AfterSuccess, File
  <2>2. f.buckets[c] \in Bucket
    BY DEF File
  <2> HIDE DEF switched, g
  <2>3. /\ k.prev \in {f.buckets[c].prev, None} /\ k.learned = f.buckets[c].learned
        /\ k.learnedAt = f.buckets[c].learnedAt
    BY <2>2 DEF Bucket
  <2> QED BY <2>1, <2>3
<1> HIDE DEF g
<1>3. Provisional(g)
  BY <1>1, <1>2 DEF Provisional, Tight
<1> QED BY <1>3 DEF g

LEMMA LightTight ==
    ASSUME NEW f \in File, NEW b \in Buckets, Provisional(f)
    PROVE  Provisional(AfterRefund(f, b)) /\ Provisional(AfterWarmProbe(f, b))
<1>1. f.buckets \in [Buckets -> Bucket] /\ f.buckets[b] \in Bucket
  BY DEF File
<1> DEFINE back == [f.buckets[b] EXCEPT !.used = IF @ > 0 THEN @ - 1 ELSE 0]
           spent == [f.buckets[b] EXCEPT !.known = TRUE, !.used = @ + 1]
           g == AfterRefund(f, b)
           h == AfterWarmProbe(f, b)
<1>2. /\ g.window = f.window /\ h.window = f.window
      /\ g.buckets = [f.buckets EXCEPT ![b] = back] /\ h.buckets = [f.buckets EXCEPT ![b] = spent]
  BY <1>1 DEF AfterRefund, AfterWarmProbe, File, Bucket
<1>3. /\ back.prev = f.buckets[b].prev /\ spent.prev = f.buckets[b].prev
      /\ back.learned = f.buckets[b].learned /\ spent.learned = f.buckets[b].learned
      /\ back.learnedAt = f.buckets[b].learnedAt /\ spent.learnedAt = f.buckets[b].learnedAt
  BY <1>1 DEF Bucket
<1> HIDE DEF back, spent, g, h
<1>4. Provisional(g) /\ Provisional(h)
  BY <1>1, <1>2, <1>3 DEF Provisional, Tight
<1> QED BY <1>4 DEF g, h

LEMMA ProvisionalStep ==
    ASSUME LearnedTtl = 0 \/ DayLength <= LearnedTtl
    PROVE  TypeOK /\ Provisional(file) /\ [Next]_vars => Provisional(file)'
<1> SUFFICES ASSUME TypeOK, Provisional(file), [Next]_vars
             PROVE  Provisional(file)'
  OBVIOUS
<1>1. ASSUME NEW t \in Stamps
      PROVE  /\ t \in Nat /\ Rollover(file, t) \in File
             /\ Provisional(Rollover(file, t)) /\ Rollover(file, t).window = WindowDay(t)
  BY StampType, RolloverTight DEF TypeOK
<1>2. CASE UNCHANGED file
  BY <1>2 DEF Provisional, Tight
<1>3. ASSUME NEW r \in Requests, ArriveAuto(r) \/ EndProbing(r)
      PROVE  Provisional(file)'
  <2>1. PICK t \in Stamps : file' = file \/ file' = Rollover(file, t)
    BY <1>3 DEF ArriveAuto, EndProbing
  <2> QED BY <1>1, <2>1 DEF Provisional
<1>4. ASSUME NEW r \in Requests, PollSlot(r) \/ LeaveLane(r) \/ StartProbing(r)
      PROVE  Provisional(file)'
  <2>1. PICK t \in Stamps : WalkInVain(r, t)
    BY <1>4 DEF PollSlot, LeaveLane, StartProbing
  <2> DEFINE seen == {Asked(r)[i] : i \in DOMAIN Asked(r)} \ Excluded(r)
  <2>2. file' = AfterWalk(Rollover(file, t), seen, t)
    BY <2>1 DEF WalkInVain
  <2> HIDE DEF seen
  <2>3. Provisional(AfterWalk(Rollover(file, t), seen, t))
    BY <1>1, WalkTight
  <2> QED BY <2>2, <2>3 DEF Provisional
<1>5. ASSUME NEW r \in Requests, Reserve(r) PROVE Provisional(file)'
  <2>1. PICK t \in Stamps, i \in DOMAIN Asked(r) :
          /\ req[r].phase \in {"walking", "retrying"}
          /\ FirstReady(Rollover(file, t), inFlight, Asked(r), Excluded(r), t, i)
          /\ file' = AfterReserve(Rollover(file, t), {Asked(r)[j] : j \in 1 .. i} \ Excluded(r),
                                  Asked(r)[i], t)
    BY <1>5 DEF Reserve
  <2>2. Asked(r)[i] \in Buckets
    BY <2>1, AskedType
  <2>3. Usable(Rollover(file, t), Asked(r)[i], t)
    BY <2>1 DEF FirstReady, Ready
  <2> DEFINE seen == {Asked(r)[j] : j \in 1 .. i} \ Excluded(r)
  <2> HIDE DEF seen
  <2>4. Provisional(AfterReserve(Rollover(file, t), seen, Asked(r)[i], t))
    BY <1>1, <2>2, <2>3, ReserveTight
  <2> QED BY <2>1, <2>4 DEF Provisional, seen
<1>6. ASSUME NEW r \in Requests, TunnelFails(r) PROVE Provisional(file)'
  <2>1. PICK t \in Stamps : file' = AfterEgressFailure(Rollover(file, t), ExitOf[req[r].held], t)
    BY <1>6 DEF TunnelFails
  <2>2. ExitOf[req[r].held] \in Exits
    BY <1>6, HeldType DEF TunnelFails, Undispatched
  <2>3. file'.window = Rollover(file, t).window /\ file'.buckets = Rollover(file, t).buckets
    BY <1>1, <2>1, <2>2, EgressFailureType
  <2> QED BY <1>1, <2>3 DEF Provisional
<1>7. ASSUME NEW r \in Requests, Refund(r) \/ RetryWarm(r) \/ RefundProbe(r)
      PROVE  Provisional(file)'
  <2>1. file' = AfterRefund(file, req[r].held) /\ req[r].held \in Buckets
    BY <1>7, HeldType DEF Refund, RetryWarm, RefundProbe, GiveBack, Undispatched
  <2>2. Provisional(AfterRefund(file, req[r].held))
    BY <2>1, LightTight DEF TypeOK
  <2> QED BY <2>1, <2>2 DEF Provisional
<1>8. ASSUME NEW r \in Requests, NoteSuccess(r) PROVE Provisional(file)'
  <2>1. PICK t \in Stamps : file' = AfterSuccess(Rollover(file, t), req[r].held, ModelOf[r], t)
    BY <1>8 DEF NoteSuccess
  <2>2. req[r].held \in Buckets /\ ModelOf[r] \in Models
    BY <1>8, HeldType, RequestAssumption DEF NoteSuccess, Undispatched
  <2>3. Provisional(AfterSuccess(Rollover(file, t), req[r].held, ModelOf[r], t))
    BY <1>1, <2>2, SuccessTight
  <2> QED BY <2>1, <2>3 DEF Provisional
<1>9. ASSUME NEW r \in Requests, NoteQuota429(r) PROVE Provisional(file)'
  <2>1. PICK t \in Stamps :
          file' = AfterQuota429(Rollover(file, t), req[r].held, ModelOf[r], req[r].retryAfter, t)
    BY <1>9 DEF NoteQuota429
  <2>2. req[r].held \in Buckets /\ req[r].retryAfter \in Nat /\ ModelOf[r] \in Models
    BY <1>9, HeldType, RequestAssumption DEF NoteQuota429, Undispatched
  <2>3. Provisional(AfterQuota429(Rollover(file, t), req[r].held, ModelOf[r],
                                  req[r].retryAfter, t))
    BY <1>1, <2>2, NoteTight
  <2> QED BY <2>1, <2>3 DEF Provisional
<1>10. ASSUME NEW r \in Requests, ReserveProbe(r) PROVE Provisional(file)'
  <2>1. PICK t \in Stamps, b \in Range(Order(cursor)) :
          file' = AfterWarmProbe(Rollover(file, t), b)
    BY <1>10 DEF ReserveProbe
  <2>2. b \in Buckets
    BY ListType
  <2>3. Provisional(AfterWarmProbe(Rollover(file, t), b))
    BY <1>1, <2>2, LightTight
  <2> QED BY <2>1, <2>3 DEF Provisional
<1>11. ASSUME NEW r \in Requests,
              \/ Arrive(r) \/ Served(r) \/ Refuse(r) \/ Abandon(r) \/ LeaveTunnel(r)
              \/ LeaveProbe(r)
       PROVE  UNCHANGED file
  BY <1>11 DEF Arrive, Served, Refuse, Abandon, LeaveTunnel, LeaveProbe
<1>12. Tick \/ UNCHANGED vars => UNCHANGED file
  BY DEF Tick, vars
<1> QED BY <1>2, <1>3, <1>4, <1>5, <1>6, <1>7, <1>8, <1>9, <1>10, <1>11, <1>12 DEF Next

(* A ceiling learned this window is tighter than the one it would be       *)
(* replaced by, for any pool, limits and sequence of 429s.  The lifetime   *)
(* of a learned ceiling is configured in days, or switched off.            *)
THEOREM ProvisionalTightens ==
    ASSUME LearnedTtl = 0 \/ DayLength <= LearnedTtl
    PROVE  Spec => []ProvisionalCeilingTightens
<1>1. Init => TypeOK /\ Provisional(file)
  BY InitType DEF Init, Provisional, Tight, FreshFile, FreshBucket
<1>2. TypeOK /\ Provisional(file) /\ [Next]_vars => (TypeOK /\ Provisional(file))'
  BY TypeStep, ProvisionalStep
<1>3. Provisional(file) => ProvisionalCeilingTightens
  BY DEF Provisional, Tight, ProvisionalCeilingTightens
<1> QED BY <1>1, <1>2, <1>3, PTL DEF Spec

-----------------------------------------------------------------------------
(* Who cools a bucket and who cuts a running cooldown short.  The walk may *)
(* do so only for an exit whose stamp has aged, because a parked exit was  *)
(* always stamped.                                                         *)

LEMMA RolloverCools ==
    ASSUME NEW f \in File, NEW t \in Nat, NEW b \in Buckets
    PROVE  \/ Rollover(f, t).buckets[b].cooldown = f.buckets[b].cooldown
           \/ Rollover(f, t).buckets[b].cooldown = 0 /\ f.buckets[b].cooldown <= t
<1> DEFINE k == [f.buckets[b] EXCEPT !.used = 0, !.prev = None, !.cooldown = StillCooling(@, t)]
<1>1. f.buckets[b] \in Bucket
  BY DEF File
<1>2. k.cooldown = StillCooling(f.buckets[b].cooldown, t)
  BY <1>1 DEF Bucket
<1>3. Rollover(f, t).buckets[b] \in {f.buckets[b], k}
  BY DEF Rollover
<1> HIDE DEF k
<1> QED BY <1>1, <1>2, <1>3 DEF StillCooling, Bucket

LEMMA ProbeDue ==
    ASSUME NEW f \in File, NEW b \in Buckets, NEW t \in Nat, Stamped(f), RaisesProbe(f, b, t)
    PROVE  t - f.exits[ExitOf[b]].probe >= Recheck
<1>1. ExitOf[b] \in Exits
  BY PlanAssumption
<1>2. StampAged(f, b, t)
  BY <1>1 DEF RaisesProbe, LiftsPark, LiftsCooldown, ScopeBlocked, Parked, Stamped
<1> QED BY <1>2 DEF StampAged

LEMMA VisitedCools ==
    ASSUME NEW f \in File, NEW b \in Buckets, NEW t \in Nat
    PROVE  \/ Visited(f, b, t).cooldown = f.buckets[b].cooldown
           \/ Visited(f, b, t).cooldown = 0 /\ RaisesProbe(f, b, t)
<1> DEFINE reopened == IF RaisesProbe(f, b, t) THEN [f.buckets[b] EXCEPT !.cooldown = 0]
                                               ELSE f.buckets[b]
           opened == [reopened EXCEPT !.known = TRUE]
<1>1. f.buckets[b] \in Bucket
  BY DEF File
<1>2. /\ reopened \in Bucket
      /\ \/ reopened.cooldown = f.buckets[b].cooldown
         \/ reopened.cooldown = 0 /\ RaisesProbe(f, b, t)
  BY <1>1 DEF Bucket
<1> HIDE DEF reopened
<1>3. opened \in Bucket /\ opened.cooldown = reopened.cooldown
  BY <1>2 DEF Bucket
<1> HIDE DEF opened
<1>4. RefreshLearned(b, opened, t).cooldown = opened.cooldown
  BY <1>3 DEF RefreshLearned, Bucket
<1> QED BY <1>2, <1>3, <1>4 DEF Visited, reopened, opened

(* The walk, with or without a reservation at its end. *)
LEMMA WalkCools ==
    ASSUME NEW f \in File, NEW seen, NEW t \in Nat, Stamped(f), NEW c \in Buckets
    PROVE  \/ AfterWalk(f, seen, t).buckets[c].cooldown = f.buckets[c].cooldown
           \/ /\ AfterWalk(f, seen, t).buckets[c].cooldown = 0
              /\ t - f.exits[ExitOf[c]].probe >= Recheck
<1>1. AfterWalk(f, seen, t).buckets[c] \in {f.buckets[c], Visited(f, c, t)}
  BY DEF AfterWalk, File
<1> QED BY <1>1, VisitedCools, ProbeDue

LEMMA ReserveCools ==
    ASSUME NEW f \in File, NEW seen, NEW b \in Buckets, NEW t \in Nat, NEW c \in Buckets
    PROVE  AfterReserve(f, seen, b, t).buckets[c].cooldown = AfterWalk(f, seen, t).buckets[c].cooldown
<1> DEFINE walked == AfterWalk(f, seen, t)
           k == [walked.buckets[b] EXCEPT !.used = @ + 1]
           g == AfterReserve(f, seen, b, t)
<1>1. walked \in File
  BY WalkType
<1>2. g.buckets = [walked.buckets EXCEPT ![b] = k]
  BY <1>1 DEF AfterReserve, File
<1> HIDE DEF walked, g
<1>3. walked.buckets \in [Buckets -> Bucket] /\ k.cooldown = walked.buckets[b].cooldown
  BY <1>1 DEF File, Bucket
<1> HIDE DEF k
<1>4. g.buckets[c].cooldown = walked.buckets[c].cooldown
  BY <1>2, <1>3
<1> QED BY <1>4 DEF walked, g

(* A 429 shortens no cooldown and touches those of its own exit only. *)
LEMMA NoteCools ==
    ASSUME NEW f \in File, NEW b \in Buckets, NEW m \in Models, NEW ra \in Nat, NEW t \in Nat,
           NEW c \in Buckets
    PROVE  /\ AfterQuota429(f, b, m, ra, t).buckets[c].cooldown >= f.buckets[c].cooldown
           /\ ExitOf[c] # ExitOf[b] =>
                AfterQuota429(f, b, m, ra, t).buckets[c].cooldown = f.buckets[c].cooldown
<1> DEFINE refused == Refused(f, b, ra, t)
           noted == [f.buckets EXCEPT ![b] = refused]
           lesson == LearnsEgress(f, b, m, ra, t)
           g == AfterQuota429(f, b, m, ra, t)
<1>1. g.buckets = [d \in Buckets |-> IF lesson /\ ExitOf[d] = ExitOf[b] /\ noted[d].known
                                       THEN Park(noted[d], t) ELSE noted[d]]
  BY DEF AfterQuota429, NotedBuckets, File
<1>2. f.buckets \in [Buckets -> Bucket] /\ refused \in Bucket
  BY RefusedType DEF File
<1>3. refused.cooldown >= f.buckets[b].cooldown
  <2> DEFINE fresh == RefreshLearned(b, f.buckets[b], t)
             k == Judged(f, b, t)
             q == QuotaCooldown(f, b, ra, t)
             cooled == [k EXCEPT !.cooldown = AtLeast(@, q)]
  <2>1. fresh \in Bucket /\ fresh.cooldown = f.buckets[b].cooldown
    BY <1>2, RefreshType DEF RefreshLearned, Bucket
  <2>2. k = [fresh EXCEPT !.known = TRUE]
    BY DEF Judged
  <2>3. q \in Nat
    BY DayType, TimingAssumption DEF QuotaCooldown, AtLeast, AtMost
  <2>4. refused \in {cooled, Learn(cooled, t)}
    BY DEF Refused
  <2> HIDE DEF fresh, k, q, refused
  <2>5. k \in Bucket /\ k.cooldown = f.buckets[b].cooldown
    BY <2>1, <2>2 DEF Bucket
  <2>6. cooled \in Bucket /\ cooled.cooldown >= k.cooldown
    BY <2>3, <2>5 DEF Bucket, AtLeast
  <2> HIDE DEF cooled
  <2>7. Learn(cooled, t).cooldown = cooled.cooldown
    BY <2>6 DEF Learn, Bucket
  <2> QED BY <2>4, <2>5, <2>6, <2>7
<1> HIDE DEF refused
<1>4. noted[c] \in Bucket /\ noted[c].cooldown >= f.buckets[c].cooldown
  <2>1. f.buckets[c].cooldown \in Nat
    BY <1>2 DEF Bucket
  <2> QED BY <1>2, <1>3, <2>1
<1>5. c # b => noted[c] = f.buckets[c]
  BY <1>2
<1> HIDE DEF noted
<1>6. Park(noted[c], t).cooldown >= noted[c].cooldown
  <2> DEFINE k == noted[c]
             parked == [k EXCEPT !.cooldown = AtLeast(AtLeast(@, WindowResetAt(t)), t + 1)]
  <2>1. k \in Bucket
    BY <1>4
  <2> HIDE DEF k
  <2>2. parked \in Bucket /\ parked.cooldown >= k.cooldown
    BY <2>1, DayType DEF Bucket, AtLeast
  <2> HIDE DEF parked
  <2>3. Unlearn(parked).cooldown = parked.cooldown
    BY <2>2 DEF Unlearn, Bucket
  <2> QED BY <2>2, <2>3 DEF Park, parked, k
<1>7. Park(noted[c], t) \in Bucket
  BY <1>4, ParkType
<1> HIDE DEF lesson, g
<1>8. g.buckets[c] = IF lesson /\ ExitOf[c] = ExitOf[b] /\ noted[c].known
                       THEN Park(noted[c], t) ELSE noted[c]
  BY <1>1
<1>9. /\ f.buckets[c].cooldown \in Nat /\ noted[c].cooldown \in Nat
      /\ Park(noted[c], t).cooldown \in Nat
  BY <1>2, <1>4, <1>7 DEF Bucket
<1>10. g.buckets[c].cooldown >= f.buckets[c].cooldown
  BY <1>4, <1>6, <1>8, <1>9
<1>11. ExitOf[c] # ExitOf[b] => g.buckets[c].cooldown = f.buckets[c].cooldown
  BY <1>5, <1>8
<1> QED BY <1>10, <1>11 DEF g

LEMMA SuccessCools ==
    ASSUME NEW f \in File, NEW b \in Buckets, NEW m \in Models, NEW t \in Nat, NEW c \in Buckets
    PROVE  \/ AfterSuccess(f, b, m, t).buckets[c].cooldown = f.buckets[c].cooldown
           \/ /\ AfterSuccess(f, b, m, t).buckets[c].cooldown = 0
              /\ ExitOf[c] = ExitOf[b]
<1> DEFINE switched == SwitchedAfter429(f.exits[ExitOf[b]], b, m, t)
           k == [f.buckets[c] EXCEPT
                   !.cooldown = IF Parked(f, b) /\ ExitOf[c] = ExitOf[b] THEN 0 ELSE @,
                   !.prev = IF switched /\ c = f.exits[ExitOf[b]].last429.bucket
                              THEN None ELSE @]
<1>1. AfterSuccess(f, b, m, t).buckets[c] = k
  BY DEF AfterSuccess, File
<1>2. f.buckets[c] \in Bucket
  BY DEF File
<1> HIDE DEF switched
<1>3. k.cooldown = IF Parked(f, b) /\ ExitOf[c] = ExitOf[b] THEN 0 ELSE f.buckets[c].cooldown
  BY <1>2 DEF Bucket
<1> QED BY <1>1, <1>3

LEMMA LightCools ==
    ASSUME NEW f \in File, NEW b \in Buckets, NEW c \in Buckets
    PROVE  /\ AfterRefund(f, b).buckets[c].cooldown = f.buckets[c].cooldown
           /\ AfterWarmProbe(f, b).buckets[c].cooldown = f.buckets[c].cooldown
<1>1. f.buckets \in [Buckets -> Bucket] /\ f.buckets[b] \in Bucket
  BY DEF File
<1> DEFINE back == [f.buckets[b] EXCEPT !.used = IF @ > 0 THEN @ - 1 ELSE 0]
           spent == [f.buckets[b] EXCEPT !.known = TRUE, !.used = @ + 1]
<1>2. /\ AfterRefund(f, b).buckets = [f.buckets EXCEPT ![b] = back]
      /\ AfterWarmProbe(f, b).buckets = [f.buckets EXCEPT ![b] = spent]
  BY <1>1 DEF AfterRefund, AfterWarmProbe, File, Bucket
<1>3. back.cooldown = f.buckets[b].cooldown /\ spent.cooldown = f.buckets[b].cooldown
  BY <1>1 DEF Bucket
<1> HIDE DEF back, spent
<1> QED BY <1>1, <1>2, <1>3

(* What a step of the lane may do to the cooldown of a bucket.             *)
CoolsByExit ==
    \A b \in Buckets :
        LET e == ExitOf[b]
            before == file.buckets[b].cooldown
            after == file'.buckets[b].cooldown IN
        /\ after > before =>
             \E r \in Requests : Ends(r, "refused") /\ ExitOf[req[r].held] = e
        /\ after < before /\ before > now =>
             \/ \E r \in Requests : Ends(r, "served") /\ ExitOf[req[r].held] = e
             \/ /\ now - file.exits[e].probe >= Recheck
                /\ \E r \in Requests : req[r].phase \in {"walking", "retrying"}

(* Rolling the window ends no running cooldown.                            *)
LEMMA RolledCools ==
    ASSUME TypeOK, Stamped(file), NEW t \in Stamps, NEW b \in Buckets
    PROVE  LET f == Rollover(file, t) IN
           /\ file.buckets[b].cooldown \in Nat /\ f.buckets[b].cooldown \in Nat
           /\ f.buckets[b].cooldown <= file.buckets[b].cooldown
           /\ file.buckets[b].cooldown > now => f.buckets[b].cooldown = file.buckets[b].cooldown
           /\ f.exits[ExitOf[b]].probe = file.exits[ExitOf[b]].probe
<1> DEFINE f == Rollover(file, t)
<1>1. t \in Nat /\ t <= now /\ now \in Nat /\ f \in File /\ file \in File
  BY ClockReading DEF TypeOK
<1>2. file.buckets[b].cooldown \in Nat /\ f.buckets[b].cooldown \in Nat
  BY <1>1 DEF File, Bucket
<1>3. \/ f.buckets[b].cooldown = file.buckets[b].cooldown
      \/ f.buckets[b].cooldown = 0 /\ file.buckets[b].cooldown <= t
  BY <1>1, RolloverCools
<1>4. f.exits[ExitOf[b]].probe = file.exits[ExitOf[b]].probe
  BY <1>1, RolloverStamped, PlanAssumption
<1> HIDE DEF f
<1> QED BY <1>1, <1>2, <1>3, <1>4 DEF f

(* A step that leaves every cooldown as the rolled file has it.            *)
LEMMA CalmStep ==
    ASSUME TypeOK, Stamped(file), NEW t \in Stamps,
           \A b \in Buckets :
              file'.buckets[b].cooldown \in {file.buckets[b].cooldown,
                                             Rollover(file, t).buckets[b].cooldown}
    PROVE  CoolsByExit
<1>1. now \in Nat
  BY DEF TypeOK
<1> QED BY <1>1, RolledCools DEF CoolsByExit

LEMMA WalkStep ==
    ASSUME TypeOK, Stamped(file), NEW r \in Requests, NEW t \in Stamps, NEW seen,
           req[r].phase \in {"walking", "retrying"},
           \A b \in Buckets : file'.buckets[b].cooldown =
                                AfterWalk(Rollover(file, t), seen, t).buckets[b].cooldown
    PROVE  CoolsByExit
<1> DEFINE f == Rollover(file, t)
<1> SUFFICES ASSUME NEW b \in Buckets
             PROVE  /\ ~ (file'.buckets[b].cooldown > file.buckets[b].cooldown)
                    /\ /\ file'.buckets[b].cooldown < file.buckets[b].cooldown
                       /\ file.buckets[b].cooldown > now
                       => now - file.exits[ExitOf[b]].probe >= Recheck
  BY DEF CoolsByExit
<1>1. /\ t \in Nat /\ t <= now /\ now \in Nat /\ f \in File /\ Stamped(f)
  BY ClockReading DEF TypeOK
<1>2. /\ file.buckets[b].cooldown \in Nat /\ f.buckets[b].cooldown \in Nat
      /\ f.buckets[b].cooldown <= file.buckets[b].cooldown
      /\ file.buckets[b].cooldown > now => f.buckets[b].cooldown = file.buckets[b].cooldown
      /\ f.exits[ExitOf[b]].probe = file.exits[ExitOf[b]].probe
  BY RolledCools
<1>3. \/ file'.buckets[b].cooldown = f.buckets[b].cooldown
      \/ /\ file'.buckets[b].cooldown = 0
         /\ t - f.exits[ExitOf[b]].probe >= Recheck
  BY <1>1, WalkCools
<1>4. f.exits[ExitOf[b]].probe \in Nat /\ Recheck \in Nat
  BY <1>1, PlanAssumption, TimingAssumption DEF File, ExitState
<1> HIDE DEF f
<1> QED BY <1>1, <1>2, <1>3, <1>4

LEMMA CoolingStep ==
    TypeOK /\ Stamped(file) /\ [Next]_vars => CoolsByExit
<1> SUFFICES ASSUME TypeOK, Stamped(file), [Next]_vars
             PROVE  CoolsByExit
  OBVIOUS
<1>1. CASE UNCHANGED file
  <2>1. now \in Nat /\ file \in File
    BY DEF TypeOK
  <2>2. \A b \in Buckets : file.buckets[b].cooldown \in Nat
    BY <2>1 DEF File, Bucket
  <2> QED BY <1>1, <2>2 DEF CoolsByExit
<1>2. ASSUME NEW r \in Requests, ArriveAuto(r) \/ EndProbing(r)
      PROVE  CoolsByExit
  <2>1. PICK t \in Stamps : file' = file \/ file' = Rollover(file, t)
    BY <1>2 DEF ArriveAuto, EndProbing
  <2> QED BY <2>1, CalmStep
<1>3. ASSUME NEW r \in Requests, PollSlot(r) \/ LeaveLane(r) \/ StartProbing(r)
      PROVE  CoolsByExit
  <2>1. PICK t \in Stamps : WalkInVain(r, t)
    BY <1>3 DEF PollSlot, LeaveLane, StartProbing
  <2> DEFINE seen == {Asked(r)[i] : i \in DOMAIN Asked(r)} \ Excluded(r)
  <2>2. /\ req[r].phase \in {"walking", "retrying"}
        /\ file' = AfterWalk(Rollover(file, t), seen, t)
    BY <2>1 DEF WalkInVain
  <2> HIDE DEF seen
  <2> QED BY <2>2, WalkStep
<1>4. ASSUME NEW r \in Requests, Reserve(r) PROVE CoolsByExit
  <2>1. PICK t \in Stamps, i \in DOMAIN Asked(r) :
          /\ req[r].phase \in {"walking", "retrying"}
          /\ file' = AfterReserve(Rollover(file, t), {Asked(r)[j] : j \in 1 .. i} \ Excluded(r),
                                  Asked(r)[i], t)
    BY <1>4 DEF Reserve
  <2> DEFINE seen == {Asked(r)[j] : j \in 1 .. i} \ Excluded(r)
  <2>2. file' = AfterReserve(Rollover(file, t), seen, Asked(r)[i], t) /\ Asked(r)[i] \in Buckets
    BY <2>1, AskedType
  <2> HIDE DEF seen
  <2>3. t \in Nat /\ Rollover(file, t) \in File
    BY ClockReading
  <2>4. \A b \in Buckets : file'.buckets[b].cooldown =
                             AfterWalk(Rollover(file, t), seen, t).buckets[b].cooldown
    BY <2>2, <2>3, ReserveCools
  <2> QED BY <2>1, <2>4, WalkStep
<1>5. ASSUME NEW r \in Requests, TunnelFails(r) PROVE CoolsByExit
  <2>1. PICK t \in Stamps : file' = AfterEgressFailure(Rollover(file, t), ExitOf[req[r].held], t)
    BY <1>5 DEF TunnelFails
  <2>2. ExitOf[req[r].held] \in Exits
    BY <1>5, HeldType DEF TunnelFails, Undispatched
  <2>3. t \in Nat /\ Rollover(file, t) \in File
    BY ClockReading
  <2>4. file'.buckets = Rollover(file, t).buckets
    BY <2>1, <2>2, <2>3, EgressFailureType
  <2> QED BY <2>4, CalmStep
<1>6. ASSUME NEW r \in Requests, Refund(r) \/ RetryWarm(r) \/ RefundProbe(r)
      PROVE  CoolsByExit
  <2>1. file' = AfterRefund(file, req[r].held) /\ req[r].held \in Buckets
    BY <1>6, HeldType DEF Refund, RetryWarm, RefundProbe, GiveBack, Undispatched
  <2>2. \A b \in Buckets : file'.buckets[b].cooldown = file.buckets[b].cooldown
    BY <2>1, LightCools DEF TypeOK
  <2>3. \A b \in Buckets : file.buckets[b].cooldown \in Nat
    BY DEF TypeOK, File, Bucket
  <2> QED BY <2>2, <2>3 DEF CoolsByExit
<1>7. ASSUME NEW r \in Requests, NoteSuccess(r) PROVE CoolsByExit
  <2>1. PICK t \in Stamps : file' = AfterSuccess(Rollover(file, t), req[r].held, ModelOf[r], t)
    BY <1>7 DEF NoteSuccess
  <2>2. req[r].held \in Buckets /\ ModelOf[r] \in Models
    BY <1>7, HeldType, RequestAssumption DEF NoteSuccess, Undispatched
  <2>3. t \in Nat /\ Rollover(file, t) \in File
    BY ClockReading
  <2>4. Ends(r, "served")
    BY <1>7, IdleSound, RequestSound DEF NoteSuccess, Ends
  <2>5. ASSUME NEW b \in Buckets
        PROVE  \/ file'.buckets[b].cooldown = Rollover(file, t).buckets[b].cooldown
               \/ file'.buckets[b].cooldown = 0 /\ ExitOf[req[r].held] = ExitOf[b]
    BY <2>1, <2>2, <2>3, SuccessCools
  <2>6. now \in Nat
    BY DEF TypeOK
  <2> QED BY <2>4, <2>5, <2>6, RolledCools DEF CoolsByExit
<1>8. ASSUME NEW r \in Requests, NoteQuota429(r) PROVE CoolsByExit
  <2>1. PICK t \in Stamps :
          file' = AfterQuota429(Rollover(file, t), req[r].held, ModelOf[r], req[r].retryAfter, t)
    BY <1>8 DEF NoteQuota429
  <2>2. req[r].held \in Buckets /\ req[r].retryAfter \in Nat /\ ModelOf[r] \in Models
    BY <1>8, HeldType, RequestAssumption DEF NoteQuota429, Undispatched
  <2>3. t \in Nat /\ Rollover(file, t) \in File
    BY ClockReading
  <2>4. Ends(r, "refused")
    <3>1. \A lost : Walking(req[r], lost).phase = "walking"
      BY DEF Walking
    <3> QED BY <1>8, <3>1, IdleSound, RequestSound DEF NoteQuota429, Ends
  <2> DEFINE g == AfterQuota429(Rollover(file, t), req[r].held, ModelOf[r], req[r].retryAfter, t)
  <2>5. g \in File
    BY <2>2, <2>3, Quota429Type
  <2>6. ASSUME NEW b \in Buckets
        PROVE  /\ g.buckets[b].cooldown \in Nat
               /\ g.buckets[b].cooldown >= Rollover(file, t).buckets[b].cooldown
               /\ ExitOf[b] # ExitOf[req[r].held] =>
                    g.buckets[b].cooldown = Rollover(file, t).buckets[b].cooldown
    <3>1. /\ g.buckets[b].cooldown >= Rollover(file, t).buckets[b].cooldown
          /\ ExitOf[b] # ExitOf[req[r].held] =>
               g.buckets[b].cooldown = Rollover(file, t).buckets[b].cooldown
      BY <2>2, <2>3, NoteCools
    <3> HIDE DEF g
    <3>2. g.buckets[b].cooldown \in Nat
      BY <2>5 DEF File, Bucket
    <3> QED BY <3>1, <3>2
  <2> HIDE DEF g
  <2>7. now \in Nat /\ file' = g
    BY <2>1 DEF TypeOK, g
  <2> QED BY <2>4, <2>6, <2>7, RolledCools DEF CoolsByExit
<1>9. ASSUME NEW r \in Requests, ReserveProbe(r) PROVE CoolsByExit
  <2>1. PICK t \in Stamps, b \in Range(Order(cursor)) :
          file' = AfterWarmProbe(Rollover(file, t), b)
    BY <1>9 DEF ReserveProbe
  <2>2. b \in Buckets /\ t \in Nat /\ Rollover(file, t) \in File
    BY ListType, ClockReading
  <2>3. \A c \in Buckets : file'.buckets[c].cooldown = Rollover(file, t).buckets[c].cooldown
    BY <2>1, <2>2, LightCools
  <2> QED BY <2>3, CalmStep
<1>10. ASSUME NEW r \in Requests,
              \/ Arrive(r) \/ Served(r) \/ Refuse(r) \/ Abandon(r) \/ LeaveTunnel(r)
              \/ LeaveProbe(r)
       PROVE  UNCHANGED file
  BY <1>10 DEF Arrive, Served, Refuse, Abandon, LeaveTunnel, LeaveProbe
<1>11. Tick \/ UNCHANGED vars => UNCHANGED file
  BY DEF Tick, vars
<1> QED BY <1>1, <1>2, <1>3, <1>4, <1>5, <1>6, <1>7, <1>8, <1>9, <1>10, <1>11 DEF Next

(* A verdict on one exit never parks or frees another, for any pool, any   *)
(* exits and any clock readings.                                           *)
THEOREM CoolingStaysWithExit == Spec => CoolingFollowsItsExit
<1>1. Init => TypeOK /\ Stamped(file)
  BY InitType DEF Init, Stamped, FreshFile
<1>2. TypeOK /\ Stamped(file) /\ [Next]_vars => (TypeOK /\ Stamped(file))'
  BY TypeStep, StampedStep
<1>3. TypeOK /\ Stamped(file) /\ [Next]_vars => [CoolsByExit]_vars
  BY CoolingStep
<1>4. CoolingFollowsItsExit <=> [][CoolsByExit]_vars
  BY DEF CoolingFollowsItsExit, CoolsByExit
<1> QED BY <1>1, <1>2, <1>3, <1>4, PTL DEF Spec

=============================================================================
