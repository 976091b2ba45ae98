------------------------ MODULE ChatDispatch_proofs -------------------------
(***************************************************************************)
(* Proofs about ChatDispatch, for every value of the constants: its type   *)
(* invariant, the accounting of in-flight slots, what the two passes of    *)
(* one request may try, the hint of a request that tried nothing, and the  *)
(* two sliding windows that all requests share, the rate window of a       *)
(* provider and the failure window of a circuit's breaker.                 *)
(***************************************************************************)
EXTENDS ChatDispatch, FiniteSetTheorems, SequenceTheorems, TLAPS

-----------------------------------------------------------------------------
(* Operators of CircuitStore.                                              *)

LEMMA UpTo == ASSUME NEW n \in Nat
              PROVE  IsFiniteSet(1 .. n) /\ Cardinality(1 .. n) = n
BY FS_Interval

LEMMA WithinType ==
    ASSUME NEW ages \in Seq(Nat), NEW window \in Nat
    PROVE  Within(ages, window) \in Seq(Nat)
<1> DEFINE expired == {i \in DOMAIN ages : ages[i] > window}
           n == Cardinality(expired)
<1>1. Len(ages) \in Nat /\ DOMAIN ages = 1 .. Len(ages)
  OBVIOUS
<1>2. IsFiniteSet(1 .. Len(ages)) /\ Cardinality(1 .. Len(ages)) = Len(ages)
  BY <1>1, UpTo
<1>3. n \in Nat /\ n <= Len(ages)
  <2>1. expired \in SUBSET (1 .. Len(ages))
    BY <1>1
  <2> QED BY <1>2, <2>1, FS_Subset, FS_CardinalityType
<1> HIDE DEF n
<1>4. n + 1 \in 1 .. Len(ages) + 1 /\ Len(ages) \in (n + 1) - 1 .. Len(ages)
  BY <1>1, <1>3
<1>5. SubSeq(ages, n + 1, Len(ages)) \in Seq(Nat)
  BY <1>4, SubSeqProperties
<1> QED BY <1>5 DEF Within, n

LEMMA OlderType ==
    ASSUME NEW ages \in Seq(Nat), NEW window \in Nat
    PROVE  Older(ages, window) \in Seq(Nat)
<1>1. Len(ages) \in Nat /\ DOMAIN ages = 1 .. Len(ages)
  OBVIOUS
<1>2. \A i \in 1 .. Len(ages) : Least(ages[i] + 1, window + 1) \in Nat
  BY DEF Least
<1>3. Older(ages, window) \in [1 .. Len(ages) -> Nat]
  BY <1>1, <1>2 DEF Older
<1> QED BY <1>1, <1>3, SeqDef

LEMMA LeftType == ASSUME NEW n \in Nat PROVE Left(n) \in Nat
BY DEF Left, Most

(* The operations on a key's health keep its type, and only the two that   *)
(* are meant to move its in-flight count.                                  *)
LEMMA HealthType ==
    ASSUME NEW h \in Health
    PROVE  /\ SlotTaken(h) \in Health /\ SlotTaken(h).inFlight = h.inFlight + 1
           /\ SlotReleased(h) \in Health
           /\ h.inFlight > 0 => SlotReleased(h).inFlight = h.inFlight - 1
           /\ AfterSuccess(h) \in Health /\ AfterSuccess(h).inFlight = h.inFlight
           /\ HealthAged(h) \in Health /\ HealthAged(h).inFlight = h.inFlight
<1>1. /\ SlotTaken(h) \in Health /\ SlotTaken(h).inFlight = h.inFlight + 1
      /\ SlotReleased(h) \in Health
      /\ h.inFlight > 0 => SlotReleased(h).inFlight = h.inFlight - 1
  BY DEF SlotTaken, SlotReleased, Health, Most
<1>2. AfterSuccess(h) \in Health /\ AfterSuccess(h).inFlight = h.inFlight
  <2>1. Healthy \in Health
    BY EmptySeq DEF Healthy, Health
  <2> QED BY <2>1 DEF AfterSuccess, Health
<1>3. HealthAged(h) \in Health /\ HealthAged(h).inFlight = h.inFlight
  <2>1. Older(h.failures, BreakerWindow) \in Seq(Nat)
    BY OlderType, CircuitAssumption DEF Health
  <2>2. Left(h.cooldown) \in Nat /\ Left(h.breaker) \in Nat
    BY LeftType DEF Health
  <2> QED BY <2>1, <2>2 DEF HealthAged, Health
<1> QED BY <1>1, <1>2, <1>3

LEMMA FailureType ==
    ASSUME NEW h \in Health, NEW kind \in Kinds
    PROVE  AfterFailure(h, kind) \in Health /\ AfterFailure(h, kind).inFlight = h.inFlight
<1>1. NextLevel(h, kind) \in Nat
  BY CircuitAssumption DEF NextLevel, Least, Health
<1>2. Cooldown(h, kind) \in Nat
  <2>1. CASE kind \in Transient
    <3>1. Least(NextLevel(h, kind), BackoffMaxLevel) \in 0 .. BackoffMaxLevel
      BY <1>1, CircuitAssumption DEF Least
    <3>2. 2 ^ Least(NextLevel(h, kind), BackoffMaxLevel) \in Nat
      BY <3>1, CircuitAssumption
    <3>3. Backoff(NextLevel(h, kind)) \in Nat
      BY <3>2, CircuitAssumption DEF Backoff, Least
    <3> QED BY <2>1, <3>3 DEF Cooldown
  <2>2. CASE kind \notin Transient
    BY <2>2, CircuitAssumption DEF Cooldown
  <2> QED BY <2>1, <2>2
<1>3. Append(h.failures, 0) \in Seq(Nat)
  BY DEF Health
<1>4. Counted(h) \in Seq(Nat)
  BY <1>3, WithinType, CircuitAssumption DEF Counted
<1>5. BreakerCooldown \in Nat
  BY CircuitAssumption
<1> DEFINE trips == Len(Counted(h)) >= BreakerThreshold
           failures == IF trips THEN << >> ELSE Counted(h)
           breaker == IF trips THEN BreakerCooldown ELSE h.breaker
<1>6. failures \in Seq(Nat) /\ breaker \in Nat
  BY <1>4, <1>5, EmptySeq DEF Health
<1>7. AfterFailure(h, kind) = [h EXCEPT !.level = NextLevel(h, kind),
                                        !.cooldown = Cooldown(h, kind),
                                        !.failures = failures, !.breaker = breaker]
  BY DEF AfterFailure, Health
<1> HIDE DEF failures, breaker
<1> QED BY <1>1, <1>2, <1>6, <1>7 DEF Health

LEMMA PauseType == ASSUME NEW kind \in Kinds PROVE ModelCooldown(kind) \in Nat
BY CircuitAssumption DEF ModelCooldown, Kinds, Transient

-----------------------------------------------------------------------------
(* The type invariant.                                                     *)

(* A request that stands at a candidate has not run off its chain. *)
Standing == {"queued", "admitted", "flying", "landed"}
Placed == \A r \in Requests : req[r].phase \in Standing => ~ChainEnded(r)

IType == TypeOK /\ Placed

LEMMA ChainType ==
    ASSUME NEW r \in Requests
    PROVE  /\ Len(ChainOf[r]) \in Nat \ {0}
           /\ DOMAIN ChainOf[r] = 1 .. Len(ChainOf[r])
           /\ \A i \in 1 .. Len(ChainOf[r]) : ChainOf[r][i] \in Candidates
<1> DEFINE chain == ChainOf[r]
<1>1. chain \in Seq(Range(chain)) /\ chain # << >>
  BY DispatchAssumption
<1>2. Len(chain) \in Nat /\ DOMAIN chain = 1 .. Len(chain)
  BY <1>1, LenProperties
<1>3. Len(chain) # 0
  BY <1>1, EmptySeq
<1>4. \A i \in 1 .. Len(chain) : chain[i] \in Range(chain)
  BY <1>2 DEF Range
<1> QED BY <1>2, <1>3, <1>4 DEF Candidates

LEMMA CandType ==
    ASSUME TypeOK, NEW r \in Requests, ~ChainEnded(r)
    PROVE  /\ req[r].at \in 1 .. Len(ChainOf[r])
           /\ Cand(r) \in Candidates
           /\ Cand(r).provider \in Providers
<1>1. req[r].at \in Nat \ {0}
  BY DEF TypeOK, Request
<1>2. req[r].at \in 1 .. Len(ChainOf[r])
  BY <1>1, ChainType DEF ChainEnded
<1> QED BY <1>2, ChainType DEF Cand, Providers

LEMMA PoolType ==
    ASSUME TypeOK, NEW p \in Providers
    PROVE  p \in Keys /\ Range(pool[p]) \subseteq Keys
<1>1. pool[p] \in PoolChoices[p]
  BY DEF TypeOK, Pools
<1> QED BY <1>1 DEF Keys, Accounts

LEMMA IdleType ==
    ASSUME NEW r \in Requests
    PROVE  Idle \in Request
<1>1. ChainOf[r][1] \in Candidates
  BY ChainType
<1>2. Keys # {}
  BY <1>1 DEF Keys, Providers
<1> DEFINE key == CHOOSE k \in Keys : TRUE
<1>3. key \in Keys
  BY <1>2
<1>4. /\ {} \in SUBSET Candidates /\ {} \in SUBSET Providers
      /\ {} \in SUBSET Turns /\ {} \in SUBSET Nat
  OBVIOUS
<1>5. Idle.key = key
  BY DEF Idle
<1> HIDE DEF key
<1> QED BY <1>3, <1>4, <1>5 DEF Idle, Request, Phases

(* Setting one field of a request to a value of its type. *)
LEMMA FieldType ==
    ASSUME NEW q \in Request
    PROVE  /\ \A x \in Phases : [q EXCEPT !.phase = x] \in Request
           /\ \A x \in {0, 1} : [q EXCEPT !.pass = x] \in Request
           /\ \A x \in Nat \ {0} : [q EXCEPT !.at = x] \in Request
           /\ \A x \in Nat : [q EXCEPT !.attempts = x] \in Request
           /\ \A x \in SUBSET Candidates : [q EXCEPT !.soft = x] \in Request
           /\ \A x \in SUBSET Providers : [q EXCEPT !.probed = x] \in Request
           /\ \A x \in Keys : [q EXCEPT !.key = x] \in Request
           /\ \A x \in Answers \cup {Ok} : [q EXCEPT !.answer = x] \in Request
           /\ \A x \in Nat : [q EXCEPT !.left = x] \in Request
           /\ \A x \in Nat : [q EXCEPT !.wait = x] \in Request
           /\ \A x \in Nat : [q EXCEPT !.sleep = x] \in Request
           /\ \A x \in BOOLEAN : [q EXCEPT !.starved = x] \in Request
           /\ \A x \in BOOLEAN : [q EXCEPT !.hinted = x] \in Request
           /\ \A x \in SUBSET Nat : [q EXCEPT !.hard = x] \in Request
           /\ \A x \in SUBSET Turns : [q EXCEPT !.sent = x] \in Request
BY DEF Request

(* The types of the fields. *)
LEMMA RequestFields ==
    ASSUME NEW q \in Request
    PROVE  /\ q.phase \in Phases /\ q.pass \in {0, 1} /\ q.at \in Nat \ {0}
           /\ q.attempts \in Nat /\ q.soft \in SUBSET Candidates
           /\ q.probed \in SUBSET Providers /\ q.key \in Keys
           /\ q.answer \in Answers \cup {Ok} /\ q.left \in Nat /\ q.wait \in Nat
           /\ q.sleep \in Nat /\ q.starved \in BOOLEAN /\ q.hinted \in BOOLEAN
           /\ q.hard \in SUBSET Nat /\ q.sent \in SUBSET Turns
BY DEF Request

LEMMA WalkingType ==
    ASSUME NEW q \in Request
    PROVE  Walking(q) \in Request /\ Walking(q).phase = "choosing"
<1> DEFINE moved == [q EXCEPT !.phase = "choosing"]
<1>1. moved \in Request
  BY FieldType DEF Phases
<1>2. q.at + 1 \in Nat \ {0}
  BY RequestFields
<1>3. [moved EXCEPT !.at = q.at + 1] \in Request
  BY <1>1, <1>2, FieldType
<1>4. Walking(q) = [moved EXCEPT !.at = q.at + 1]
  BY DEF Walking
<1>5. Walking(q).phase = "choosing"
  BY DEF Walking, Request
<1> QED BY <1>3, <1>4, <1>5

LEMMA SkippedType ==
    ASSUME TypeOK, NEW r \in Requests, ~ChainEnded(r)
    PROVE  /\ Declined(r) \in Request /\ Declined(r).phase = "choosing"
           /\ Barred(r) \in Request /\ Barred(r).phase = "choosing"
<1>1. req[r] \in Request
  BY DEF TypeOK
<1>2. /\ req[r].soft \cup {Cand(r)} \in SUBSET Candidates
      /\ req[r].hard \cup {req[r].at} \in SUBSET Nat
  BY <1>1, CandType, RequestFields
<1>3. /\ [req[r] EXCEPT !.soft = @ \cup {Cand(r)}] \in Request
      /\ [req[r] EXCEPT !.hard = @ \cup {req[r].at}] \in Request
  BY <1>1, <1>2, FieldType
<1> QED BY <1>3, WalkingType DEF Declined, Barred

LEMMA AttemptedType ==
    ASSUME TypeOK, NEW r \in Requests
    PROVE  /\ Attempted(r) \in Request
           /\ \A k \in Keys : /\ Flying(r, k) \in Request
                              /\ Flying(r, k).phase = "flying"
                              /\ Flying(r, k).key = k
                              /\ Flying(r, k).at = req[r].at
<1> DEFINE counted == [req[r] EXCEPT !.attempts = @ + 1]
<1>1. req[r] \in Request
  BY DEF TypeOK
<1>2. <<req[r].pass, req[r].at>> \in Turns /\ req[r].attempts + 1 \in Nat
  BY <1>1, RequestFields DEF Turns
<1>3. req[r].sent \cup {<<req[r].pass, req[r].at>>} \in SUBSET Turns
  BY <1>1, <1>2, RequestFields
<1>4. counted \in Request
  BY <1>1, <1>2, FieldType
<1>5. [counted EXCEPT !.sent = req[r].sent \cup {<<req[r].pass, req[r].at>>}] \in Request
  BY <1>3, <1>4, FieldType
<1>6. Attempted(r) \in Request
  BY <1>5 DEF Attempted
<1>7. Attempted(r).at = req[r].at
  BY <1>1 DEF Attempted, Request
<1>8. ASSUME NEW k \in Keys
      PROVE  /\ Flying(r, k) \in Request
             /\ Flying(r, k).phase = "flying"
             /\ Flying(r, k).key = k
             /\ Flying(r, k).at = req[r].at
  <2> DEFINE up == [Attempted(r) EXCEPT !.phase = "flying"]
  <2>1. up \in Request
    BY <1>6, FieldType DEF Phases
  <2>3. up.phase = "flying" /\ up.at = req[r].at
    BY <1>6, <1>7 DEF Request
  <2>2. Flying(r, k) = [up EXCEPT !.key = k]
    BY DEF Flying
  <2> HIDE DEF up
  <2>4. Flying(r, k) \in Request
    BY <2>1, <2>2, FieldType
  <2>5. Flying(r, k).phase = "flying" /\ Flying(r, k).key = k /\ Flying(r, k).at = req[r].at
    BY <2>1, <2>2, <2>3 DEF Request
  <2> QED BY <2>4, <2>5
<1> QED BY <1>6, <1>8

-----------------------------------------------------------------------------
(* What each action does to the requests and to the slots.                 *)

QuietWalk(r) ==
    \/ Arrive(r) \/ SkipUnknown(r) \/ SkipUnavailable(r) \/ SkipCooling(r)
    \/ SkipExhausted(r) \/ Admit(r) \/ StartProbing(r) \/ Probe(r)
    \/ RefuseLocally(r) \/ BookNeutral(r) \/ Fail(r)

(* Most steps of a request change nothing but its own record, and do not   *)
(* concern an in-flight request.                                           *)
Moves(r, q) ==
    /\ q \in Request
    /\ req' = [req EXCEPT ![r] = q]
    /\ q.phase \in Standing => q.at <= Len(ChainOf[r])

Grounded(r, q) == Moves(r, q) /\ req[r].phase # "flying" /\ q.phase # "flying"

LEMMA QuietSteps ==
    ASSUME IType, NEW r \in Requests, QuietWalk(r)
    PROVE  UNCHANGED Shared /\ \E q : Grounded(r, q)
<1>1. req[r] \in Request
  BY DEF IType, TypeOK
<1>2. ASSUME NEW q \in Request, req' = [req EXCEPT ![r] = q], req[r].phase # "flying",
             q.phase \notin Standing
      PROVE  Grounded(r, q)
  BY <1>2 DEF Grounded, Moves, Standing
<1>3. CASE Arrive(r)
  <2> DEFINE q == [Idle EXCEPT !.phase = "choosing", !.left = Deadline]
  <2>1. q \in Request /\ q.phase = "choosing"
    <3>1. Idle \in Request /\ Deadline \in Nat
      BY IdleType, DispatchAssumption
    <3>2. [Idle EXCEPT !.phase = "choosing"] \in Request
      BY <3>1, FieldType DEF Phases
    <3>3. q \in Request
      BY <3>1, <3>2, FieldType
    <3> QED BY <3>1, <3>3 DEF Request
  <2> HIDE DEF q
  <2>2. req' = [req EXCEPT ![r] = q] /\ UNCHANGED Shared /\ req[r].phase # "flying"
    BY <1>3 DEF Arrive, q
  <2> QED BY <1>2, <2>1, <2>2 DEF Standing
<1>4. CASE SkipUnknown(r) \/ BookNeutral(r)
  <2>1. /\ req' = [req EXCEPT ![r] = Walking(req[r])] /\ UNCHANGED Shared
        /\ req[r].phase # "flying"
    BY <1>4 DEF SkipUnknown, BookNeutral, Choosing
  <2> QED BY <1>1, <1>2, <2>1, WalkingType DEF Standing
<1>5. CASE SkipUnavailable(r) \/ SkipCooling(r) \/ SkipExhausted(r)
  <2>1. UNCHANGED Shared /\ req[r].phase # "flying" /\ ~ChainEnded(r)
    BY <1>5 DEF SkipUnavailable, SkipCooling, SkipExhausted, Considered, Choosing
  <2>2. \/ req' = [req EXCEPT ![r] = Declined(r)]
        \/ req' = [req EXCEPT ![r] = Barred(r)]
    BY <1>5 DEF SkipUnavailable, SkipCooling, SkipExhausted
  <2> QED BY <1>2, <2>1, <2>2, SkippedType DEF IType, Standing
<1>6. CASE Admit(r)
  <2> DEFINE queued == [req[r] EXCEPT !.phase = "queued", !.wait = MaxWait, !.sleep = 0]
             admitted == [req[r] EXCEPT !.phase = "admitted"]
  <2>1. UNCHANGED Shared /\ req[r].phase # "flying" /\ ~ChainEnded(r)
    BY <1>6 DEF Admit, Considered, Choosing
  <2>2. /\ queued \in Request /\ queued.at = req[r].at /\ queued.phase = "queued"
        /\ admitted \in Request /\ admitted.at = req[r].at /\ admitted.phase = "admitted"
    <3>1. [req[r] EXCEPT !.phase = "queued"] \in Request /\ MaxWait \in Nat
      BY <1>1, FieldType, DispatchAssumption DEF Phases
    <3>2. [req[r] EXCEPT !.phase = "queued", !.wait = MaxWait] \in Request
      BY <3>1, FieldType
    <3>3. queued \in Request
      BY <3>2, FieldType
    <3>4. admitted \in Request
      BY <1>1, FieldType DEF Phases
    <3> QED BY <1>1, <3>3, <3>4 DEF Request
  <2> HIDE DEF queued, admitted
  <2>3. req' = [req EXCEPT ![r] = queued] \/ req' = [req EXCEPT ![r] = admitted]
    BY <1>6 DEF Admit, queued, admitted
  <2>4. req[r].at <= Len(ChainOf[r])
    BY <2>1, CandType DEF IType
  <2> QED BY <2>1, <2>2, <2>3, <2>4 DEF Grounded, Moves
<1>7. CASE StartProbing(r)
  <2> DEFINE q == [req[r] EXCEPT !.pass = 1, !.at = 1]
  <2>1. q \in Request /\ q.phase = "choosing"
    <3>1. [req[r] EXCEPT !.pass = 1] \in Request
      BY <1>1, FieldType
    <3>2. 1 \in Nat \ {0}
      OBVIOUS
    <3>3. [[req[r] EXCEPT !.pass = 1] EXCEPT !.at = 1] \in Request
      BY <3>1, <3>2, FieldType
    <3>4. q.phase = req[r].phase
      BY <1>1 DEF Request
    <3> QED BY <1>7, <3>3, <3>4 DEF StartProbing
  <2>2. req' = [req EXCEPT ![r] = q] /\ UNCHANGED Shared /\ req[r].phase # "flying"
    BY <1>1, <1>7 DEF StartProbing, IType, TypeOK
  <2> HIDE DEF q
  <2> QED BY <1>2, <2>1, <2>2 DEF Standing
<1>8. CASE Probe(r)
  <2> DEFINE q == Probing(r)
  <2>1. UNCHANGED Shared /\ req[r].phase # "flying" /\ ~ChainEnded(r)
    BY <1>8 DEF Probe, Choosing
  <2>2. q \in Request /\ q.at = req[r].at /\ q.phase = "admitted"
    <3>1. req[r].probed \cup {Cand(r).provider} \in SUBSET Providers
      BY <1>1, <2>1, CandType, RequestFields DEF IType
    <3>2. [req[r] EXCEPT !.probed = @ \cup {Cand(r).provider}] \in Request
      BY <1>1, <3>1, FieldType
    <3>3. q \in Request
      BY <3>2, FieldType DEF Phases, Probing
    <3> QED BY <1>1, <3>3 DEF Request, Probing
  <2> HIDE DEF q
  <2>3. req' = [req EXCEPT ![r] = q] \/ req' = [req EXCEPT ![r] = Walking(req[r])]
    BY <1>8 DEF Probe, q
  <2>4. req[r].at <= Len(ChainOf[r])
    BY <2>1, CandType DEF IType
  <2>5. CASE req' = [req EXCEPT ![r] = q]
    BY <2>1, <2>2, <2>4, <2>5 DEF Grounded, Moves
  <2>6. CASE req' = [req EXCEPT ![r] = Walking(req[r])]
    BY <1>1, <1>2, <2>1, <2>6, WalkingType DEF Standing
  <2> QED BY <2>1, <2>3, <2>5, <2>6
<1>9. CASE RefuseLocally(r)
  <2>1. /\ req' = [req EXCEPT ![r] = Walking(Attempted(r))] /\ UNCHANGED Shared
        /\ req[r].phase # "flying"
    BY <1>9 DEF RefuseLocally
  <2>2. Attempted(r) \in Request
    BY AttemptedType DEF IType
  <2> QED BY <1>2, <2>1, <2>2, WalkingType DEF Standing
<1>10. CASE Fail(r)
  <2> DEFINE q == [Idle EXCEPT !.phase = "failed", !.attempts = req[r].attempts,
                               !.hinted = Hinted(r)]
  <2>1. q \in Request /\ q.phase = "failed"
    <3>1. Idle \in Request /\ req[r].attempts \in Nat
      BY <1>1, IdleType, RequestFields
    <3>2. Hinted(r) \in BOOLEAN
      BY DEF Hinted
    <3>3. [Idle EXCEPT !.phase = "failed"] \in Request
      BY <3>1, FieldType DEF Phases
    <3>4. [Idle EXCEPT !.phase = "failed", !.attempts = req[r].attempts] \in Request
      BY <3>1, <3>3, FieldType
    <3>5. q \in Request
      BY <3>2, <3>4, FieldType
    <3> QED BY <3>1, <3>5 DEF Request
  <2> HIDE DEF q
  <2>2. req' = [req EXCEPT ![r] = q] /\ UNCHANGED Shared /\ req[r].phase # "flying"
    BY <1>10 DEF Fail, q
  <2> QED BY <1>2, <2>1, <2>2 DEF Standing
<1> QED BY <1>3, <1>4, <1>5, <1>6, <1>7, <1>8, <1>9, <1>10 DEF QuietWalk

LEMMA MovesType ==
    ASSUME IType, NEW r \in Requests, NEW q, Moves(r, q)
    PROVE  req' \in [Requests -> Request] /\ Placed'
<1>1. req \in [Requests -> Request]
  BY DEF IType, TypeOK
<1>2. req' \in [Requests -> Request]
  BY <1>1 DEF Moves
<1>3. ASSUME NEW s \in Requests, req'[s].phase \in Standing
      PROVE  ~(req'[s].at > Len(ChainOf[s]))
  <2>1. CASE s = r
    <3>1. req'[s] = q
      BY <1>1, <2>1 DEF Moves
    <3>2. q.at \in Nat
      BY RequestFields DEF Moves
    <3> QED BY <1>3, <2>1, <3>1, <3>2, ChainType DEF Moves
  <2>2. CASE s # r
    <3>1. req'[s] = req[s]
      BY <1>1, <2>2 DEF Moves
    <3> QED BY <1>3, <3>1 DEF IType, Placed, ChainEnded
  <2> QED BY <2>1, <2>2
<1>4. Placed'
  BY <1>3 DEF Placed, ChainEnded
<1> QED BY <1>2, <1>4

LEMMA PermitStep ==
    ASSUME IType, NEW r \in Requests, Permit(r)
    PROVE  /\ \E q : Grounded(r, q)
           /\ hits' \in [Providers -> Seq(Nat)]
           /\ UNCHANGED <<health, modelCool, acctCool, pool, cursor, gate, strikes>>
<1> DEFINE p == Cand(r).provider
           recent == Recent(hits[p])
           granted == [req[r] EXCEPT !.phase = "admitted", !.wait = 0]
<1>1. /\ req[r] \in Request /\ req \in [Requests -> Request]
      /\ hits \in [Providers -> Seq(Nat)] /\ req[r].phase = "queued"
  BY DEF IType, TypeOK, Permit
<1>2. ~ChainEnded(r) /\ TypeOK
  BY <1>1 DEF IType, Placed, Standing
<1>3. p \in Providers /\ req[r].at <= Len(ChainOf[r])
  BY <1>2, CandType
<1>4. recent \in Seq(Nat)
  BY <1>1, <1>3, WithinType, CircuitAssumption DEF Recent
<1>5. granted \in Request /\ granted.at = req[r].at /\ granted.phase = "admitted"
  <2>1. [req[r] EXCEPT !.phase = "admitted"] \in Request /\ 0 \in Nat
    BY <1>1, FieldType DEF Phases
  <2>2. granted \in Request
    BY <2>1, FieldType
  <2> QED BY <1>1, <2>2 DEF Request
<1>6. /\ AfterRefusal(r, recent) \in Request
      /\ \/ AfterRefusal(r, recent).phase = "choosing"
         \/ /\ AfterRefusal(r, recent).phase = "queued"
            /\ AfterRefusal(r, recent).at = req[r].at
  <2>1. CASE req[r].wait = 0
    <3>1. Declined(r) \in Request /\ Declined(r).phase = "choosing"
      BY <1>2, SkippedType
    <3>2. [Declined(r) EXCEPT !.starved = TRUE] \in Request
      BY <3>1, FieldType
    <3>3. [Declined(r) EXCEPT !.starved = TRUE].phase = "choosing"
      BY <3>1 DEF Request
    <3> QED BY <2>1, <3>2, <3>3 DEF AfterRefusal
  <2>2. CASE req[r].wait # 0
    <3> DEFINE nap == Least(Most(NextSlot(recent), 1), req[r].wait)
    <3>1. RateWindow \in Nat /\ MinInterval \in Nat /\ req[r].wait \in Nat
      BY <1>1, CircuitAssumption, RequestFields
    <3>2. NextSlot(recent) \in Nat
      <4>1. CASE recent = << >>
        <5>1. Len(recent) = 0 /\ Rpm \in Nat \ {0}
          BY <4>1, EmptySeq, CircuitAssumption
        <5>2. ~(Len(recent) >= Rpm)
          BY <5>1
        <5>3. NextSlot(recent) = Most(0, 0)
          BY <4>1, <5>2 DEF NextSlot
        <5> QED BY <5>3 DEF Most
      <4>2. CASE recent # << >>
        <5>1. Len(recent) \in Nat \ {0} /\ recent[1] \in Nat /\ recent[Len(recent)] \in Nat
          BY <1>4, <4>2, EmptySeq, LenProperties
        <5>2. Head(recent) \in Nat /\ Last(recent) \in Nat
          BY <1>4, <4>2, <5>1, HeadTailProperties DEF Last
        <5> QED BY <3>1, <5>2 DEF NextSlot, Most
      <4> QED BY <4>1, <4>2
    <3>3. nap \in Nat
      BY <3>1, <3>2 DEF Least, Most
    <3>4. [req[r] EXCEPT !.sleep = nap] \in Request
      BY <1>1, <3>3, FieldType
    <3>5. /\ [req[r] EXCEPT !.sleep = nap].phase = "queued"
          /\ [req[r] EXCEPT !.sleep = nap].at = req[r].at
      BY <1>1 DEF Request
    <3> QED BY <2>2, <3>4, <3>5 DEF AfterRefusal
  <2> QED BY <2>1, <2>2
<1>7. CASE Admits(hits[p])
  <2>1. hits' = [hits EXCEPT ![p] = Append(recent, 0)]
    BY <1>7 DEF Permit
  <2>2. req' = [req EXCEPT ![r].phase = "admitted", ![r].wait = 0]
    BY <1>7 DEF Permit
  <2>3. req' = [req EXCEPT ![r] = granted]
    BY <1>1, <2>2
  <2>4. Append(recent, 0) \in Seq(Nat)
    BY <1>4
  <2> HIDE DEF granted, recent
  <2>5. hits' \in [Providers -> Seq(Nat)]
    BY <1>1, <2>1, <2>4
  <2>6. Grounded(r, granted)
    BY <1>1, <1>3, <1>5, <2>3 DEF Grounded, Moves
  <2> QED BY <2>5, <2>6 DEF Permit
<1>8. CASE ~Admits(hits[p])
  <2>1. /\ hits' = [hits EXCEPT ![p] = recent]
        /\ req' = [req EXCEPT ![r] = AfterRefusal(r, recent)]
    BY <1>8 DEF Permit
  <2> HIDE DEF recent
  <2>2. hits' \in [Providers -> Seq(Nat)]
    BY <1>1, <1>4, <2>1
  <2>3. Grounded(r, AfterRefusal(r, recent))
    BY <1>1, <1>3, <1>6, <2>1 DEF Grounded, Moves, Standing
  <2> QED BY <2>2, <2>3 DEF Permit
<1> QED BY <1>7, <1>8

(* A request takes a slot on key k and becomes the flight q. *)
TakesSlot(r, q) ==
    /\ Moves(r, q) /\ req[r].phase # "flying" /\ q.phase = "flying"
    /\ health' = [health EXCEPT ![q.key] = SlotTaken(@)]

LEMMA SendStep ==
    ASSUME IType, NEW r \in Requests, Send(r) \/ SendFreeLane(r)
    PROVE  \E q : TakesSlot(r, q)
<1>1. /\ req[r].phase = "admitted" /\ TypeOK
  BY DEF Send, SendFreeLane, IType
<1>2. ~ChainEnded(r)
  BY <1>1 DEF IType, Placed, Standing
<1>3. Cand(r).provider \in Providers /\ req[r].at <= Len(ChainOf[r])
  BY <1>1, <1>2, CandType
<1>4. PICK k \in Keys : /\ health' = [health EXCEPT ![k] = SlotTaken(@)]
                        /\ req' = [req EXCEPT ![r] = Flying(r, k)]
  <2>1. Picked(Cand(r)) \subseteq Keys /\ LaneKeys(Cand(r)) \subseteq Keys
    BY <1>1, <1>3, PoolType DEF Picked, Rotation, LaneKeys
  <2> QED BY <2>1 DEF Send, SendFreeLane
<1>5. /\ Flying(r, k) \in Request /\ Flying(r, k).phase = "flying"
      /\ Flying(r, k).key = k /\ Flying(r, k).at = req[r].at
  BY <1>1, AttemptedType
<1> QED BY <1>1, <1>3, <1>4, <1>5 DEF TakesSlot, Moves

(* A request moves its flight, and its slot, to another key. *)
MovesSlot(r, q) ==
    /\ Moves(r, q) /\ req[r].phase = "flying" /\ q.phase = "flying" /\ q.key # req[r].key
    /\ health' = [health EXCEPT ![req[r].key] = SlotReleased(@), ![q.key] = SlotTaken(@)]

LEMMA SwitchStep ==
    ASSUME IType, NEW r \in Requests, SwitchCredential(r)
    PROVE  \E q : MovesSlot(r, q)
<1>1. /\ req[r].phase = "flying" /\ TypeOK /\ req[r] \in Request
      /\ req \in [Requests -> Request]
  BY DEF SwitchCredential, IType, TypeOK
<1>2. ~ChainEnded(r)
  BY <1>1 DEF IType, Placed, Standing
<1>3. Cand(r).provider \in Providers /\ req[r].at <= Len(ChainOf[r])
  BY <1>1, <1>2, CandType
<1>4. PICK k \in Keys :
         /\ k # req[r].key
         /\ health' = [health EXCEPT ![req[r].key] = SlotReleased(@), ![k] = SlotTaken(@)]
         /\ req' = [req EXCEPT ![r].key = k]
  <2>1. LaneKeys(Cand(r)) \subseteq Keys
    BY <1>1, <1>3, PoolType DEF LaneKeys
  <2> QED BY <2>1 DEF SwitchCredential
<1> DEFINE q == [req[r] EXCEPT !.key = k]
<1>5. q \in Request
  BY <1>1, FieldType
<1>6. q.phase = "flying" /\ q.key = k /\ q.at = req[r].at
  BY <1>1 DEF Request
<1>7. req' = [req EXCEPT ![r] = q]
  BY <1>1, <1>4
<1> HIDE DEF q
<1> QED BY <1>1, <1>3, <1>4, <1>5, <1>6, <1>7 DEF MovesSlot, Moves

(* A request ends its flight and gives its slot back. *)
FreesSlot(r, q) ==
    /\ Moves(r, q) /\ req[r].phase = "flying" /\ q.phase # "flying"
    /\ health' = [health EXCEPT ![req[r].key] = SlotReleased(@)]

LEMMA LandStep ==
    ASSUME IType, NEW r \in Requests, NEW answer \in Answers, Land(r, answer)
    PROVE  \E q : FreesSlot(r, q)
<1>1. /\ req[r].phase = "flying" /\ TypeOK /\ req[r] \in Request
      /\ req \in [Requests -> Request]
  BY DEF Land, IType, TypeOK
<1>2. req[r].at <= Len(ChainOf[r])
  BY <1>1, CandType DEF IType, Placed, Standing
<1> DEFINE q == [req[r] EXCEPT !.phase = "landed", !.answer = answer]
<1>3. q \in Request
  <2>1. [req[r] EXCEPT !.phase = "landed"] \in Request
    BY <1>1, FieldType DEF Phases
  <2> QED BY <2>1, FieldType
<1>4. q.phase = "landed" /\ q.at = req[r].at
  BY <1>1 DEF Request
<1>5. req' = [req EXCEPT ![r] = q]
  BY <1>1 DEF Land
<1> HIDE DEF q
<1> QED BY <1>1, <1>2, <1>3, <1>4, <1>5 DEF FreesSlot, Moves, Land

LEMMA CancelStep ==
    ASSUME IType, NEW r \in Requests, Cancel(r)
    PROVE  \E q : FreesSlot(r, q) \/ (Grounded(r, q) /\ health' = health)
<1>1. Idle \in Request /\ Idle.phase = "idle"
  BY IdleType DEF Idle
<1>2. Moves(r, Idle)
  BY <1>1 DEF Cancel, Moves, Standing
<1>3. CASE req[r].phase = "flying"
  BY <1>1, <1>2, <1>3 DEF Cancel, FreesSlot
<1>4. CASE req[r].phase # "flying"
  BY <1>1, <1>2, <1>4 DEF Cancel, Grounded
<1> QED BY <1>3, <1>4

(* A request books a verdict that leaves every in-flight count alone. *)
Books(r) ==
    /\ \E q : Grounded(r, q)
    /\ health' \in [Keys -> Health]
    /\ \A k \in Keys : health'[k].inFlight = health[k].inFlight

LEMMA BookStep ==
    ASSUME IType, NEW r \in Requests,
           BookSuccess(r) \/ BookFailure(r) \/ BookModelFailure(r)
    PROVE  /\ Books(r)
           /\ modelCool' \in [Candidates -> Nat]
           /\ acctCool' \in [Candidates -> [Keys -> Nat]]
           /\ strikes' \in [Keys -> Seq(Nat)]
<1>1. /\ req[r].phase = "landed" /\ TypeOK /\ req[r] \in Request
      /\ req \in [Requests -> Request] /\ health \in [Keys -> Health]
      /\ strikes \in [Keys -> Seq(Nat)] /\ req[r].key \in Keys
      /\ modelCool \in [Candidates -> Nat] /\ acctCool \in [Candidates -> [Keys -> Nat]]
  BY RequestFields DEF BookSuccess, BookFailure, BookModelFailure, IType, TypeOK
<1>2. ~ChainEnded(r)
  BY <1>1 DEF IType, Placed, Standing
<1>3. Walking(req[r]) \in Request /\ Walking(req[r]).phase = "choosing"
  BY <1>1, WalkingType
<1>4. CASE BookSuccess(r)
  <2> DEFINE q == [Idle EXCEPT !.phase = "served"]
             h == AfterSuccess(health[req[r].key])
  <2>1. q \in Request /\ q.phase = "served"
    <3>1. Idle \in Request
      BY IdleType
    <3>2. q \in Request
      BY <3>1, FieldType DEF Phases
    <3> QED BY <3>1, <3>2 DEF Request
  <2>2. h \in Health /\ h.inFlight = health[req[r].key].inFlight
    BY <1>1, HealthType
  <2>3. /\ req' = [req EXCEPT ![r] = q]
        /\ health' = [health EXCEPT ![req[r].key] = h]
        /\ strikes' = [strikes EXCEPT ![req[r].key] = << >>]
        /\ UNCHANGED <<modelCool, acctCool>>
    BY <1>4 DEF BookSuccess
  <2> HIDE DEF q, h
  <2>4. Grounded(r, q)
    BY <1>1, <2>1, <2>3 DEF Grounded, Moves, Standing
  <2>5. strikes' \in [Keys -> Seq(Nat)]
    BY <1>1, <2>3, EmptySeq
  <2>6. /\ health' \in [Keys -> Health]
        /\ \A k \in Keys : health'[k].inFlight = health[k].inFlight
    BY <1>1, <2>2, <2>3
  <2> QED BY <1>1, <2>3, <2>4, <2>5, <2>6 DEF Books
<1>5. CASE BookFailure(r)
  <2> DEFINE h == AfterFailure(health[req[r].key], req[r].answer.kind)
             row == Latest(Append(strikes[req[r].key], 0))
  <2>1. h \in Health /\ h.inFlight = health[req[r].key].inFlight
    <3>1. req[r].answer.kind \in Kinds
      BY <1>5 DEF BookFailure, Failures
    <3> QED BY <1>1, <3>1, FailureType
  <2>2. row \in Seq(Nat)
    <3>1. Append(strikes[req[r].key], 0) \in Seq(Nat)
      BY <1>1
    <3>2. Len(Append(strikes[req[r].key], 0)) > BreakerThreshold =>
             Append(strikes[req[r].key], 0) # << >>
      BY EmptySeq, CircuitAssumption
    <3> QED BY <3>1, <3>2, HeadTailProperties DEF Latest
  <2>3. /\ req' = [req EXCEPT ![r] = Walking(req[r])]
        /\ health' = [health EXCEPT ![req[r].key] = h]
        /\ strikes' = [strikes EXCEPT ![req[r].key] = row]
        /\ UNCHANGED <<modelCool, acctCool>>
    BY <1>5 DEF BookFailure
  <2> HIDE DEF h, row
  <2>4. Grounded(r, Walking(req[r]))
    BY <1>1, <1>3, <2>3 DEF Grounded, Moves, Standing
  <2>5. strikes' \in [Keys -> Seq(Nat)]
    BY <1>1, <2>2, <2>3
  <2>6. /\ health' \in [Keys -> Health]
        /\ \A k \in Keys : health'[k].inFlight = health[k].inFlight
    BY <1>1, <2>1, <2>3
  <2> QED BY <1>1, <2>3, <2>4, <2>5, <2>6 DEF Books
<1>6. CASE BookModelFailure(r)
  <2> DEFINE until == ModelCooldown(req[r].answer.kind)
             c == Cand(r)
  <2>1. until \in Nat
    BY <1>6, PauseType DEF BookModelFailure, ModelLevel, Failures
  <2>2. c \in Candidates
    BY <1>1, <1>2, CandType
  <2>3. /\ req' = [req EXCEPT ![r] = Walking(req[r])]
        /\ modelCool' = [modelCool EXCEPT ![c] = until]
        /\ acctCool' = [acctCool EXCEPT ![c][req[r].key] = until]
        /\ UNCHANGED <<health, strikes>>
    BY <1>6 DEF BookModelFailure
  <2> HIDE DEF until, c
  <2>4. Grounded(r, Walking(req[r]))
    BY <1>1, <1>3, <2>3 DEF Grounded, Moves, Standing
  <2>5. modelCool' \in [Candidates -> Nat] /\ acctCool' \in [Candidates -> [Keys -> Nat]]
    BY <1>1, <2>1, <2>2, <2>3
  <2> QED BY <1>1, <2>3, <2>4, <2>5 DEF Books
<1> QED BY <1>4, <1>5, <1>6

-----------------------------------------------------------------------------
(* A step of the clock, an admin or the quota refresher moves no request.  *)
StandStill ==
    /\ \A r \in Requests : /\ req'[r].phase = req[r].phase
                           /\ req'[r].key = req[r].key
                           /\ req'[r].at = req[r].at
    /\ \A k \in Keys : health'[k].inFlight = health[k].inFlight

LEMMA TickStep ==
    ASSUME IType, Tick
    PROVE  TypeOK' /\ StandStill
<1> DEFINE aged(q) == [q EXCEPT !.left = Left(@), !.wait = Left(@), !.sleep = Left(@)]
<1>1. /\ health \in [Keys -> Health] /\ modelCool \in [Candidates -> Nat]
      /\ acctCool \in [Candidates -> [Keys -> Nat]] /\ hits \in [Providers -> Seq(Nat)]
      /\ req \in [Requests -> Request] /\ strikes \in [Keys -> Seq(Nat)]
      /\ pool' \in Pools /\ cursor' \in 0 .. CursorModulus - 1 /\ gate' \in Gates
      /\ RateWindow \in Nat /\ BreakerWindow \in Nat
  BY CircuitAssumption DEF IType, TypeOK, Tick
<1>2. ASSUME NEW q \in Request
      PROVE  /\ aged(q) \in Request
             /\ aged(q).phase = q.phase /\ aged(q).key = q.key /\ aged(q).at = q.at
  <2>1. Left(q.left) \in Nat /\ Left(q.wait) \in Nat /\ Left(q.sleep) \in Nat
    BY RequestFields, LeftType
  <2>2. [q EXCEPT !.left = Left(@)] \in Request
    BY <2>1, FieldType
  <2>3. [q EXCEPT !.left = Left(@), !.wait = Left(@)] \in Request
    BY <2>1, <2>2, FieldType
  <2>4. aged(q) \in Request
    BY <2>1, <2>3, FieldType
  <2> QED BY <2>4 DEF Request
<1>3. req' = [r \in Requests |-> aged(req[r])]
  BY DEF Tick
<1> HIDE DEF aged
<1>4. /\ req' \in [Requests -> Request]
      /\ \A r \in Requests : /\ req'[r].phase = req[r].phase
                             /\ req'[r].key = req[r].key
                             /\ req'[r].at = req[r].at
  BY <1>1, <1>2, <1>3
<1>5. /\ health' \in [Keys -> Health]
      /\ \A k \in Keys : health'[k].inFlight = health[k].inFlight
  BY <1>1, HealthType DEF Tick
<1>6. modelCool' \in [Candidates -> Nat] /\ acctCool' \in [Candidates -> [Keys -> Nat]]
  BY <1>1, LeftType DEF Tick
<1>7. hits' \in [Providers -> Seq(Nat)] /\ strikes' \in [Keys -> Seq(Nat)]
  BY <1>1, OlderType DEF Tick
<1> QED BY <1>1, <1>4, <1>5, <1>6, <1>7 DEF TypeOK, StandStill

LEMMA ElsewhereStep ==
    ASSUME IType, (\E p \in Providers : RefreshPool(p)) \/ ReadQuota \/ UNCHANGED vars
    PROVE  TypeOK' /\ StandStill
<1>1. CASE \E p \in Providers : RefreshPool(p)
  <2>1. PICK p \in Providers : RefreshPool(p)
    BY <1>1
  <2>2. PICK accounts \in PoolChoices[p] : pool' = [pool EXCEPT ![p] = accounts]
    BY <2>1 DEF RefreshPool
  <2>3. pool' \in Pools
    BY <2>2 DEF IType, TypeOK, Pools
  <2>4. UNCHANGED <<health, modelCool, acctCool, hits, cursor, gate, req, strikes>>
    BY <2>1 DEF RefreshPool
  <2> QED BY <2>3, <2>4 DEF IType, TypeOK, StandStill
<1>2. CASE ReadQuota
  BY <1>2 DEF ReadQuota, IType, TypeOK, StandStill
<1>3. CASE UNCHANGED vars
  BY <1>3 DEF vars, IType, TypeOK, StandStill
<1> QED BY <1>1, <1>2, <1>3

(* What a step does to the requests and to the in-flight counts. *)
SlotStep ==
    \/ StandStill
    \/ \E r \in Requests : \E q :
          \/ TakesSlot(r, q) \/ MovesSlot(r, q) \/ FreesSlot(r, q)
          \/ /\ Grounded(r, q)
             /\ \A k \in Keys : health'[k].inFlight = health[k].inFlight

LEMMA SlotType ==
    ASSUME IType, NEW r \in Requests, NEW q,
           TakesSlot(r, q) \/ MovesSlot(r, q) \/ FreesSlot(r, q)
    PROVE  health' \in [Keys -> Health]
<1>1. health \in [Keys -> Health] /\ req[r].key \in Keys
  BY RequestFields DEF IType, TypeOK
<1>2. q.key \in Keys
  BY RequestFields DEF TakesSlot, MovesSlot, FreesSlot, Moves
<1>3. CASE TakesSlot(r, q)
  BY <1>1, <1>2, <1>3, HealthType DEF TakesSlot
<1>4. CASE MovesSlot(r, q)
  <2>1. /\ SlotReleased(health[req[r].key]) \in Health
        /\ SlotTaken(health[q.key]) \in Health
    BY <1>1, <1>2, HealthType
  <2>2. health' = [health EXCEPT ![req[r].key] = SlotReleased(health[req[r].key]),
                                 ![q.key] = SlotTaken(health[q.key])]
    BY <1>1, <1>2, <1>4 DEF MovesSlot
  <2> QED BY <1>1, <2>1, <2>2
<1>5. CASE FreesSlot(r, q)
  BY <1>1, <1>5, HealthType DEF FreesSlot
<1> QED BY <1>3, <1>4, <1>5

LEMMA CursorType ==
    ASSUME IType
    PROVE  (cursor + 1) % CursorModulus \in 0 .. CursorModulus - 1
BY DispatchAssumption DEF IType, TypeOK

(* Every step keeps the type invariant, and is one of the above. *)
LEMMA TypeStep ==
    ASSUME IType, [Next]_vars
    PROVE  IType' /\ SlotStep
<1>1. TypeOK
  BY DEF IType
<1>2. ASSUME TypeOK', StandStill
      PROVE  IType' /\ SlotStep
  BY <1>2 DEF IType, Placed, ChainEnded, StandStill, SlotStep
<1>3. ASSUME NEW r \in Requests, QuietWalk(r)
      PROVE  IType' /\ SlotStep
  <2>1. UNCHANGED Shared
    BY <1>3, QuietSteps
  <2>2. PICK q : Grounded(r, q)
    BY <1>3, QuietSteps
  <2>3. req' \in [Requests -> Request] /\ Placed'
    BY <2>2, MovesType DEF Grounded
  <2>4. SlotStep
    BY <2>1, <2>2 DEF SlotStep, Shared
  <2> QED BY <1>1, <2>1, <2>3, <2>4 DEF IType, TypeOK, Shared
<1>4. ASSUME NEW r \in Requests, Permit(r)
      PROVE  IType' /\ SlotStep
  <2>1. /\ hits' \in [Providers -> Seq(Nat)]
        /\ UNCHANGED <<health, modelCool, acctCool, pool, cursor, gate, strikes>>
    BY <1>4, PermitStep
  <2>2. PICK q : Grounded(r, q)
    BY <1>4, PermitStep
  <2>3. req' \in [Requests -> Request] /\ Placed'
    BY <2>2, MovesType DEF Grounded
  <2>4. SlotStep
    BY <2>1, <2>2 DEF SlotStep
  <2> QED BY <1>1, <2>1, <2>3, <2>4 DEF IType, TypeOK
<1>5. ASSUME NEW r \in Requests, Send(r) \/ SendFreeLane(r)
      PROVE  IType' /\ SlotStep
  <2>1. PICK q : TakesSlot(r, q)
    BY <1>5, SendStep
  <2>2. req' \in [Requests -> Request] /\ Placed' /\ health' \in [Keys -> Health]
    BY <2>1, MovesType, SlotType DEF TakesSlot
  <2>3. UNCHANGED <<modelCool, acctCool, hits, pool, gate, strikes>>
    BY <1>5 DEF Send, SendFreeLane
  <2>4. cursor' = cursor \/ cursor' = (cursor + 1) % CursorModulus
    BY <1>5 DEF Send, SendFreeLane
  <2>5. cursor' \in 0 .. CursorModulus - 1
    BY <1>1, <2>4, CursorType DEF TypeOK
  <2> QED BY <1>1, <2>1, <2>2, <2>3, <2>5 DEF IType, TypeOK, SlotStep
<1>6. ASSUME NEW r \in Requests,
             SwitchCredential(r) \/ \E answer \in Answers : Land(r, answer)
      PROVE  IType' /\ SlotStep
  <2>1. PICK q : MovesSlot(r, q) \/ FreesSlot(r, q)
    BY <1>6, SwitchStep, LandStep
  <2>2. req' \in [Requests -> Request] /\ Placed' /\ health' \in [Keys -> Health]
    BY <2>1, MovesType, SlotType DEF MovesSlot, FreesSlot
  <2>3. UNCHANGED <<modelCool, acctCool, hits, pool, cursor, gate, strikes>>
    BY <1>6 DEF SwitchCredential, Land
  <2> QED BY <1>1, <2>1, <2>2, <2>3 DEF IType, TypeOK, SlotStep
<1>7. ASSUME NEW r \in Requests, Cancel(r)
      PROVE  IType' /\ SlotStep
  <2>1. PICK q : FreesSlot(r, q) \/ (Grounded(r, q) /\ health' = health)
    BY <1>7, CancelStep
  <2>2. req' \in [Requests -> Request] /\ Placed'
    BY <2>1, MovesType DEF FreesSlot, Grounded
  <2>3. health' \in [Keys -> Health] /\ SlotStep
    BY <1>1, <2>1, SlotType DEF TypeOK, SlotStep
  <2>4. UNCHANGED <<modelCool, acctCool, hits, pool, cursor, gate, strikes>>
    BY <1>7 DEF Cancel
  <2> QED BY <1>1, <2>2, <2>3, <2>4 DEF IType, TypeOK
<1>8. ASSUME NEW r \in Requests, BookSuccess(r) \/ BookFailure(r) \/ BookModelFailure(r)
      PROVE  IType' /\ SlotStep
  <2>1. /\ Books(r)
        /\ modelCool' \in [Candidates -> Nat]
        /\ acctCool' \in [Candidates -> [Keys -> Nat]]
        /\ strikes' \in [Keys -> Seq(Nat)]
    BY <1>8, BookStep
  <2>2. PICK q : Grounded(r, q)
    BY <2>1 DEF Books
  <2>3. req' \in [Requests -> Request] /\ Placed'
    BY <2>2, MovesType DEF Grounded
  <2>4. UNCHANGED <<hits, pool, cursor, gate>>
    BY <1>8 DEF BookSuccess, BookFailure, BookModelFailure
  <2>5. SlotStep
    BY <2>1, <2>2 DEF SlotStep, Books
  <2> QED BY <1>1, <2>1, <2>3, <2>4, <2>5 DEF IType, TypeOK, Books
<1>9. CASE Tick
  BY <1>2, <1>9, TickStep
<1>10. CASE (\E p \in Providers : RefreshPool(p)) \/ ReadQuota \/ UNCHANGED vars
  BY <1>2, <1>10, ElsewhereStep
<1> QED BY <1>3, <1>4, <1>5, <1>6, <1>7, <1>8, <1>9, <1>10 DEF Next, Walk, QuietWalk

LEMMA TypeInit == Init => IType
<1> SUFFICES ASSUME Init PROVE IType
  OBVIOUS
<1>1. Healthy \in Health
  BY EmptySeq DEF Healthy, Health
<1>2. req \in [Requests -> Request] /\ Placed
  <2>1. Idle.phase = "idle"
    BY DEF Idle
  <2> QED BY <2>1, IdleType DEF Init, Placed, Standing
<1>3. /\ hits \in [Providers -> Seq(Nat)] /\ strikes \in [Keys -> Seq(Nat)]
  BY EmptySeq DEF Init
<1>4. cursor \in 0 .. CursorModulus - 1
  BY DispatchAssumption DEF Init
<1>5. health \in [Keys -> Health]
  BY <1>1 DEF Init
<1> QED BY <1>2, <1>3, <1>4, <1>5 DEF Init, IType, TypeOK

(* Every reachable state is well typed, and no request walks off its chain *)
(* (the state of handle_chat and of the circuits it shares).               *)
THEOREM TypeCorrect == Spec => []TypeOK
<1>1. Init => IType
  BY TypeInit
<1>2. IType /\ [Next]_vars => IType'
  BY TypeStep
<1>3. IType => TypeOK
  BY DEF IType
<1> QED BY <1>1, <1>2, <1>3, PTL DEF Spec

-----------------------------------------------------------------------------
(* The accounting of in-flight slots.                                      *)

LEMMA FlightsFinite ==
    ASSUME NEW k
    PROVE  IsFiniteSet(Flights(k)) /\ Cardinality(Flights(k)) \in Nat
<1>1. Flights(k) \in SUBSET Requests
  BY DEF Flights
<1> QED BY <1>1, DispatchAssumption, FS_Subset, FS_CardinalityType

(* How the flights of a key follow the move of one request. *)
LEMMA FlightsMove ==
    ASSUME TypeOK, NEW r \in Requests, NEW q, Moves(r, q), NEW k \in Keys
    PROVE  Flights(k)' = (Flights(k) \ {r})
                            \cup (IF q.phase = "flying" /\ q.key = k THEN {r} ELSE {})
<1>1. req \in [Requests -> Request]
  BY DEF TypeOK
<1>2. \A s \in Requests : req'[s] = IF s = r THEN q ELSE req[s]
  BY <1>1 DEF Moves
<1> QED BY <1>2 DEF Flights

LEMMA SlotsStep ==
    ASSUME IType, SlotsMatchFlights, SlotStep
    PROVE  SlotsMatchFlights'
<1>1. /\ TypeOK /\ health \in [Keys -> Health]
      /\ \A k \in Keys : health[k].inFlight = Cardinality(Flights(k))
  BY DEF IType, TypeOK, SlotsMatchFlights
<1>2. CASE StandStill
  <2>1. \A k \in Keys : Flights(k)' = Flights(k)
    BY <1>2 DEF StandStill, Flights
  <2> QED BY <1>1, <1>2, <2>1 DEF StandStill, SlotsMatchFlights
<1>3. ASSUME NEW r \in Requests, NEW q, Grounded(r, q),
             \A k \in Keys : health'[k].inFlight = health[k].inFlight
      PROVE  SlotsMatchFlights'
  <2>1. \A k \in Keys : Flights(k)' = Flights(k)
    BY <1>1, <1>3, FlightsMove DEF Grounded, Flights
  <2> QED BY <1>1, <1>3, <2>1 DEF SlotsMatchFlights
<1>4. ASSUME NEW r \in Requests, NEW q, TakesSlot(r, q)
      PROVE  SlotsMatchFlights'
  <2>1. q.key \in Keys
    BY <1>4, RequestFields DEF TakesSlot, Moves
  <2>2. ASSUME NEW k \in Keys, k # q.key
        PROVE  health'[k].inFlight = Cardinality(Flights(k)')
    <3>1. Flights(k)' = Flights(k)
      BY <1>1, <1>4, <2>2, FlightsMove DEF TakesSlot, Flights
    <3>2. health'[k] = health[k]
      BY <1>1, <1>4, <2>2 DEF TakesSlot
    <3> QED BY <1>1, <3>1, <3>2
  <2>3. health'[q.key].inFlight = Cardinality(Flights(q.key)')
    <3>1. Flights(q.key)' = Flights(q.key) \cup {r} /\ r \notin Flights(q.key)
      BY <1>1, <1>4, <2>1, FlightsMove DEF TakesSlot, Flights
    <3>2. Cardinality(Flights(q.key) \cup {r}) = Cardinality(Flights(q.key)) + 1
      BY <3>1, FlightsFinite, FS_AddElement
    <3>3. health'[q.key] = SlotTaken(health[q.key])
      BY <1>1, <1>4, <2>1 DEF TakesSlot
    <3> QED BY <1>1, <2>1, <3>1, <3>2, <3>3, HealthType
  <2> QED BY <2>2, <2>3 DEF SlotsMatchFlights
<1>5. ASSUME NEW r \in Requests, req[r].phase = "flying"
      PROVE  LET k == req[r].key IN
             /\ k \in Keys /\ r \in Flights(k)
             /\ Cardinality(Flights(k) \ {r}) = Cardinality(Flights(k)) - 1
             /\ SlotReleased(health[k]).inFlight = Cardinality(Flights(k) \ {r})
  <2> DEFINE k == req[r].key
  <2>1. k \in Keys /\ r \in Flights(k)
    BY <1>1, <1>5, RequestFields DEF Flights, TypeOK
  <2>2. Cardinality(Flights(k) \ {r}) = Cardinality(Flights(k)) - 1
    BY <2>1, FlightsFinite, FS_RemoveElement
  <2>3. IsFiniteSet(Flights(k) \ {r}) /\ Cardinality(Flights(k) \ {r}) \in Nat
    BY FlightsFinite, FS_Subset, FS_CardinalityType
  <2>4. health[k].inFlight > 0
    BY <1>1, <2>1, <2>2, <2>3, FlightsFinite
  <2> QED BY <1>1, <2>1, <2>2, <2>4, HealthType
<1>6. ASSUME NEW r \in Requests, NEW q, FreesSlot(r, q)
      PROVE  SlotsMatchFlights'
  <2>1. PICK old \in Keys :
           /\ old = req[r].key
           /\ SlotReleased(health[old]).inFlight = Cardinality(Flights(old) \ {r})
    BY <1>5, <1>6 DEF FreesSlot
  <2>2. \A k \in Keys : Flights(k)' = Flights(k) \ {r}
    BY <1>1, <1>6, FlightsMove DEF FreesSlot
  <2>3. health'[old].inFlight = Cardinality(Flights(old)')
    BY <1>1, <1>6, <2>1, <2>2 DEF FreesSlot
  <2>4. ASSUME NEW k \in Keys, k # old
        PROVE  health'[k].inFlight = Cardinality(Flights(k)')
    <3>1. r \notin Flights(k)
      BY <2>1, <2>4 DEF Flights
    <3>2. Flights(k)' = Flights(k)
      BY <2>2, <3>1
    <3>3. health'[k] = health[k]
      BY <1>1, <1>6, <2>1, <2>4 DEF FreesSlot
    <3> QED BY <1>1, <3>2, <3>3
  <2> QED BY <2>3, <2>4 DEF SlotsMatchFlights
<1>7. ASSUME NEW r \in Requests, NEW q, MovesSlot(r, q)
      PROVE  SlotsMatchFlights'
  <2> DEFINE new == q.key
  <2>1. PICK old \in Keys :
           /\ old = req[r].key
           /\ SlotReleased(health[old]).inFlight = Cardinality(Flights(old) \ {r})
    BY <1>5, <1>7 DEF MovesSlot
  <2>2. new \in Keys /\ new # old
    BY <1>7, <2>1, RequestFields DEF MovesSlot, Moves
  <2>3. /\ health'[old] = SlotReleased(health[old])
        /\ health'[new] = SlotTaken(health[new])
        /\ \A k \in Keys : k # old /\ k # new => health'[k] = health[k]
    BY <1>1, <1>7, <2>1, <2>2 DEF MovesSlot
  <2>4. /\ Flights(old)' = Flights(old) \ {r}
        /\ Flights(new)' = Flights(new) \cup {r} /\ r \notin Flights(new)
        /\ \A k \in Keys : k # old /\ k # new => Flights(k)' = Flights(k)
    BY <1>1, <1>7, <2>1, <2>2, FlightsMove DEF MovesSlot, Flights
  <2>5. Cardinality(Flights(new) \cup {r}) = Cardinality(Flights(new)) + 1
    BY <2>4, FlightsFinite, FS_AddElement
  <2>6. health'[new].inFlight = Cardinality(Flights(new)')
    BY <1>1, <2>2, <2>3, <2>4, <2>5, HealthType
  <2>7. health'[old].inFlight = Cardinality(Flights(old)')
    BY <2>1, <2>3, <2>4
  <2>8. \A k \in Keys : k # old /\ k # new => health'[k].inFlight = Cardinality(Flights(k)')
    BY <1>1, <2>3, <2>4
  <2> QED BY <2>6, <2>7, <2>8 DEF SlotsMatchFlights
<1> QED BY <1>2, <1>3, <1>4, <1>6, <1>7 DEF SlotStep

(* However answers, credential switches and client disconnects interleave, *)
(* the in-flight count of a circuit key is the number of requests upstream *)
(* on it (InFlightGuard).                                                  *)
THEOREM SlotsCorrect == Spec => []SlotsMatchFlights
<1>1. Init => IType /\ SlotsMatchFlights
  <2> SUFFICES ASSUME Init PROVE SlotsMatchFlights
    BY TypeInit
  <2>1. \A k \in Keys : Flights(k) = {}
    BY DEF Init, Flights, Idle
  <2>2. \A k \in Keys : health[k].inFlight = 0
    BY DEF Init, Healthy
  <2> QED BY <2>1, <2>2, FS_EmptySet DEF SlotsMatchFlights
<1>2. IType /\ SlotsMatchFlights /\ [Next]_vars => (IType /\ SlotsMatchFlights)'
  BY TypeStep, SlotsStep
<1> QED BY <1>1, <1>2, PTL DEF Spec

-----------------------------------------------------------------------------
(* The inductive invariant, of the record of one request.                  *)

Entry(r, i) == ChainOf[r][i]
Upstream == {"flying", "landed"}

(* An attempt stands behind the walk, or is the one under way. *)
Behind(q, i) == i < q.at \/ (i = q.at /\ q.phase \in Upstream)

(* The walk of pass 0 is past a place. *)
Passed(q, i) == q.pass = 1 \/ i < q.at

(* A place that pass 0 is past, and left over. *)
Spared(q, i) == Passed(q, i) /\ <<0, i>> \notin q.sent /\ i \notin q.hard

(* What a soft gate declined stands at some place that pass 0 left over.   *)
Declines(r, q) ==
    /\ \A c \in q.soft : \E i \in 1 .. Len(ChainOf[r]) : Entry(r, i) = c /\ Spared(q, i)
    /\ \A i \in q.hard : Passed(q, i)

(* An attempt of pass 1 was declined by a soft gate and has used up its    *)
(* provider's probe.                                                       *)
Attempt(r, q, one) ==
    /\ one[2] \in 1 .. Len(ChainOf[r])
    /\ one[1] <= q.pass
    /\ one[1] = q.pass => Behind(q, one[2])
    /\ one[1] = 1 => /\ Entry(r, one[2]) \in q.soft
                     /\ Entry(r, one[2]).provider \in q.probed

ProbedOnce(r, q) ==
    \A one, other \in q.sent :
        one[1] = 1 /\ other[1] = 1 /\ Entry(r, one[2]).provider = Entry(r, other[2]).provider
            => one = other

(* What an admitted request may do next is still to be counted. *)
AboutToSend(r, q) ==
    /\ q.phase = "queued" => q.pass = 0
    /\ q.phase \in {"queued", "admitted"} => q.attempts < MaxAttempts
    /\ q.phase = "admitted" /\ q.pass = 1 =>
          /\ Entry(r, q.at) \in q.soft /\ Entry(r, q.at).provider \in q.probed
          /\ \A one \in q.sent : one[1] = 1 => Entry(r, one[2]).provider # Entry(r, q.at).provider

AttemptsCounted(q) ==
    /\ IsFiniteSet(q.sent)
    /\ Cardinality(q.sent) <= q.attempts
    /\ q.attempts <= MaxAttempts

Trail(r, q) ==
    /\ Declines(r, q)
    /\ \A one \in q.sent : Attempt(r, q, one)
    /\ ProbedOnce(r, q)
    /\ AboutToSend(r, q)
    /\ AttemptsCounted(q)

Trails == \A r \in Requests : Trail(r, req[r])

-----------------------------------------------------------------------------
(* The steps of a record.                                                  *)

(* The trail does not speak of the clocks, the key, the answer and the     *)
(* flags of a request.                                                     *)
Alike(q, w) ==
    /\ w.phase = q.phase /\ w.pass = q.pass /\ w.at = q.at /\ w.attempts = q.attempts
    /\ w.soft = q.soft /\ w.hard = q.hard /\ w.probed = q.probed /\ w.sent = q.sent

LEMMA TrailAlike ==
    ASSUME NEW r \in Requests, NEW q, NEW w, Alike(q, w), Trail(r, q)
    PROVE  Trail(r, w)
BY DEF Alike, Trail, Declines, Spared, Passed, Attempt, Behind, ProbedOnce, AboutToSend,
       AttemptsCounted

(* A request that has not begun, or has ended. *)
LEMMA TrailIdle ==
    ASSUME NEW r \in Requests, NEW q, q.phase \in {"idle", "choosing", "served", "failed"},
           q.soft = {}, q.hard = {}, q.sent = {}, q.attempts \in Nat, q.attempts <= MaxAttempts
    PROVE  Trail(r, q)
<1>1. IsFiniteSet({}) /\ Cardinality({}) = 0
  BY FS_EmptySet
<1> QED BY <1>1 DEF Trail, Declines, Spared, Passed, ProbedOnce, AboutToSend, AttemptsCounted

(* To the next candidate. *)
LEMMA TrailWalks ==
    ASSUME NEW r \in Requests, NEW q \in Request, Trail(r, q)
    PROVE  Trail(r, Walking(q))
<1> DEFINE w == Walking(q)
<1>1. /\ w.phase = "choosing" /\ w.pass = q.pass /\ w.at = q.at + 1 /\ w.attempts = q.attempts
      /\ w.soft = q.soft /\ w.hard = q.hard /\ w.probed = q.probed /\ w.sent = q.sent
  BY DEF Walking, Request
<1>2. q.at \in Nat /\ q.sent \in SUBSET Turns
  BY DEF Request
<1> HIDE DEF w
<1>3. Declines(r, w)
  <2>1. Len(ChainOf[r]) \in Nat /\ q.hard \in SUBSET Nat
    BY ChainType DEF Request
  <2> QED BY <1>1, <1>2, <2>1 DEF Trail, Declines, Spared, Passed
<1>4. \A one \in w.sent : Attempt(r, w, one)
  <2> SUFFICES ASSUME NEW one \in q.sent PROVE Attempt(r, w, one)
    BY <1>1
  <2>1. Attempt(r, q, one) /\ one[2] \in Nat
    BY <1>2 DEF Trail, Turns
  <2> QED BY <1>1, <1>2, <2>1 DEF Attempt, Behind, Upstream
<1>5. AboutToSend(r, w)
  BY <1>1 DEF AboutToSend
<1>6. ProbedOnce(r, w) /\ AttemptsCounted(w)
  BY <1>1 DEF Trail, ProbedOnce, AttemptsCounted
<1>7. Trail(r, w)
  BY <1>3, <1>4, <1>5, <1>6 DEF Trail
<1> QED BY <1>7 DEF w

(* A place declined in pass 0, by whichever gate: none of the attempts so  *)
(* far was from there, and no hard gate has met it.                        *)
LEMMA TrailDeclines ==
    ASSUME NEW r \in Requests, NEW q \in Request, Trail(r, q), NEW w,
           q.at \in 1 .. Len(ChainOf[r]), q.pass = 0, q.phase \notin Upstream,
           w.phase = "choosing", w.pass = 0, w.at = q.at + 1, w.attempts = q.attempts,
           w.probed = q.probed, w.sent = q.sent,
           \/ w.soft = q.soft \cup {Entry(r, q.at)} /\ w.hard = q.hard
           \/ w.hard = q.hard \cup {q.at} /\ w.soft = q.soft
    PROVE  Trail(r, w)
<1>1. /\ q.at \in Nat /\ q.sent \in SUBSET Turns /\ Len(ChainOf[r]) \in Nat
      /\ q.hard \in SUBSET Nat
  BY ChainType DEF Request
<1>2. \A c \in q.soft : \E i \in 1 .. Len(ChainOf[r]) : Entry(r, i) = c /\ Spared(q, i)
  BY DEF Trail, Declines
<1>3. q.at \notin q.hard
  BY <1>1 DEF Trail, Declines, Passed
<1>4. <<0, q.at>> \notin q.sent
  <2>1. ASSUME <<0, q.at>> \in q.sent
        PROVE  Attempt(r, q, <<0, q.at>>)
    BY <2>1 DEF Trail
  <2>2. ~ Attempt(r, q, <<0, q.at>>)
    BY <1>1 DEF Attempt, Behind
  <2> QED BY <2>1, <2>2
<1>5. \A i \in 1 .. Len(ChainOf[r]) : Spared(q, i) => Spared(w, i)
  BY <1>1 DEF Spared, Passed
<1>6. Declines(r, w)
  <2>1. \A i \in w.hard : Passed(w, i)
    BY <1>1 DEF Trail, Declines, Passed
  <2>2. w.soft # q.soft => Spared(w, q.at)
    BY <1>1, <1>3, <1>4 DEF Spared, Passed
  <2>3. ASSUME NEW c \in w.soft
        PROVE  \E i \in 1 .. Len(ChainOf[r]) : Entry(r, i) = c /\ Spared(w, i)
    <3>1. CASE c \in q.soft
      BY <1>2, <1>5, <3>1
    <3>2. CASE c \notin q.soft
      BY <2>2, <2>3, <3>2
    <3> QED BY <3>1, <3>2
  <2> QED BY <2>1, <2>3 DEF Declines
<1>7. ASSUME NEW one \in w.sent
      PROVE  Attempt(r, w, one)
  <2>1. Attempt(r, q, one) /\ one[1] \in Nat
    BY <1>1, <1>7 DEF Trail, Turns
  <2>2. one[1] = 0 /\ one[2] \in 1 .. Len(ChainOf[r]) /\ one[2] < q.at
    BY <1>1, <2>1 DEF Attempt, Behind
  <2> QED BY <1>1, <2>2 DEF Attempt, Behind
<1>8. ProbedOnce(r, w) /\ AboutToSend(r, w) /\ AttemptsCounted(w)
  BY DEF Trail, ProbedOnce, AboutToSend, AttemptsCounted
<1> QED BY <1>6, <1>7, <1>8 DEF Trail

(* Into the rate queue, or past it, in pass 0. *)
LEMMA TrailAdmits ==
    ASSUME NEW r \in Requests, NEW q \in Request, Trail(r, q), NEW w,
           q.pass = 0, q.phase \in {"choosing", "queued"}, q.attempts < MaxAttempts,
           w.phase \in {"queued", "admitted"}, w.pass = 0, w.at = q.at,
           w.attempts = q.attempts, w.soft = q.soft, w.hard = q.hard,
           w.probed = q.probed, w.sent = q.sent
    PROVE  Trail(r, w)
<1>1. \A one \in q.sent : Attempt(r, q, one) => Attempt(r, w, one)
  BY DEF Attempt, Behind, Upstream
<1> QED BY <1>1 DEF Trail, Declines, Spared, Passed, ProbedOnce, AboutToSend, AttemptsCounted

(* Over to pass 1. *)
LEMMA TrailStartsOver ==
    ASSUME NEW r \in Requests, NEW q \in Request, Trail(r, q), NEW w,
           q.pass = 0, w.phase = "choosing", w.pass = 1, w.at = 1,
           w.attempts = q.attempts, w.soft = q.soft, w.hard = q.hard,
           w.probed = q.probed, w.sent = q.sent
    PROVE  Trail(r, w)
<1>1. \A one \in q.sent : one[1] \in Nat /\ Attempt(r, q, one)
  BY DEF Trail, Request, Turns
<1>2. \A one \in q.sent : Attempt(r, w, one)
  BY <1>1 DEF Attempt
<1> QED BY <1>2 DEF Trail, Declines, Spared, Passed, ProbedOnce, AboutToSend, AttemptsCounted

(* A probe: its provider was not probed before. *)
LEMMA TrailProbes ==
    ASSUME NEW r \in Requests, NEW q \in Request, Trail(r, q), NEW w,
           q.pass = 1, q.phase = "choosing", q.attempts < MaxAttempts,
           Entry(r, q.at) \in q.soft, Entry(r, q.at).provider \notin q.probed,
           w.phase = "admitted", w.pass = 1, w.at = q.at, w.attempts = q.attempts,
           w.soft = q.soft, w.hard = q.hard, w.sent = q.sent,
           w.probed = q.probed \cup {Entry(r, q.at).provider}
    PROVE  Trail(r, w)
<1>1. \A one \in q.sent : Attempt(r, q, one)
  BY DEF Trail
<1>2. \A one \in q.sent : Attempt(r, w, one)
  BY <1>1 DEF Attempt, Behind, Upstream
<1>3. AboutToSend(r, w)
  BY <1>1 DEF AboutToSend, Attempt
<1> QED BY <1>2, <1>3 DEF Trail, Declines, Spared, Passed, ProbedOnce, AttemptsCounted

(* The attempt itself. *)
LEMMA TrailSends ==
    ASSUME NEW r \in Requests, NEW q \in Request, Trail(r, q), NEW w,
           q.at \in 1 .. Len(ChainOf[r]), q.phase = "admitted",
           w.phase = "flying", w.pass = q.pass, w.at = q.at, w.attempts = q.attempts + 1,
           w.soft = q.soft, w.hard = q.hard, w.probed = q.probed,
           w.sent = q.sent \cup {<<q.pass, q.at>>}
    PROVE  Trail(r, w)
<1> DEFINE new == <<q.pass, q.at>>
<1>1. /\ q.at \in Nat /\ q.pass \in {0, 1} /\ q.attempts \in Nat /\ MaxAttempts \in Nat
      /\ q.sent \in SUBSET Turns /\ Len(ChainOf[r]) \in Nat
  BY ChainType, DispatchAssumption DEF Request
<1>2. Declines(r, w)
  <2>1. \A i \in 1 .. Len(ChainOf[r]) : Spared(q, i) => Spared(w, i)
    BY <1>1 DEF Spared, Passed
  <2> QED BY <2>1 DEF Trail, Declines, Passed
<1>3. ASSUME NEW one \in q.sent
      PROVE  Attempt(r, w, one)
  BY DEF Trail, Attempt, Behind, Upstream
<1>4. Attempt(r, w, new)
  <2>1. q.pass = 1 => Entry(r, q.at) \in q.soft /\ Entry(r, q.at).provider \in q.probed
    BY DEF Trail, AboutToSend
  <2> QED BY <1>1, <2>1 DEF Attempt, Behind, Upstream
<1>5. ProbedOnce(r, w)
  <2>1. ASSUME NEW one \in q.sent, q.pass = 1, one[1] = 1
        PROVE  Entry(r, one[2]).provider # Entry(r, q.at).provider
    BY <2>1 DEF Trail, AboutToSend
  <2>2. ProbedOnce(r, q)
    BY DEF Trail
  <2>3. new[1] = q.pass /\ new[2] = q.at
    OBVIOUS
  <2> HIDE DEF new
  <2>4. w.sent = q.sent \cup {new}
    BY DEF new
  <2> QED BY <2>1, <2>2, <2>3, <2>4 DEF ProbedOnce
<1>6. AboutToSend(r, w)
  BY DEF AboutToSend
<1>7. AttemptsCounted(w)
  <2>1. IsFiniteSet(q.sent) /\ Cardinality(q.sent) <= q.attempts /\ q.attempts < MaxAttempts
    BY DEF Trail, AttemptsCounted, AboutToSend
  <2>2. Cardinality(q.sent) \in Nat
    BY <2>1, FS_CardinalityType
  <2>3. /\ IsFiniteSet(q.sent \cup {new})
        /\ Cardinality(q.sent \cup {new}) \in {Cardinality(q.sent), Cardinality(q.sent) + 1}
    BY <2>1, <2>2, FS_AddElement
  <2> QED BY <1>1, <2>1, <2>2, <2>3 DEF AttemptsCounted
<1> QED BY <1>2, <1>3, <1>4, <1>5, <1>6, <1>7 DEF Trail

(* The answer. *)
LEMMA TrailLands ==
    ASSUME NEW r \in Requests, NEW q \in Request, Trail(r, q), NEW w,
           q.phase = "flying", w.phase = "landed", w.pass = q.pass, w.at = q.at,
           w.attempts = q.attempts, w.soft = q.soft, w.hard = q.hard,
           w.probed = q.probed, w.sent = q.sent
    PROVE  Trail(r, w)
<1>1. \A one \in q.sent : Attempt(r, q, one) => Attempt(r, w, one)
  BY DEF Attempt, Behind, Upstream
<1> QED BY <1>1 DEF Trail, Declines, Spared, Passed, ProbedOnce, AboutToSend, AttemptsCounted

-----------------------------------------------------------------------------
(* The steps of the system.                                                *)

(* A step of r that keeps its trail. *)
Retraces(r) == \E q : req' = [req EXCEPT ![r] = q] /\ Trail(r, q)

LEMMA GatesRetrace ==
    ASSUME IType, Trails, NEW r \in Requests,
           SkipUnavailable(r) \/ SkipCooling(r) \/ SkipExhausted(r) \/ Admit(r)
    PROVE  Retraces(r)
<1>1. /\ req[r] \in Request /\ Trail(r, req[r]) /\ req[r].phase = "choosing"
      /\ req[r].pass = 0 /\ ~ChainEnded(r) /\ ~(req[r].attempts >= MaxAttempts)
  BY DEF IType, TypeOK, Trails, SkipUnavailable, SkipCooling, SkipExhausted, Admit,
         Considered, Choosing, Stopped
<1>2. /\ req[r].at \in 1 .. Len(ChainOf[r]) /\ Cand(r) = Entry(r, req[r].at)
      /\ req[r].attempts < MaxAttempts
  BY <1>1, CandType, RequestFields, DispatchAssumption DEF IType, Cand, Entry
<1>3. CASE ~Admit(r)
  <2>1. req' = [req EXCEPT ![r] = Declined(r)] \/ req' = [req EXCEPT ![r] = Barred(r)]
    BY <1>3 DEF SkipUnavailable, SkipCooling, SkipExhausted
  <2>2. Trail(r, Declined(r))
    <3> DEFINE w == Declined(r)
    <3>1. /\ w.phase = "choosing" /\ w.pass = 0 /\ w.at = req[r].at + 1
          /\ w.attempts = req[r].attempts /\ w.probed = req[r].probed
          /\ w.sent = req[r].sent /\ w.hard = req[r].hard
          /\ w.soft = req[r].soft \cup {Entry(r, req[r].at)}
      BY <1>1, <1>2 DEF Declined, Walking, Request
    <3> HIDE DEF w
    <3>2. Trail(r, w)
      BY <1>1, <1>2, <3>1, TrailDeclines DEF Upstream
    <3> QED BY <3>2 DEF w
  <2>3. Trail(r, Barred(r))
    <3> DEFINE w == Barred(r)
    <3>1. /\ w.phase = "choosing" /\ w.pass = 0 /\ w.at = req[r].at + 1
          /\ w.attempts = req[r].attempts /\ w.probed = req[r].probed
          /\ w.sent = req[r].sent /\ w.soft = req[r].soft
          /\ w.hard = req[r].hard \cup {req[r].at}
      BY <1>1, <1>2 DEF Barred, Walking, Request
    <3> HIDE DEF w
    <3>2. Trail(r, w)
      BY <1>1, <1>2, <3>1, TrailDeclines DEF Upstream
    <3> QED BY <3>2 DEF w
  <2> QED BY <2>1, <2>2, <2>3 DEF Retraces
<1>4. CASE Admit(r)
  <2>1. PICK w : /\ req' = [req EXCEPT ![r] = w]
                 /\ \/ w = [req[r] EXCEPT !.phase = "queued", !.wait = MaxWait, !.sleep = 0]
                    \/ w = [req[r] EXCEPT !.phase = "admitted"]
    BY <1>4 DEF Admit
  <2>2. /\ w.phase \in {"queued", "admitted"} /\ w.pass = 0 /\ w.at = req[r].at
        /\ w.attempts = req[r].attempts /\ w.soft = req[r].soft /\ w.hard = req[r].hard
        /\ w.probed = req[r].probed /\ w.sent = req[r].sent
    BY <1>1, <2>1 DEF Request
  <2>3. Trail(r, w)
    BY <1>1, <1>2, <2>2, TrailAdmits
  <2> QED BY <2>1, <2>3 DEF Retraces
<1> QED BY <1>3, <1>4

LEMMA PermitRetraces ==
    ASSUME IType, Trails, NEW r \in Requests, Permit(r)
    PROVE  Retraces(r)
<1>1. /\ req[r] \in Request /\ Trail(r, req[r]) /\ req[r].phase = "queued"
      /\ req \in [Requests -> Request]
  BY DEF IType, TypeOK, Trails, Permit
<1>2. req[r].at \in 1 .. Len(ChainOf[r]) /\ Cand(r) = Entry(r, req[r].at)
  BY <1>1, CandType DEF IType, Placed, Standing, Cand, Entry
<1>3. req[r].pass = 0 /\ req[r].attempts < MaxAttempts
  BY <1>1 DEF Trail, AboutToSend
<1> DEFINE recent == Recent(hits[Cand(r).provider])
<1>4. \/ req' = [req EXCEPT ![r].phase = "admitted", ![r].wait = 0]
      \/ req' = [req EXCEPT ![r] = AfterRefusal(r, recent)]
  BY DEF Permit
<1> HIDE DEF recent
<1>5. CASE req' = [req EXCEPT ![r].phase = "admitted", ![r].wait = 0]
  <2> DEFINE w == [req[r] EXCEPT !.phase = "admitted", !.wait = 0]
  <2>1. req' = [req EXCEPT ![r] = w]
    BY <1>1, <1>5
  <2>2. /\ w.phase = "admitted" /\ w.pass = 0 /\ w.at = req[r].at
        /\ w.attempts = req[r].attempts /\ w.soft = req[r].soft /\ w.hard = req[r].hard
        /\ w.probed = req[r].probed /\ w.sent = req[r].sent
    BY <1>1, <1>3 DEF Request
  <2> HIDE DEF w
  <2>3. Trail(r, w)
    BY <1>1, <1>3, <2>2, TrailAdmits
  <2> QED BY <2>1, <2>3 DEF Retraces
<1>6. CASE req' = [req EXCEPT ![r] = AfterRefusal(r, recent)]
  <2> DEFINE w == AfterRefusal(r, recent)
  <2>1. ASSUME req[r].wait = 0
        PROVE  Trail(r, w)
    <3>1. /\ w.phase = "choosing" /\ w.pass = 0 /\ w.at = req[r].at + 1
          /\ w.attempts = req[r].attempts /\ w.probed = req[r].probed
          /\ w.sent = req[r].sent /\ w.hard = req[r].hard
          /\ w.soft = req[r].soft \cup {Entry(r, req[r].at)}
      BY <1>1, <1>2, <1>3, <2>1 DEF AfterRefusal, Declined, Walking, Request
    <3> HIDE DEF w
    <3> QED BY <1>1, <1>2, <1>3, <3>1, TrailDeclines DEF Upstream
  <2>2. ASSUME req[r].wait # 0
        PROVE  Trail(r, w)
    <3>1. Alike(req[r], w)
      BY <1>1, <2>2 DEF AfterRefusal, Alike, Request
    <3> HIDE DEF w
    <3> QED BY <1>1, <3>1, TrailAlike
  <2>3. Trail(r, w)
    BY <2>1, <2>2
  <2> QED BY <1>6, <2>3 DEF Retraces
<1> QED BY <1>4, <1>5, <1>6

LEMMA PassesRetrace ==
    ASSUME IType, Trails, NEW r \in Requests, StartProbing(r) \/ Probe(r)
    PROVE  Retraces(r)
<1>1. /\ req[r] \in Request /\ Trail(r, req[r]) /\ req[r].phase = "choosing"
      /\ req \in [Requests -> Request]
  BY DEF IType, TypeOK, Trails, StartProbing, Probe, Choosing
<1>2. CASE StartProbing(r)
  <2> DEFINE w == [req[r] EXCEPT !.pass = 1, !.at = 1]
  <2>1. req' = [req EXCEPT ![r] = w] /\ req[r].pass = 0
    BY <1>1, <1>2 DEF StartProbing
  <2>2. /\ w.phase = "choosing" /\ w.pass = 1 /\ w.at = 1
        /\ w.attempts = req[r].attempts /\ w.soft = req[r].soft /\ w.hard = req[r].hard
        /\ w.probed = req[r].probed /\ w.sent = req[r].sent
    BY <1>1 DEF Request
  <2> HIDE DEF w
  <2>3. Trail(r, w)
    BY <1>1, <2>1, <2>2, TrailStartsOver
  <2> QED BY <2>1, <2>3 DEF Retraces
<1>3. CASE Probe(r)
  <2>1. /\ req' = [req EXCEPT ![r] = IF Probes(r) THEN Probing(r) ELSE Walking(@)]
        /\ req[r].pass = 1 /\ ~(req[r].attempts >= MaxAttempts)
    BY <1>3 DEF Probe, Choosing, Stopped
  <2>2. req[r].attempts < MaxAttempts
    BY <1>1, <2>1, RequestFields, DispatchAssumption
  <2>3. CASE Probes(r)
    <3> DEFINE w == Probing(r)
    <3>1. /\ Entry(r, req[r].at) \in req[r].soft
          /\ Entry(r, req[r].at).provider \notin req[r].probed
      BY <2>3 DEF Probes, Cand, Entry
    <3>2. /\ w.phase = "admitted" /\ w.pass = 1 /\ w.at = req[r].at
          /\ w.attempts = req[r].attempts /\ w.soft = req[r].soft /\ w.hard = req[r].hard
          /\ w.sent = req[r].sent
          /\ w.probed = req[r].probed \cup {Entry(r, req[r].at).provider}
      BY <1>1, <2>1 DEF Probing, Request, Cand, Entry
    <3>3. req' = [req EXCEPT ![r] = w]
      BY <2>1, <2>3
    <3> HIDE DEF w
    <3>4. Trail(r, w)
      BY <1>1, <2>1, <2>2, <3>1, <3>2, TrailProbes
    <3> QED BY <3>3, <3>4 DEF Retraces
  <2>4. CASE ~Probes(r)
    <3>1. req' = [req EXCEPT ![r] = Walking(req[r])]
      BY <2>1, <2>4
    <3> QED BY <1>1, <3>1, TrailWalks DEF Retraces
  <2> QED BY <2>3, <2>4
<1> QED BY <1>2, <1>3

LEMMA SendsRetrace ==
    ASSUME IType, Trails, NEW r \in Requests,
           Send(r) \/ SendFreeLane(r) \/ RefuseLocally(r)
    PROVE  Retraces(r)
<1>1. /\ req[r] \in Request /\ Trail(r, req[r]) /\ req[r].phase = "admitted"
  BY DEF IType, TypeOK, Trails, Send, SendFreeLane, RefuseLocally
<1>2. req[r].at \in 1 .. Len(ChainOf[r])
  BY <1>1, CandType DEF IType, Placed, Standing
<1>3. Keys # {}
  BY <1>1, RequestFields
<1>4. ASSUME NEW k \in Keys
      PROVE  Flying(r, k) \in Request /\ Trail(r, Flying(r, k))
  <2> DEFINE w == Flying(r, k)
  <2>1. /\ w.phase = "flying" /\ w.pass = req[r].pass /\ w.at = req[r].at
        /\ w.attempts = req[r].attempts + 1 /\ w.soft = req[r].soft
        /\ w.hard = req[r].hard /\ w.probed = req[r].probed
        /\ w.sent = req[r].sent \cup {<<req[r].pass, req[r].at>>}
    BY <1>1 DEF Flying, Attempted, Request
  <2>2. w \in Request
    BY AttemptedType DEF IType
  <2> HIDE DEF w
  <2>3. Trail(r, w)
    BY <1>1, <1>2, <2>1, TrailSends
  <2> QED BY <2>2, <2>3 DEF w
<1>5. CASE Send(r) \/ SendFreeLane(r)
  <2>1. \E k : req' = [req EXCEPT ![r] = Flying(r, k)] /\ k \in Keys
    <3>1. Cand(r).provider \in Providers
      BY <1>1, CandType DEF IType, Placed, Standing
    <3>2. Picked(Cand(r)) \subseteq Keys /\ LaneKeys(Cand(r)) \subseteq Keys
      BY <3>1, PoolType DEF IType, Picked, Rotation, LaneKeys
    <3> QED BY <1>5, <3>2 DEF Send, SendFreeLane
  <2> QED BY <1>4, <2>1 DEF Retraces
<1>6. CASE RefuseLocally(r)
  <2>1. PICK k \in Keys : TRUE
    BY <1>3
  <2>2. req' = [req EXCEPT ![r] = Walking(Attempted(r))]
    BY <1>6 DEF RefuseLocally
  <2>3. Trail(r, Walking(Flying(r, k)))
    BY <1>4, <2>1, TrailWalks
  <2>4. Alike(Walking(Flying(r, k)), Walking(Attempted(r)))
    BY <1>1 DEF Alike, Walking, Flying, Attempted, Request
  <2>5. Trail(r, Walking(Attempted(r)))
    BY <2>3, <2>4, TrailAlike
  <2> QED BY <2>2, <2>5 DEF Retraces
<1> QED BY <1>5, <1>6

LEMMA AnswersRetrace ==
    ASSUME IType, Trails, NEW r \in Requests,
           SwitchCredential(r) \/ \E answer \in Answers : Land(r, answer)
    PROVE  Retraces(r)
<1>1. /\ req[r] \in Request /\ Trail(r, req[r]) /\ req[r].phase = "flying"
      /\ req \in [Requests -> Request]
  BY DEF IType, TypeOK, Trails, SwitchCredential, Land
<1>2. CASE SwitchCredential(r)
  <2>1. PICK k : req' = [req EXCEPT ![r].key = k]
    BY <1>2 DEF SwitchCredential
  <2> DEFINE w == [req[r] EXCEPT !.key = k]
  <2>2. req' = [req EXCEPT ![r] = w]
    BY <1>1, <2>1
  <2>3. Alike(req[r], w)
    BY <1>1 DEF Alike, Request
  <2> HIDE DEF w
  <2>4. Trail(r, w)
    BY <1>1, <2>3, TrailAlike
  <2> QED BY <2>2, <2>4 DEF Retraces
<1>3. CASE \E answer \in Answers : Land(r, answer)
  <2>1. PICK answer : req' = [req EXCEPT ![r].phase = "landed", ![r].answer = answer]
    BY <1>3 DEF Land
  <2> DEFINE w == [req[r] EXCEPT !.phase = "landed", !.answer = answer]
  <2>2. req' = [req EXCEPT ![r] = w]
    BY <1>1, <2>1
  <2>3. /\ w.phase = "landed" /\ w.pass = req[r].pass /\ w.at = req[r].at
        /\ w.attempts = req[r].attempts /\ w.soft = req[r].soft /\ w.hard = req[r].hard
        /\ w.probed = req[r].probed /\ w.sent = req[r].sent
    BY <1>1 DEF Request
  <2> HIDE DEF w
  <2>4. Trail(r, w)
    BY <1>1, <2>3, TrailLands
  <2> QED BY <2>2, <2>4 DEF Retraces
<1> QED BY <1>2, <1>3

(* A request that begins, ends, or leaves. *)
LEMMA EndsRetrace ==
    ASSUME IType, Trails, NEW r \in Requests,
           Arrive(r) \/ BookSuccess(r) \/ Fail(r) \/ Cancel(r)
    PROVE  Retraces(r)
<1>1. /\ req[r].attempts \in Nat /\ req[r].attempts <= MaxAttempts /\ MaxAttempts \in Nat
  BY DispatchAssumption DEF IType, TypeOK, Request, Trails, Trail, AttemptsCounted
<1>2. PICK q : /\ req' = [req EXCEPT ![r] = q]
               /\ \/ q = [Idle EXCEPT !.phase = "choosing", !.left = Deadline]
                  \/ q = [Idle EXCEPT !.phase = "served"]
                  \/ q = [Idle EXCEPT !.phase = "failed", !.attempts = req[r].attempts,
                                      !.hinted = Hinted(r)]
                  \/ q = Idle
  BY DEF Arrive, BookSuccess, Fail, Cancel
<1>3. /\ q.phase \in {"idle", "choosing", "served", "failed"}
      /\ q.soft = {} /\ q.hard = {} /\ q.sent = {}
      /\ q.attempts \in {0, req[r].attempts}
  <2>1. Idle \in Request
    BY IdleType
  <2>2. /\ Idle.phase = "idle" /\ Idle.attempts = 0
        /\ Idle.soft = {} /\ Idle.hard = {} /\ Idle.sent = {}
    BY DEF Idle
  <2> QED BY <1>2, <2>1, <2>2 DEF Request
<1>4. Trail(r, q)
  BY <1>1, <1>3, TrailIdle
<1> QED BY <1>2, <1>4 DEF Retraces

LEMMA WalksRetrace ==
    ASSUME IType, Trails, NEW r \in Requests,
           SkipUnknown(r) \/ BookNeutral(r) \/ BookModelFailure(r) \/ BookFailure(r)
    PROVE  Retraces(r)
<1>1. req[r] \in Request /\ Trail(r, req[r])
  BY DEF IType, TypeOK, Trails
<1>2. req' = [req EXCEPT ![r] = Walking(req[r])]
  BY DEF SkipUnknown, BookNeutral, BookModelFailure, BookFailure
<1> QED BY <1>1, <1>2, TrailWalks DEF Retraces

LEMMA TrailsStep ==
    ASSUME IType, Trails, [Next]_vars
    PROVE  Trails'
<1>1. req \in [Requests -> Request]
  BY DEF IType, TypeOK
<1>2. ASSUME NEW r \in Requests, Retraces(r)
      PROVE  Trails'
  <2>1. PICK q : req' = [req EXCEPT ![r] = q] /\ Trail(r, q)
    BY <1>2 DEF Retraces
  <2>2. \A s \in Requests : req'[s] = IF s = r THEN q ELSE req[s]
    BY <1>1, <2>1
  <2>3. ASSUME NEW s \in Requests
        PROVE  Trail(s, req'[s])
    BY <2>1, <2>2 DEF Trails
  <2> QED BY <2>3 DEF Trails
<1>3. CASE Tick
  <2>1. ASSUME NEW r \in Requests
        PROVE  Alike(req[r], req'[r])
    <3>1. req'[r] = [req[r] EXCEPT !.left = Left(@), !.wait = Left(@), !.sleep = Left(@)]
      BY <1>3 DEF Tick
    <3> QED BY <1>1, <3>1 DEF Alike, Request
  <2>2. ASSUME NEW r \in Requests
        PROVE  Trail(r, req'[r])
    BY <2>1, TrailAlike DEF Trails
  <2> QED BY <2>2 DEF Trails
<1>4. CASE (\E p \in Providers : RefreshPool(p)) \/ ReadQuota \/ UNCHANGED vars
  <2>1. req' = req
    BY <1>4 DEF RefreshPool, ReadQuota, vars
  <2> QED BY <2>1 DEF Trails
<1> QED BY <1>2, <1>3, <1>4, GatesRetrace, PermitRetraces, PassesRetrace, SendsRetrace,
           AnswersRetrace, EndsRetrace, WalksRetrace DEF Next, Walk

LEMMA TrailsDisciplined ==
    ASSUME IType, Trails
    PROVE  AttemptsDisciplined
<1> SUFFICES ASSUME NEW r \in Requests
             PROVE  /\ \A one \in req[r].sent : one[1] = 1 =>
                          \E place \in DOMAIN ChainOf[r] :
                              ChainOf[r][place] = ChainOf[r][one[2]] /\ LeftOver(r, place)
                    /\ \A one, other \in req[r].sent :
                          one[1] = 1 /\ other[1] = 1
                            /\ ChainOf[r][one[2]].provider = ChainOf[r][other[2]].provider
                                => one = other
                    /\ Cardinality(req[r].sent) <= MaxAttempts
  BY DEF AttemptsDisciplined
<1>1. /\ Trail(r, req[r]) /\ req[r].sent \in SUBSET Turns
      /\ req[r].attempts \in Nat /\ MaxAttempts \in Nat
  BY RequestFields, DispatchAssumption DEF IType, TypeOK, Trails
<1>2. ASSUME NEW one \in req[r].sent, one[1] = 1
      PROVE  \E place \in DOMAIN ChainOf[r] :
                 ChainOf[r][place] = ChainOf[r][one[2]] /\ LeftOver(r, place)
  <2>1. ChainOf[r][one[2]] \in req[r].soft
    BY <1>1, <1>2 DEF Trail, Attempt, Entry
  <2>2. PICK i \in 1 .. Len(ChainOf[r]) : Entry(r, i) = ChainOf[r][one[2]] /\ Spared(req[r], i)
    BY <1>1, <2>1 DEF Trail, Declines
  <2> QED BY <2>2, ChainType DEF Entry, Spared, LeftOver
<1>3. ProbedOnce(r, req[r])
  BY <1>1 DEF Trail
<1>4. Cardinality(req[r].sent) <= MaxAttempts
  <2>1. Cardinality(req[r].sent) \in Nat
    BY <1>1, FS_CardinalityType DEF Trail, AttemptsCounted
  <2> QED BY <1>1, <2>1 DEF Trail, AttemptsCounted
<1> QED BY <1>2, <1>3, <1>4 DEF Entry, ProbedOnce

(* What a request probes in pass 1 stands at a place that pass 0 neither   *)
(* sent from nor met a hard gate at, a provider is probed at most once,    *)
(* and the attempts stop at the cap: for every chain, with repeated        *)
(* candidates or without, and whatever happens between the request's steps *)
(* (the two passes of handle_chat).                                        *)
THEOREM PassesDisciplined == Spec => []AttemptsDisciplined
<1>1. Init => IType /\ Trails
  <2> SUFFICES ASSUME Init PROVE Trails
    BY TypeInit
  <2>1. ASSUME NEW r \in Requests
        PROVE  Trail(r, Idle)
    BY TrailIdle, DispatchAssumption DEF Idle
  <2> QED BY <2>1 DEF Init, Trails
<1>2. IType /\ Trails /\ [Next]_vars => (IType /\ Trails)'
  BY TypeStep, TrailsStep
<1>3. IType /\ Trails => AttemptsDisciplined
  BY TrailsDisciplined
<1> QED BY <1>1, <1>2, <1>3, PTL DEF Spec

-----------------------------------------------------------------------------
LEMMA HintStep ==
    ASSUME IType, [Next]_vars, NEW r \in Requests,
           req[r].phase = "choosing", req'[r].phase = "failed",
           req[r].attempts = 0, ~req'[r].hinted, NEW c \in Range(ChainOf[r])
    PROVE  ~HardBlocked(c)
<1>1. req \in [Requests -> Request] /\ req[r] \in Request
  BY DEF IType, TypeOK
<1>2. c \in Candidates /\ modelCool \in [Candidates -> Nat]
  BY DEF Candidates, IType, TypeOK
<1>3. Fail(r)
  <2>1. ASSUME NEW s \in Requests, NEW q, req' = [req EXCEPT ![s] = q],
               q.phase = "failed" => s # r
        PROVE  FALSE
    <3>1. req'[r] = IF s = r THEN q ELSE req[r]
      BY <1>1, <2>1
    <3> QED BY <2>1, <3>1
  <2>2. ASSUME NEW s \in Requests, Arrive(s) \/ Cancel(s) \/ BookSuccess(s)
        PROVE  FALSE
    <3>1. PICK q : /\ req' = [req EXCEPT ![s] = q]
                   /\ \/ q = [Idle EXCEPT !.phase = "choosing", !.left = Deadline]
                      \/ q = [Idle EXCEPT !.phase = "served"]
                      \/ q = Idle
      BY <2>2 DEF Arrive, Cancel, BookSuccess
    <3>2. Idle \in Request /\ Idle.phase = "idle"
      BY IdleType DEF Idle
    <3>3. q.phase # "failed"
      BY <3>1, <3>2 DEF Request
    <3> QED BY <2>1, <3>1, <3>3
  <2>3. ASSUME NEW s \in Requests,
               \/ SkipUnknown(s) \/ SkipUnavailable(s) \/ SkipCooling(s) \/ SkipExhausted(s)
               \/ StartProbing(s) \/ Probe(s) \/ RefuseLocally(s)
               \/ BookNeutral(s) \/ BookModelFailure(s) \/ BookFailure(s) \/ Admit(s)
        PROVE  FALSE
    <3>1. req[s] \in Request
      BY <1>1
    <3>2. PICK q : /\ req' = [req EXCEPT ![s] = q]
                   /\ \/ q = Walking(req[s]) \/ q = Declined(s) \/ q = Barred(s)
                      \/ q = Walking(Attempted(s)) \/ q = Probing(s)
                      \/ q = [req[s] EXCEPT !.phase = "admitted"]
                      \/ q = [req[s] EXCEPT !.phase = "queued", !.wait = MaxWait, !.sleep = 0]
                      \/ /\ q = [req[s] EXCEPT !.pass = 1, !.at = 1]
                         /\ req[s].phase = "choosing"
      BY <1>1, <2>3 DEF SkipUnknown, SkipUnavailable, SkipCooling, SkipExhausted, StartProbing,
             Probe, RefuseLocally, BookNeutral, BookModelFailure, BookFailure, Admit
    <3>3. q.phase # "failed"
      BY <3>1, <3>2 DEF Walking, Declined, Barred, Attempted, Probing, Request
    <3> QED BY <2>1, <3>2, <3>3
  <2>4. ASSUME NEW s \in Requests,
               \/ Permit(s) \/ Send(s) \/ SendFreeLane(s) \/ SwitchCredential(s)
               \/ \E answer \in Answers : Land(s, answer)
        PROVE  FALSE
    <3>1. s # r
      BY <2>4 DEF Permit, Send, SendFreeLane, SwitchCredential, Land
    <3>2. req'[r] = req[r]
      BY <1>1, <2>4, <3>1 DEF Permit, Send, SendFreeLane, SwitchCredential, Land
    <3> QED BY <3>2
  <2>5. ASSUME Tick
        PROVE  FALSE
    <3>1. req'[r] = [req[r] EXCEPT !.left = Left(@), !.wait = Left(@), !.sleep = Left(@)]
      BY <2>5 DEF Tick
    <3>2. req'[r].phase = req[r].phase
      BY <1>1, <3>1 DEF Request
    <3> QED BY <3>2
  <2>6. ASSUME (\E p \in Providers : RefreshPool(p)) \/ ReadQuota \/ UNCHANGED vars
        PROVE  FALSE
    BY <2>6 DEF RefreshPool, ReadQuota, vars
  <2>7. PICK s \in Requests : Fail(s)
    BY <2>2, <2>3, <2>4, <2>5, <2>6 DEF Next, Walk
  <2>8. s = r
    BY <1>1, <2>7 DEF Fail
  <2> QED BY <2>7, <2>8
<1>4. ~Hinted(r)
  <2>1. Hinted(r) \in BOOLEAN /\ Idle \in Request
    BY IdleType DEF Hinted
  <2>2. req'[r].hinted = Hinted(r)
    BY <1>1, <1>3, <2>1 DEF Fail, Request
  <2> QED BY <2>2
<1>5. modelCool[c] = 0 /\ ~Exhausted(c)
  BY <1>2, <1>4 DEF Hinted, Exhausted
<1> QED BY <1>5 DEF HardBlocked, ModelCooling

(* A request that fails without an attempt carries a Retry-After unless    *)
(* none of its candidates is barred any longer (the terminal answer of     *)
(* handle_chat).                                                           *)
THEOREM HintsGiven == Spec => UndispatchedHasHint
<1>1. IType /\ [Next]_vars =>
        \A r \in Requests :
          req[r].phase = "choosing" /\ req'[r].phase = "failed"
              /\ req[r].attempts = 0 /\ ~req'[r].hinted =>
                  \A c \in Range(ChainOf[r]) :
                      c.provider \in Registered => ~HardBlocked(c)
  BY HintStep
<1>2. Init => IType
  BY TypeInit
<1>3. IType /\ [Next]_vars => IType'
  BY TypeStep
<1> QED BY <1>1, <1>2, <1>3, PTL DEF Spec, UndispatchedHasHint

-----------------------------------------------------------------------------
(* A window over ages, oldest first.                                       *)

OldestFirst(ages) == \A i, j \in 1 .. Len(ages) : i <= j => ages[i] >= ages[j]

(* What Within drops is a prefix, and what it keeps is in the window.      *)
LEMMA WithinDropsPrefix ==
    ASSUME NEW ages \in Seq(Nat), OldestFirst(ages), NEW window \in Nat
    PROVE  \E n \in 0 .. Len(ages) :
              /\ Within(ages, window) = SubSeq(ages, n + 1, Len(ages))
              /\ \A i \in 1 .. Len(ages) : i <= n <=> ages[i] > window
<1> DEFINE L == Len(ages)
           expired == {i \in 1 .. L : ages[i] > window}
           n == Cardinality(expired)
<1>1. L \in Nat /\ DOMAIN ages = 1 .. L /\ \A i \in 1 .. L : ages[i] \in Nat
  OBVIOUS
<1>2. Within(ages, window) = SubSeq(ages, n + 1, L)
  BY <1>1 DEF Within
<1>3. \A i \in expired : 1 .. i \in SUBSET expired
  BY <1>1 DEF OldestFirst
<1>4. \A i \in (1 .. L) \ expired : expired \in SUBSET (1 .. i - 1)
  BY <1>1 DEF OldestFirst
<1>5. expired \in SUBSET (1 .. L)
  OBVIOUS
<1>6. \A i \in 1 .. L : i \in expired <=> ages[i] > window
  OBVIOUS
<1> HIDE DEF L, expired
<1>7. IsFiniteSet(expired) /\ Cardinality(expired) <= L
  BY <1>1, <1>5, UpTo, FS_Subset
<1>8. Cardinality(expired) \in 0 .. L
  BY <1>1, <1>7, FS_CardinalityType
<1>9. ASSUME NEW i \in 1 .. L
      PROVE  i <= Cardinality(expired) <=> ages[i] > window
  <2>1. ASSUME i \in expired
        PROVE  i <= Cardinality(expired)
    <3>1. i \in Nat /\ Cardinality(1 .. i) = i
      BY <1>1, UpTo
    <3> QED BY <1>3, <1>7, <2>1, <3>1, FS_Subset
  <2>2. ASSUME i \notin expired
        PROVE  ~(i <= Cardinality(expired))
    <3>1. i - 1 \in Nat
      BY <1>1
    <3>2. IsFiniteSet(1 .. i - 1) /\ Cardinality(1 .. i - 1) = i - 1
      BY <3>1, UpTo
    <3>3. Cardinality(expired) <= i - 1
      BY <1>4, <2>2, <3>2, FS_Subset
    <3> QED BY <1>1, <1>8, <3>3
  <2> QED BY <1>6, <2>1, <2>2
<1> QED BY <1>2, <1>8, <1>9 DEF L, n

(* The same, entry by entry. *)
LEMMA WithinEntries ==
    ASSUME NEW ages \in Seq(Nat), OldestFirst(ages), NEW window \in Nat
    PROVE  \E n \in 0 .. Len(ages) :
              /\ Within(ages, window) \in Seq(Nat)
              /\ Len(Within(ages, window)) = Len(ages) - n
              /\ \A i \in 1 .. Len(ages) - n :
                    Within(ages, window)[i] = ages[n + i] /\ ages[n + i] <= window
              /\ \A i \in 1 .. Len(ages) : i <= n <=> ages[i] > window
<1>1. PICK n \in 0 .. Len(ages) :
         /\ Within(ages, window) = SubSeq(ages, n + 1, Len(ages))
         /\ \A i \in 1 .. Len(ages) : i <= n <=> ages[i] > window
  BY WithinDropsPrefix
<1>2. Len(ages) \in Nat /\ \A i \in 1 .. Len(ages) : ages[i] \in Nat
  OBVIOUS
<1>3. n + 1 \in Int /\ Len(ages) \in Int /\ \A i \in n + 1 .. Len(ages) : ages[i] \in Nat
  BY <1>2
<1> DEFINE kept == SubSeq(ages, n + 1, Len(ages))
<1>4. /\ kept \in Seq(Nat)
      /\ Len(kept) = IF n + 1 <= Len(ages) THEN Len(ages) - (n + 1) + 1 ELSE 0
      /\ \A i \in 1 .. Len(ages) - (n + 1) + 1 : kept[i] = ages[(n + 1) + i - 1]
  BY <1>3, SubSeqProperties
<1> HIDE DEF kept
<1>5. Len(kept) = Len(ages) - n
  BY <1>2, <1>4
<1>6. ASSUME NEW i \in 1 .. Len(ages) - n
      PROVE  kept[i] = ages[n + i] /\ ages[n + i] <= window
  <2>1. n + i \in 1 .. Len(ages) /\ ~(n + i <= n) /\ (n + 1) + i - 1 = n + i
    BY <1>2
  <2>2. i \in 1 .. Len(ages) - (n + 1) + 1
    BY <1>2
  <2>3. kept[i] = ages[n + i]
    BY <1>4, <2>1, <2>2
  <2>4. ages[n + i] \in Nat /\ ~(ages[n + i] > window)
    BY <1>1, <1>2, <2>1
  <2> QED BY <2>3, <2>4
<1> QED BY <1>1, <1>4, <1>5, <1>6 DEF kept

LEMMA OlderEntries ==
    ASSUME NEW ages \in Seq(Nat), NEW window \in Nat
    PROVE  /\ Older(ages, window) \in Seq(Nat) /\ Len(Older(ages, window)) = Len(ages)
           /\ \A i \in 1 .. Len(ages) :
                 Older(ages, window)[i] = Least(ages[i] + 1, window + 1)
           /\ OldestFirst(ages) => OldestFirst(Older(ages, window))
<1> DEFINE old == Older(ages, window)
<1>1. Len(ages) \in Nat /\ DOMAIN ages = 1 .. Len(ages) /\ \A i \in 1 .. Len(ages) : ages[i] \in Nat
  OBVIOUS
<1>2. old = [i \in 1 .. Len(ages) |-> Least(ages[i] + 1, window + 1)]
  BY <1>1 DEF Older
<1>3. old \in Seq(Nat)
  BY OlderType
<1>4. Len(old) = Len(ages)
  BY <1>1, <1>2, <1>3, LenProperties
<1>5. \A i \in 1 .. Len(ages) : old[i] = Least(ages[i] + 1, window + 1)
  BY <1>2
<1> HIDE DEF old
<1>6. OldestFirst(ages) => OldestFirst(old)
  BY <1>1, <1>4, <1>5 DEF OldestFirst, Least
<1> QED BY <1>3, <1>4, <1>5, <1>6 DEF old

LEMMA AppendEntries ==
    ASSUME NEW ages \in Seq(Nat), OldestFirst(ages)
    PROVE  /\ Append(ages, 0) \in Seq(Nat) /\ Len(Append(ages, 0)) = Len(ages) + 1
           /\ \A i \in 1 .. Len(ages) : Append(ages, 0)[i] = ages[i]
           /\ Append(ages, 0)[Len(ages) + 1] = 0
           /\ OldestFirst(Append(ages, 0))
<1> DEFINE more == Append(ages, 0)
<1>1. /\ Len(ages) \in Nat /\ \A i \in 1 .. Len(ages) : ages[i] \in Nat
      /\ more \in Seq(Nat) /\ Len(more) = Len(ages) + 1
      /\ \A i \in 1 .. Len(ages) : more[i] = ages[i]
      /\ more[Len(ages) + 1] = 0
  BY AppendProperties
<1> HIDE DEF more
<1>2. ASSUME NEW i \in 1 .. Len(ages) + 1, NEW j \in 1 .. Len(ages) + 1, i <= j
      PROVE  more[i] >= more[j]
  <2>1. CASE j = Len(ages) + 1
    <3>1. more[i] \in Nat
      BY <1>1
    <3> QED BY <1>1, <2>1, <3>1
  <2>2. CASE j # Len(ages) + 1
    <3>1. i \in 1 .. Len(ages) /\ j \in 1 .. Len(ages)
      BY <1>1, <1>2, <2>2
    <3> QED BY <1>1, <1>2, <3>1 DEF OldestFirst
  <2> QED BY <2>1, <2>2
<1>3. OldestFirst(more)
  BY <1>1, <1>2 DEF OldestFirst
<1> QED BY <1>1, <1>3 DEF more

-----------------------------------------------------------------------------
(* The rate window of a provider: the hits that it still counts are        *)
(* MinInterval apart, and fewer than Rpm followed each of them.            *)

Spaced(ages) ==
    /\ OldestFirst(ages)
    /\ \A i \in 1 .. Len(ages) : ages[i] <= RateWindow => Len(ages) - i < Rpm
    /\ \A i \in 1 .. Len(ages) - 1 :
          ages[i] <= RateWindow => ages[i] - ages[i + 1] >= MinInterval

RateNumbers == Rpm \in Nat \ {0} /\ RateWindow \in Nat /\ MinInterval \in Nat

LEMMA RateType == RateNumbers
BY CircuitAssumption DEF RateNumbers

LEMMA SpacedWhenOlder ==
    ASSUME NEW ages \in Seq(Nat), Spaced(ages)
    PROVE  Spaced(Older(ages, RateWindow))
<1> DEFINE old == Older(ages, RateWindow)
<1>1. /\ Len(ages) \in Nat /\ \A i \in 1 .. Len(ages) : ages[i] \in Nat
      /\ RateNumbers
  BY RateType
<1>2. /\ old \in Seq(Nat) /\ Len(old) = Len(ages)
      /\ \A i \in 1 .. Len(ages) : old[i] = Least(ages[i] + 1, RateWindow + 1)
      /\ OldestFirst(old)
  BY <1>1, OlderEntries DEF Spaced, RateNumbers
<1> HIDE DEF old
<1>3. ASSUME NEW i \in 1 .. Len(ages), old[i] <= RateWindow
      PROVE  ages[i] <= RateWindow /\ old[i] = ages[i] + 1
  BY <1>1, <1>2, <1>3 DEF Least, RateNumbers
<1>4. ASSUME NEW i \in 1 .. Len(ages), old[i] <= RateWindow
      PROVE  Len(ages) - i < Rpm
  BY <1>3, <1>4 DEF Spaced
<1>5. ASSUME NEW i \in 1 .. Len(ages) - 1, old[i] <= RateWindow
      PROVE  old[i] - old[i + 1] >= MinInterval
  <2>1. i \in 1 .. Len(ages) /\ i + 1 \in 1 .. Len(ages) /\ i <= i + 1
    BY <1>1
  <2>2. ages[i] <= RateWindow /\ old[i] = ages[i] + 1
    BY <1>3, <1>5, <2>1
  <2>3. ages[i] >= ages[i + 1] /\ ages[i] - ages[i + 1] >= MinInterval
    BY <2>1, <2>2 DEF Spaced, OldestFirst
  <2>4. ages[i] \in Nat /\ ages[i + 1] \in Nat /\ RateWindow \in Nat /\ MinInterval \in Nat
    BY <1>1, <2>1 DEF RateNumbers
  <2>5. old[i + 1] = Least(ages[i + 1] + 1, RateWindow + 1)
    BY <1>2, <2>1
  <2>6. ages[i + 1] + 1 <= RateWindow + 1
    BY <2>2, <2>3, <2>4
  <2>7. old[i + 1] = ages[i + 1] + 1
    BY <2>4, <2>5, <2>6 DEF Least
  <2> QED BY <2>2, <2>3, <2>4, <2>7
<1>6. Spaced(old)
  BY <1>2, <1>4, <1>5 DEF Spaced
<1> QED BY <1>6 DEF old

LEMMA SpacedWhenPruned ==
    ASSUME NEW ages \in Seq(Nat), Spaced(ages)
    PROVE  /\ Spaced(Recent(ages)) /\ Recent(ages) \in Seq(Nat)
           /\ \A i \in 1 .. Len(Recent(ages)) : Recent(ages)[i] <= RateWindow
<1> DEFINE kept == Recent(ages)
<1>1. /\ Len(ages) \in Nat /\ \A i \in 1 .. Len(ages) : ages[i] \in Nat
      /\ RateNumbers
  BY RateType
<1>2. PICK n \in 0 .. Len(ages) :
         /\ kept \in Seq(Nat) /\ Len(kept) = Len(ages) - n
         /\ \A i \in 1 .. Len(ages) - n : kept[i] = ages[n + i] /\ ages[n + i] <= RateWindow
  BY <1>1, WithinEntries DEF Spaced, Recent, RateNumbers
<1> HIDE DEF kept
<1>3. \A i \in 1 .. Len(kept) : n + i \in 1 .. Len(ages)
  BY <1>1, <1>2
<1>4. OldestFirst(kept)
  <2> SUFFICES ASSUME NEW i \in 1 .. Len(kept), NEW j \in 1 .. Len(kept), i <= j
               PROVE  kept[i] >= kept[j]
    BY DEF OldestFirst
  <2>1. n + i \in 1 .. Len(ages) /\ n + j \in 1 .. Len(ages) /\ n + i <= n + j
    BY <1>3
  <2>2. ages[n + i] >= ages[n + j]
    BY <2>1 DEF Spaced, OldestFirst
  <2> QED BY <1>2, <2>2
<1>5. ASSUME NEW i \in 1 .. Len(kept)
      PROVE  Len(kept) - i < Rpm
  <2>1. n + i \in 1 .. Len(ages) /\ ages[n + i] <= RateWindow
    BY <1>2, <1>3
  <2>2. Len(ages) - (n + i) < Rpm
    BY <2>1 DEF Spaced
  <2> QED BY <1>1, <1>2, <2>2 DEF RateNumbers
<1>6. ASSUME NEW i \in 1 .. Len(kept) - 1
      PROVE  kept[i] - kept[i + 1] >= MinInterval
  <2>1. n + i \in 1 .. Len(ages) - 1 /\ i \in 1 .. Len(kept) /\ i + 1 \in 1 .. Len(kept)
    BY <1>1, <1>2
  <2>2. ages[n + i] - ages[(n + i) + 1] >= MinInterval
    BY <1>2, <2>1 DEF Spaced
  <2>3. n + (i + 1) = (n + i) + 1
    BY <2>1
  <2>4. kept[i] = ages[n + i] /\ kept[i + 1] = ages[n + (i + 1)]
    BY <1>2, <2>1
  <2> QED BY <2>2, <2>3, <2>4
<1>7. Spaced(kept) /\ kept \in Seq(Nat)
  BY <1>2, <1>4, <1>5, <1>6 DEF Spaced
<1> QED BY <1>2, <1>7 DEF kept

LEMMA SpacedWhenAdmitted ==
    ASSUME NEW ages \in Seq(Nat), Spaced(ages), Admits(ages)
    PROVE  /\ Spaced(Append(Recent(ages), 0))
           /\ Append(Recent(ages), 0) \in Seq(Nat)
<1> DEFINE recent == Recent(ages)
           more == Append(recent, 0)
<1>1. /\ recent \in Seq(Nat) /\ Spaced(recent) /\ Len(recent) < Rpm
      /\ recent # << >> => Last(recent) >= MinInterval
  BY SpacedWhenPruned DEF Admits
<1> HIDE DEF recent
<1>2. /\ Len(recent) \in Nat /\ \A i \in 1 .. Len(recent) : recent[i] \in Nat
      /\ RateNumbers
  BY <1>1, RateType
<1>3. /\ more \in Seq(Nat) /\ Len(more) = Len(recent) + 1
      /\ \A i \in 1 .. Len(recent) : more[i] = recent[i]
      /\ more[Len(recent) + 1] = 0
      /\ OldestFirst(more)
  BY <1>1, AppendEntries DEF Spaced
<1> HIDE DEF more
<1>4. \A i \in 1 .. Len(more) : Len(more) - i < Rpm
  BY <1>1, <1>2, <1>3 DEF RateNumbers
<1>5. ASSUME NEW i \in 1 .. Len(more) - 1, more[i] <= RateWindow
      PROVE  more[i] - more[i + 1] >= MinInterval
  <2>1. i \in 1 .. Len(recent) /\ more[i] = recent[i]
    BY <1>2, <1>3
  <2>2. CASE i = Len(recent)
    <3>1. recent # << >> /\ Last(recent) = recent[i]
      BY <1>1, <2>1, <2>2 DEF Last
    <3> QED BY <1>1, <1>2, <1>3, <2>1, <2>2, <3>1 DEF RateNumbers
  <2>3. CASE i # Len(recent)
    <3>1. i \in 1 .. Len(recent) - 1 /\ i + 1 \in 1 .. Len(recent)
      BY <1>2, <2>1, <2>3
    <3>2. recent[i] - recent[i + 1] >= MinInterval
      BY <1>1, <1>5, <2>1, <3>1 DEF Spaced
    <3> QED BY <1>3, <2>1, <3>1, <3>2
  <2> QED BY <2>2, <2>3
<1>6. Spaced(more) /\ more \in Seq(Nat)
  BY <1>3, <1>4, <1>5 DEF Spaced
<1> QED BY <1>6 DEF more, recent

-----------------------------------------------------------------------------
(* Only a look of wait_permit and the clock touch the rate windows.        *)

Spacing == \A p \in Providers : Spaced(hits[p])

LEMMA HitsStep ==
    ASSUME IType, [Next]_vars
    PROVE  \/ UNCHANGED hits
           \/ Tick
           \/ \E p \in Providers : hits' = [hits EXCEPT ![p] = Recent(@)]
           \/ \E p \in Providers : Admits(hits[p])
                 /\ hits' = [hits EXCEPT ![p] = Append(Recent(@), 0)]
<1>1. CASE UNCHANGED vars
  BY <1>1 DEF vars
<1>2. ASSUME NEW r \in Requests, Permit(r)
      PROVE  \/ \E p \in Providers : hits' = [hits EXCEPT ![p] = Recent(@)]
             \/ \E p \in Providers : Admits(hits[p])
                   /\ hits' = [hits EXCEPT ![p] = Append(Recent(@), 0)]
  <2>1. ~ChainEnded(r)
    BY <1>2 DEF Permit, IType, Placed, Standing
  <2>2. Cand(r).provider \in Providers
    BY <2>1, CandType DEF IType
  <2> QED BY <1>2, <2>2 DEF Permit
<1>3. ASSUME NEW r \in Requests,
             \/ Arrive(r) \/ SkipUnknown(r) \/ SkipUnavailable(r) \/ SkipCooling(r)
             \/ SkipExhausted(r) \/ Admit(r) \/ StartProbing(r) \/ Probe(r)
             \/ RefuseLocally(r) \/ BookNeutral(r) \/ Fail(r)
      PROVE  UNCHANGED hits
  BY <1>3 DEF Arrive, SkipUnknown, SkipUnavailable, SkipCooling, SkipExhausted, Admit,
              StartProbing, Probe, RefuseLocally, BookNeutral, Fail, Shared
<1>4. ASSUME NEW r \in Requests,
             \/ Send(r) \/ SendFreeLane(r) \/ SwitchCredential(r) \/ Cancel(r)
             \/ BookSuccess(r) \/ BookModelFailure(r) \/ BookFailure(r)
             \/ \E answer \in Answers : Land(r, answer)
      PROVE  UNCHANGED hits
  BY <1>4 DEF Send, SendFreeLane, SwitchCredential, Cancel, BookSuccess, BookModelFailure,
              BookFailure, Land
<1>5. CASE ReadQuota \/ \E p \in Providers : RefreshPool(p)
  BY <1>5 DEF ReadQuota, RefreshPool
<1> QED BY <1>1, <1>2, <1>3, <1>4, <1>5 DEF Next, Walk

LEMMA SpacingStep ==
    ASSUME IType, Spacing, [Next]_vars
    PROVE  Spacing'
<1>1. hits \in [Providers -> Seq(Nat)]
  BY DEF IType, TypeOK
<1>2. CASE UNCHANGED hits
  BY <1>2 DEF Spacing
<1>3. CASE Tick
  <2>1. hits' = [p \in Providers |-> Older(hits[p], RateWindow)]
    BY <1>3 DEF Tick
  <2> QED BY <1>1, <2>1, SpacedWhenOlder DEF Spacing
<1>4. ASSUME NEW p \in Providers, hits' = [hits EXCEPT ![p] = Recent(@)]
      PROVE  Spacing'
  <2>1. Spaced(Recent(hits[p]))
    BY <1>1, SpacedWhenPruned DEF Spacing
  <2> QED BY <1>1, <1>4, <2>1 DEF Spacing
<1>5. ASSUME NEW p \in Providers, Admits(hits[p]),
             hits' = [hits EXCEPT ![p] = Append(Recent(@), 0)]
      PROVE  Spacing'
  <2>1. Spaced(Append(Recent(hits[p]), 0))
    BY <1>1, <1>5, SpacedWhenAdmitted DEF Spacing
  <2> QED BY <1>1, <1>5, <2>1 DEF Spacing
<1> QED BY <1>2, <1>3, <1>4, <1>5, HitsStep

LEMMA SpacedWithinRate ==
    ASSUME NEW ages \in Seq(Nat), Spaced(ages)
    PROVE  /\ Len(Recent(ages)) <= Rpm
           /\ \A i \in 1 .. Len(Recent(ages)) - 1 :
                 Recent(ages)[i] - Recent(ages)[i + 1] >= MinInterval
<1> DEFINE recent == Recent(ages)
<1>1. /\ Spaced(recent) /\ recent \in Seq(Nat)
      /\ \A i \in 1 .. Len(recent) : recent[i] <= RateWindow
  BY SpacedWhenPruned
<1> HIDE DEF recent
<1>2. Len(recent) \in Nat /\ RateNumbers
  BY <1>1, RateType
<1>3. Len(recent) <= Rpm
  <2>1. CASE Len(recent) = 0
    BY <1>2, <2>1 DEF RateNumbers
  <2>2. CASE Len(recent) > 0
    <3>1. 1 \in 1 .. Len(recent)
      BY <1>2, <2>2
    <3>2. Len(recent) - 1 < Rpm
      BY <1>1, <3>1 DEF Spaced
    <3> QED BY <1>2, <3>2 DEF RateNumbers
  <2> QED BY <1>2, <2>1, <2>2
<1>4. ASSUME NEW i \in 1 .. Len(recent) - 1
      PROVE  recent[i] - recent[i + 1] >= MinInterval
  <2>1. i \in 1 .. Len(recent)
    BY <1>2
  <2> QED BY <1>1, <2>1 DEF Spaced
<1> QED BY <1>3, <1>4 DEF recent

(* The permits a provider grants stay within its rate window, for every    *)
(* limit, interval and number of requests that wait (RateLimiter).         *)
THEOREM RateKept == Spec => []PermitsWithinRate
<1>1. Init => IType /\ Spacing
  <2> SUFFICES ASSUME Init PROVE Spacing
    BY TypeInit
  <2>1. Spaced(<< >>)
    BY DEF Spaced, OldestFirst
  <2> QED BY <2>1 DEF Init, Spacing
<1>2. IType /\ Spacing /\ [Next]_vars => (IType /\ Spacing)'
  BY TypeStep, SpacingStep
<1>3. IType /\ Spacing => PermitsWithinRate
  <2> SUFFICES ASSUME IType, Spacing, NEW p \in Providers
               PROVE  /\ Len(Recent(hits[p])) <= Rpm
                      /\ \A i \in 1 .. Len(Recent(hits[p])) - 1 :
                            Recent(hits[p])[i] - Recent(hits[p])[i + 1] >= MinInterval
    BY DEF PermitsWithinRate
  <2>1. hits[p] \in Seq(Nat) /\ Spaced(hits[p])
    BY DEF IType, TypeOK, Spacing
  <2> QED BY <2>1, SpacedWithinRate
<1> QED BY <1>1, <1>2, <1>3, PTL DEF Spec

-----------------------------------------------------------------------------
(* The failure window of a breaker: the counted failures are the latest    *)
(* ones of the current run of failures, and fewer than the threshold.      *)

(* tail is what ages ends with. *)
Ends(tail, ages) ==
    /\ Len(tail) <= Len(ages)
    /\ \A i \in 1 .. Len(tail) : tail[i] = ages[Len(ages) - Len(tail) + i]

LEMMA EndsOldestFirst ==
    ASSUME NEW tail \in Seq(Nat), NEW ages \in Seq(Nat), OldestFirst(ages), Ends(tail, ages)
    PROVE  OldestFirst(tail)
<1> SUFFICES ASSUME NEW i \in 1 .. Len(tail), NEW j \in 1 .. Len(tail), i <= j
             PROVE  tail[i] >= tail[j]
  BY DEF OldestFirst
<1> DEFINE skipped == Len(ages) - Len(tail)
<1>1. Len(ages) \in Nat /\ Len(tail) \in Nat /\ skipped \in Nat
  BY DEF Ends
<1>2. skipped + i \in 1 .. Len(ages) /\ skipped + j \in 1 .. Len(ages)
      /\ skipped + i <= skipped + j
  BY <1>1
<1>3. ages[skipped + i] >= ages[skipped + j]
  BY <1>2 DEF OldestFirst
<1> QED BY <1>3 DEF Ends

LEMMA EndsWhenOlder ==
    ASSUME NEW tail \in Seq(Nat), NEW ages \in Seq(Nat), Ends(tail, ages), NEW window \in Nat
    PROVE  Ends(Older(tail, window), Older(ages, window))
<1> DEFINE skipped == Len(ages) - Len(tail)
<1>1. Len(ages) \in Nat /\ Len(tail) \in Nat /\ skipped \in Nat
  BY DEF Ends
<1>2. /\ Len(Older(tail, window)) = Len(tail) /\ Len(Older(ages, window)) = Len(ages)
      /\ \A i \in 1 .. Len(tail) : Older(tail, window)[i] = Least(tail[i] + 1, window + 1)
      /\ \A i \in 1 .. Len(ages) : Older(ages, window)[i] = Least(ages[i] + 1, window + 1)
  BY OlderEntries
<1>3. ASSUME NEW i \in 1 .. Len(tail)
      PROVE  Older(tail, window)[i] = Older(ages, window)[skipped + i]
  <2>1. skipped + i \in 1 .. Len(ages)
    BY <1>1
  <2>2. tail[i] = ages[skipped + i]
    BY DEF Ends
  <2> QED BY <1>2, <2>1, <2>2
<1> QED BY <1>1, <1>2, <1>3 DEF Ends

(* One failure more, of which the history keeps the latest. *)
LEMMA EndsWhenStruck ==
    ASSUME NEW tail \in Seq(Nat), NEW ages \in Seq(Nat), OldestFirst(ages), Ends(tail, ages),
           Len(tail) < BreakerThreshold
    PROVE  /\ Latest(Append(ages, 0)) \in Seq(Nat)
           /\ OldestFirst(Latest(Append(ages, 0)))
           /\ Ends(Append(tail, 0), Latest(Append(ages, 0)))
           /\ Append(tail, 0) \in Seq(Nat)
           /\ OldestFirst(Append(tail, 0))
<1> DEFINE more == Append(ages, 0)
           kept == Latest(more)
           end == Append(tail, 0)
<1>1. /\ Len(ages) \in Nat /\ Len(tail) \in Nat /\ BreakerThreshold \in Nat
      /\ Len(tail) <= Len(ages)
  BY CircuitAssumption DEF Ends
<1>2. /\ more \in Seq(Nat) /\ Len(more) = Len(ages) + 1
      /\ \A i \in 1 .. Len(ages) : more[i] = ages[i]
      /\ more[Len(ages) + 1] = 0
      /\ OldestFirst(more)
  BY AppendEntries
<1>3. /\ end \in Seq(Nat) /\ Len(end) = Len(tail) + 1
      /\ \A i \in 1 .. Len(tail) : end[i] = tail[i]
      /\ end[Len(tail) + 1] = 0
      /\ OldestFirst(end)
  BY AppendEntries, EndsOldestFirst
<1> HIDE DEF more, end
<1>4. Ends(end, more)
  <2>0. Len(end) <= Len(more)
    BY <1>1, <1>2, <1>3
  <2> SUFFICES ASSUME NEW i \in 1 .. Len(end)
               PROVE  end[i] = more[Len(more) - Len(end) + i]
    BY <2>0 DEF Ends
  <2>1. Len(more) - Len(end) + i = Len(ages) - Len(tail) + i
    BY <1>1, <1>2, <1>3
  <2>2. CASE i = Len(tail) + 1
    <3>1. Len(ages) - Len(tail) + i = Len(ages) + 1
      BY <1>1, <2>2
    <3> QED BY <1>2, <1>3, <2>1, <2>2, <3>1
  <2>3. CASE i # Len(tail) + 1
    <3>1. i \in 1 .. Len(tail) /\ Len(ages) - Len(tail) + i \in 1 .. Len(ages)
      BY <1>1, <1>3, <2>3
    <3>2. tail[i] = ages[Len(ages) - Len(tail) + i]
      BY <3>1 DEF Ends
    <3> QED BY <1>2, <1>3, <2>1, <3>1, <3>2
  <2> QED BY <2>2, <2>3
<1>5. kept \in Seq(Nat) /\ OldestFirst(kept) /\ Ends(end, kept)
  <2>1. CASE ~(Len(more) > BreakerThreshold)
    BY <1>2, <1>4, <2>1 DEF Latest
  <2>2. CASE Len(more) > BreakerThreshold
    <3> DEFINE rest == Tail(more)
    <3>1. kept = rest
      BY <2>2 DEF Latest
    <3>2. more # << >>
      BY <1>1, <1>2
    <3>3. /\ rest \in Seq(Nat) /\ Len(rest) = Len(more) - 1
          /\ \A i \in 1 .. Len(rest) : rest[i] = more[i + 1]
      BY <1>2, <3>2, HeadTailProperties
    <3> HIDE DEF rest
    <3>4. Len(more) \in Nat /\ Len(rest) \in Nat
      BY <1>2, <3>3
    <3>5. OldestFirst(rest)
      <4> SUFFICES ASSUME NEW i \in 1 .. Len(rest), NEW j \in 1 .. Len(rest), i <= j
                   PROVE  rest[i] >= rest[j]
        BY DEF OldestFirst
      <4>1. i + 1 \in 1 .. Len(more) /\ j + 1 \in 1 .. Len(more) /\ i + 1 <= j + 1
        BY <3>3, <3>4
      <4>2. more[i + 1] >= more[j + 1]
        BY <1>2, <4>1 DEF OldestFirst
      <4> QED BY <3>3, <4>2
    <3>6. Ends(end, rest)
      <4>1. Len(end) <= Len(rest)
        BY <1>1, <1>2, <1>3, <2>2, <3>3
      <4>2. ASSUME NEW i \in 1 .. Len(end)
            PROVE  end[i] = rest[Len(rest) - Len(end) + i]
        <5>1. /\ Len(rest) - Len(end) + i \in 1 .. Len(rest)
              /\ (Len(rest) - Len(end) + i) + 1 = Len(more) - Len(end) + i
          BY <1>1, <1>3, <3>3, <3>4, <4>1
        <5>2. end[i] = more[Len(more) - Len(end) + i]
          BY <1>4 DEF Ends
        <5> QED BY <3>3, <5>1, <5>2
      <4> QED BY <4>1, <4>2 DEF Ends
    <3> QED BY <3>1, <3>3, <3>5, <3>6
  <2> QED BY <2>1, <2>2
<1> QED BY <1>3, <1>5 DEF more, end

(* What the end of a window counts is the end of what the window counts. *)
LEMMA EndsWithin ==
    ASSUME NEW tail \in Seq(Nat), NEW ages \in Seq(Nat), OldestFirst(ages), Ends(tail, ages),
           NEW window \in Nat
    PROVE  /\ Within(tail, window) \in Seq(Nat)
           /\ Ends(Within(tail, window), ages)
           /\ Len(Within(tail, window)) <= Len(Within(ages, window))
<1>1. Len(ages) \in Nat /\ Len(tail) \in Nat /\ Len(tail) <= Len(ages)
  BY DEF Ends
<1>2. OldestFirst(tail)
  BY EndsOldestFirst
<1> DEFINE kept == Within(tail, window)
           wide == Within(ages, window)
<1>3. PICK n \in 0 .. Len(tail) :
         /\ kept \in Seq(Nat) /\ Len(kept) = Len(tail) - n
         /\ \A i \in 1 .. Len(tail) - n : kept[i] = tail[n + i] /\ tail[n + i] <= window
         /\ \A i \in 1 .. Len(tail) : i <= n <=> tail[i] > window
  BY <1>2, WithinEntries
<1>4. PICK m \in 0 .. Len(ages) :
         /\ Len(wide) = Len(ages) - m
         /\ \A i \in 1 .. Len(ages) : i <= m <=> ages[i] > window
  BY WithinEntries
<1> HIDE DEF kept, wide
<1>5. Len(kept) <= Len(wide)
  <2>1. CASE n = Len(tail)
    <3>1. Len(kept) = 0 /\ Len(wide) \in Nat
      BY <1>1, <1>3, <1>4, <2>1
    <3> QED BY <3>1
  <2>2. CASE n # Len(tail)
    <3> DEFINE first == Len(ages) - Len(tail) + (n + 1)
    <3>1. n + 1 \in 1 .. Len(tail) /\ first \in 1 .. Len(ages) /\ ~(n + 1 <= n)
      BY <1>1, <2>2
    <3>2. ages[first] = tail[n + 1]
      BY <3>1 DEF Ends
    <3>3. ~(tail[n + 1] > window)
      BY <1>3, <3>1
    <3>4. ~(first <= m)
      BY <1>4, <3>1, <3>2, <3>3
    <3> QED BY <1>1, <1>3, <1>4, <3>4
  <2> QED BY <2>1, <2>2
<1>6. Ends(kept, ages)
  <2>1. Len(kept) <= Len(ages)
    BY <1>1, <1>3
  <2>2. ASSUME NEW i \in 1 .. Len(kept)
        PROVE  kept[i] = ages[Len(ages) - Len(kept) + i]
    <3>1. n + i \in 1 .. Len(tail) /\ i \in 1 .. Len(tail) - n
      BY <1>1, <1>3
    <3>2. Len(ages) - Len(tail) + (n + i) = Len(ages) - Len(kept) + i
      BY <1>1, <1>3
    <3>3. tail[n + i] = ages[Len(ages) - Len(tail) + (n + i)]
      BY <3>1 DEF Ends
    <3> QED BY <1>3, <3>1, <3>2, <3>3
  <2> QED BY <2>1, <2>2 DEF Ends
<1> QED BY <1>3, <1>5, <1>6 DEF kept, wide

Counts(h, ages) ==
    /\ OldestFirst(ages)
    /\ Ends(h.failures, ages)
    /\ Len(h.failures) < BreakerThreshold

Counting == \A k \in Keys : Counts(health[k], strikes[k])

LEMMA NothingCounted ==
    ASSUME NEW h, h.failures = << >>
    PROVE  Counts(h, << >>)
BY CircuitAssumption DEF Counts, OldestFirst, Ends

(* One more failure: the count stays, and it trips only if as many of the  *)
(* latest failures are in the window.                                      *)
LEMMA CountsWhenStruck ==
    ASSUME NEW h \in Health, NEW ages \in Seq(Nat), Counts(h, ages), NEW kind \in Kinds
    PROVE  /\ Counts(AfterFailure(h, kind), Latest(Append(ages, 0)))
           /\ AfterFailure(h, kind).breaker # h.breaker =>
                 Len(Within(Latest(Append(ages, 0)), BreakerWindow)) >= BreakerThreshold
<1> DEFINE kept == Latest(Append(ages, 0))
           end == Append(h.failures, 0)
           counted == Counted(h)
           wide == Within(kept, BreakerWindow)
           trips == Len(counted) >= BreakerThreshold
<1>1. h.failures \in Seq(Nat) /\ h.breaker \in Nat
  BY DEF Health
<1>2. BreakerWindow \in Nat /\ BreakerThreshold \in Nat \ {0}
  BY CircuitAssumption
<1>3. /\ kept \in Seq(Nat) /\ OldestFirst(kept) /\ Ends(end, kept)
      /\ end \in Seq(Nat)
  BY <1>1, EndsWhenStruck DEF Counts
<1> HIDE DEF kept, end
<1>4. counted \in Seq(Nat) /\ Ends(counted, kept) /\ Len(counted) <= Len(wide)
  BY <1>2, <1>3, EndsWithin DEF Counted, end
<1>5. /\ AfterFailure(h, kind).failures = IF trips THEN << >> ELSE counted
      /\ ~trips => AfterFailure(h, kind).breaker = h.breaker
  BY DEF AfterFailure, Health
<1>6. Len(counted) \in Nat /\ Len(kept) \in Nat
  BY <1>3, <1>4
<1> HIDE DEF counted
<1>7. CASE trips
  <2>1. AfterFailure(h, kind).failures = << >>
    BY <1>5, <1>7
  <2>2. Len(wide) >= BreakerThreshold
    <3>1. wide \in Seq(Nat)
      BY <1>2, <1>3, WithinType
    <3>2. Len(wide) \in Nat
      BY <3>1
    <3> QED BY <1>2, <1>4, <1>6, <1>7, <3>2
  <2>3. Counts(AfterFailure(h, kind), kept)
    BY <1>2, <1>3, <1>6, <2>1 DEF Counts, Ends
  <2> QED BY <2>2, <2>3 DEF kept
<1>8. CASE ~trips
  <2>1. AfterFailure(h, kind).failures = counted /\ Len(counted) < BreakerThreshold
    BY <1>2, <1>5, <1>6, <1>8
  <2>2. AfterFailure(h, kind).breaker = h.breaker
    BY <1>5, <1>8
  <2>3. Counts(AfterFailure(h, kind), kept)
    BY <1>3, <1>4, <2>1 DEF Counts
  <2> QED BY <2>2, <2>3 DEF kept
<1> QED BY <1>7, <1>8

LEMMA CountsWhenAged ==
    ASSUME NEW h \in Health, NEW ages \in Seq(Nat), Counts(h, ages)
    PROVE  /\ Counts(HealthAged(h), Older(ages, BreakerWindow))
           /\ ~(HealthAged(h).breaker > h.breaker)
<1>1. h.failures \in Seq(Nat) /\ h.breaker \in Nat /\ BreakerWindow \in Nat
  BY CircuitAssumption DEF Health
<1>2. /\ HealthAged(h).failures = Older(h.failures, BreakerWindow)
      /\ HealthAged(h).breaker = Left(h.breaker)
  BY DEF HealthAged, Health
<1>3. ~(Left(h.breaker) > h.breaker)
  BY <1>1 DEF Left, Most
<1>4. OldestFirst(Older(ages, BreakerWindow))
  BY <1>1, OlderEntries DEF Counts
<1>5. Ends(Older(h.failures, BreakerWindow), Older(ages, BreakerWindow))
  BY <1>1, EndsWhenOlder DEF Counts
<1>6. Len(Older(h.failures, BreakerWindow)) < BreakerThreshold
  BY <1>1, OlderEntries DEF Counts
<1> QED BY <1>2, <1>3, <1>4, <1>5, <1>6 DEF Counts

(* What a step does to the failures of a key and to its breaker. *)
SameWindow(h, g) == g.failures = h.failures /\ g.breaker = h.breaker

Untouched(k) == SameWindow(health[k], health'[k]) /\ strikes'[k] = strikes[k]
Forgiven(k) ==
    /\ health'[k].failures = << >> /\ health'[k].breaker = 0
    /\ strikes'[k] = << >>
Struck(k) ==
    /\ \E kind \in Kinds : health'[k] = AfterFailure(health[k], kind)
    /\ strikes'[k] = Latest(Append(strikes[k], 0))
Aged(k) ==
    /\ health'[k] = HealthAged(health[k])
    /\ strikes'[k] = Older(strikes[k], BreakerWindow)

LEMMA SlotsLeaveFailures ==
    ASSUME NEW h \in Health
    PROVE  SameWindow(h, SlotTaken(h)) /\ SameWindow(h, SlotReleased(h))
BY DEF SameWindow, SlotTaken, SlotReleased, Health

LEMMA KeyStep ==
    ASSUME IType, [Next]_vars, NEW k \in Keys
    PROVE  Untouched(k) \/ Forgiven(k) \/ Struck(k) \/ Aged(k)
<1>1. health \in [Keys -> Health] /\ strikes \in [Keys -> Seq(Nat)] /\ req \in [Requests -> Request]
  BY DEF IType, TypeOK
<1>2. ASSUME UNCHANGED <<health, strikes>>
      PROVE  Untouched(k)
  BY <1>2 DEF Untouched, SameWindow
<1>3. CASE UNCHANGED vars
  BY <1>2, <1>3 DEF vars
<1>4. ASSUME NEW r \in Requests,
             \/ Arrive(r) \/ SkipUnknown(r) \/ SkipUnavailable(r) \/ SkipCooling(r)
             \/ SkipExhausted(r) \/ Admit(r) \/ StartProbing(r) \/ Probe(r)
             \/ RefuseLocally(r) \/ BookNeutral(r) \/ Fail(r)
      PROVE  Untouched(k)
  <2>1. UNCHANGED Shared
    BY <1>4 DEF Arrive, SkipUnknown, SkipUnavailable, SkipCooling, SkipExhausted, Admit,
                StartProbing, Probe, RefuseLocally, BookNeutral, Fail
  <2> QED BY <1>2, <2>1 DEF Shared
<1>5. ASSUME NEW r \in Requests, Permit(r) \/ BookModelFailure(r)
      PROVE  Untouched(k)
  BY <1>2, <1>5 DEF Permit, BookModelFailure
<1>6. ASSUME NEW r \in Requests, Send(r) \/ SendFreeLane(r)
      PROVE  Untouched(k)
  <2>1. PICK key : health' = [health EXCEPT ![key] = SlotTaken(health[key])]
    BY <1>6 DEF Send, SendFreeLane
  <2>2. strikes' = strikes
    BY <1>6 DEF Send, SendFreeLane
  <2>3. health'[k] = health[k] \/ health'[k] = SlotTaken(health[k])
    BY <1>1, <2>1
  <2> QED BY <1>1, <2>2, <2>3, SlotsLeaveFailures DEF Untouched, SameWindow
<1>7. ASSUME NEW r \in Requests, SwitchCredential(r)
      PROVE  Untouched(k)
  <2>1. PICK key \in LaneKeys(Cand(r)) \ {req[r].key} :
           health' = [health EXCEPT ![req[r].key] = SlotReleased(@), ![key] = SlotTaken(@)]
    BY <1>7 DEF SwitchCredential
  <2>2. strikes' = strikes
    BY <1>7 DEF SwitchCredential
  <2>3. \/ health'[k] = health[k] \/ health'[k] = SlotTaken(health[k])
        \/ health'[k] = SlotReleased(health[k])
    BY <1>1, <2>1
  <2> QED BY <1>1, <2>2, <2>3, SlotsLeaveFailures DEF Untouched, SameWindow
<1>8. ASSUME NEW r \in Requests, Cancel(r) \/ \E answer \in Answers : Land(r, answer)
      PROVE  Untouched(k)
  <2>1. \/ health' = health
        \/ health' = [health EXCEPT ![req[r].key] = SlotReleased(@)]
    BY <1>8 DEF Cancel, Land
  <2>2. strikes' = strikes
    BY <1>8 DEF Cancel, Land
  <2>3. health'[k] = health[k] \/ health'[k] = SlotReleased(health[k])
    BY <1>1, <2>1
  <2> QED BY <1>1, <2>2, <2>3, SlotsLeaveFailures DEF Untouched, SameWindow
<1>9. ASSUME NEW r \in Requests, BookSuccess(r)
      PROVE  Untouched(k) \/ Forgiven(k)
  <2>1. /\ health' = [health EXCEPT ![req[r].key] = AfterSuccess(@)]
        /\ strikes' = [strikes EXCEPT ![req[r].key] = << >>]
    BY <1>9 DEF BookSuccess
  <2>2. CASE k = req[r].key
    <3>1. health'[k] = AfterSuccess(health[k]) /\ strikes'[k] = << >>
      BY <1>1, <2>1, <2>2
    <3> QED BY <3>1 DEF Forgiven, AfterSuccess, Healthy
  <2>3. CASE k # req[r].key
    BY <1>1, <2>1, <2>3 DEF Untouched, SameWindow
  <2> QED BY <2>2, <2>3
<1>10. ASSUME NEW r \in Requests, BookFailure(r)
       PROVE  Untouched(k) \/ Struck(k)
  <2>1. /\ health' = [health EXCEPT ![req[r].key] = AfterFailure(@, req[r].answer.kind)]
        /\ strikes' = [strikes EXCEPT ![req[r].key] = Latest(Append(@, 0))]
        /\ req[r].answer \in Failures
    BY <1>10 DEF BookFailure
  <2>2. req[r].answer.kind \in Kinds
    BY <2>1 DEF Failures
  <2>3. CASE k = req[r].key
    BY <1>1, <2>1, <2>2, <2>3 DEF Struck
  <2>4. CASE k # req[r].key
    BY <1>1, <2>1, <2>4 DEF Untouched, SameWindow
  <2> QED BY <2>3, <2>4
<1>11. CASE ReadQuota \/ \E p \in Providers : RefreshPool(p)
  BY <1>2, <1>11 DEF ReadQuota, RefreshPool
<1>12. CASE Tick
  BY <1>12 DEF Tick, Aged
<1> QED BY <1>3, <1>4, <1>5, <1>6, <1>7, <1>8, <1>9, <1>10, <1>11, <1>12 DEF Next, Walk

LEMMA CountingStep ==
    ASSUME IType, Counting, [Next]_vars, NEW k \in Keys
    PROVE  /\ Counts(health'[k], strikes'[k])
           /\ health'[k].breaker > health[k].breaker =>
                 Len(Within(strikes'[k], BreakerWindow)) >= BreakerThreshold
<1>1. /\ health[k] \in Health /\ strikes[k] \in Seq(Nat) /\ health[k].breaker \in Nat
      /\ Counts(health[k], strikes[k])
  BY DEF IType, TypeOK, Counting, Health
<1>2. CASE Untouched(k)
  BY <1>1, <1>2 DEF Untouched, SameWindow, Counts
<1>3. CASE Forgiven(k)
  BY <1>1, <1>3, NothingCounted DEF Forgiven
<1>4. CASE Struck(k)
  <2>1. PICK kind \in Kinds : health'[k] = AfterFailure(health[k], kind)
    BY <1>4 DEF Struck
  <2>2. AfterFailure(health[k], kind).breaker \in Nat
    BY <1>1, FailureType DEF Health
  <2> QED BY <1>1, <1>4, <2>1, <2>2, CountsWhenStruck DEF Struck
<1>5. CASE Aged(k)
  BY <1>1, <1>5, CountsWhenAged DEF Aged
<1> QED BY <1>2, <1>3, <1>4, <1>5, KeyStep

(* A breaker opens only after BreakerThreshold failures of its key in a    *)
(* row, all within the window, whatever order the answers of concurrent    *)
(* requests are booked in (record_failure, record_success).                *)
THEOREM BreakersEarned == Spec => BreakerEarned
<1>1. Init => IType /\ Counting
  <2> SUFFICES ASSUME Init, NEW k \in Keys PROVE Counts(health[k], strikes[k])
    BY TypeInit DEF Counting
  <2>1. health[k].failures = << >> /\ strikes[k] = << >>
    BY DEF Init, Healthy
  <2> QED BY <2>1, NothingCounted
<1>2. IType /\ Counting /\ [Next]_vars => (IType /\ Counting)'
  BY TypeStep, CountingStep DEF Counting
<1>3. IType /\ Counting /\ [Next]_vars =>
         [\A k \in Keys :
            health'[k].breaker > health[k].breaker =>
               Len(Within(strikes'[k], BreakerWindow)) >= BreakerThreshold]_vars
  BY CountingStep
<1> QED BY <1>1, <1>2, <1>3, PTL DEF Spec, BreakerEarned
=============================================================================
