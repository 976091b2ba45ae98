---------------------------- MODULE CircuitStore ----------------------------
(***************************************************************************)
(* The health kept per circuit key (router/circuit.rs) and the sliding     *)
(* rate window kept per provider (router/rate.rs), as operators on their   *)
(* records.  The code stores instants and compares them with the monotonic *)
(* clock; here a deadline is the number of ticks left (0 = passed or never *)
(* set) and a recorded hit or failure is its age in ticks.                 *)
(***************************************************************************)
EXTENDS Integers, Sequences, SequencesExt, FiniteSets

CONSTANTS
    ConcurrencyLimit,  \* in-flight requests per key
    CooldownOf,        \* cooldown per failure kind that has a fixed one
    ModelPause,        \* model-level cooldown of the other kinds
    BackoffMax, BackoffMaxLevel,
    BreakerThreshold, BreakerWindow, BreakerCooldown,
    Rpm, RateWindow, MinInterval

Transient == {"Server", "Network"}
Kinds == {"Auth", "Payment", "NotFound", "RateLimit"} \cup Transient

ASSUME CircuitAssumption ==
    /\ CooldownOf \in [Kinds \ Transient -> Nat]
    /\ {ModelPause, BackoffMax, BackoffMaxLevel, BreakerWindow, BreakerCooldown} \subseteq Nat
    /\ \A level \in 0 .. BackoffMaxLevel : 2 ^ level \in Nat
    /\ {ConcurrencyLimit, BreakerThreshold, Rpm, RateWindow, MinInterval} \subseteq Nat \ {0}

Least(a, b) == IF a < b THEN a ELSE b
Most(a, b) == IF a > b THEN a ELSE b

(* Slip: a deadline that passed keeps counting down. *)
LeftBelowZero(n) == n - 1

(* One tick off a deadline; one tick more on an age.  An age past its      *)
(* window is dropped before it is next counted, so ages stop just past it. *)
Left(n) == Most(n - 1, 0)
Older(ages, window) == [i \in DOMAIN ages |-> Least(ages[i] + 1, window + 1)]

(* The entries within the window: ages are kept oldest first, so the       *)
(* expired ones, popped from the front, are a prefix.                      *)
Within(ages, window) ==
    LET expired == {i \in DOMAIN ages : ages[i] > window}
    IN  SubSeq(ages, Cardinality(expired) + 1, Len(ages))

-----------------------------------------------------------------------------
Health == [cooldown : Nat, level : Nat, failures : Seq(Nat), breaker : Nat, inFlight : Nat]

Healthy == [cooldown |-> 0, level |-> 0, failures |-> << >>, breaker |-> 0, inFlight |-> 0]

Available(h) ==
    /\ h.cooldown = 0
    /\ h.breaker = 0
    /\ h.inFlight < ConcurrencyLimit

(* Exponential backoff, one tick doubled per level. *)
Backoff(level) == Least(2 ^ Least(level, BackoffMaxLevel), BackoffMax)

NextLevel(h, kind) ==
    IF kind \in Transient THEN Least(h.level + 1, BackoffMaxLevel) ELSE h.level

Cooldown(h, kind) ==
    IF kind \in Transient THEN Backoff(NextLevel(h, kind)) ELSE CooldownOf[kind]

(* The failures counted after one more, the expired ones dropped. *)
Counted(h) == Within(Append(h.failures, 0), BreakerWindow)

AfterFailure(h, kind) ==
    LET trips == Len(Counted(h)) >= BreakerThreshold
    IN  [h EXCEPT !.level = NextLevel(h, kind),
                  !.cooldown = Cooldown(h, kind),
                  !.failures = IF trips THEN << >> ELSE Counted(h),
                  !.breaker = IF trips THEN BreakerCooldown ELSE @]

(* Slip: a success leaves the failures it follows on the count. *)
SuccessKeepsFailures(h) == [h EXCEPT !.cooldown = 0, !.level = 0, !.breaker = 0]

AfterSuccess(h) == [Healthy EXCEPT !.inFlight = h.inFlight]

(* Slip: the slot is not given back. *)
SlotKept(h) == h

SlotTaken(h) == [h EXCEPT !.inFlight = @ + 1]
SlotReleased(h) == [h EXCEPT !.inFlight = Most(@ - 1, 0)]

(* How long a model-level verdict pauses the model. *)
ModelCooldown(kind) ==
    IF kind \in {"RateLimit", "Auth", "Payment"} THEN CooldownOf[kind] ELSE ModelPause

HealthAged(h) ==
    [h EXCEPT !.cooldown = Left(@), !.breaker = Left(@), !.failures = Older(@, BreakerWindow)]

-----------------------------------------------------------------------------
(* The rate window of a provider: the ages of the admitted hits, oldest    *)
(* first.                                                                  *)
Recent(hits) == Within(hits, RateWindow)

(* Slip: the interval since the last hit is not checked. *)
AdmitsBurst(hits) == Len(Recent(hits)) < Rpm

Admits(hits) ==
    /\ Len(Recent(hits)) < Rpm
    /\ Recent(hits) # << >> => Last(Recent(hits)) >= MinInterval

(* Ticks until the next release point (0 = now). *)
NextSlot(hits) ==
    Most(IF Len(hits) >= Rpm THEN Most(RateWindow - Head(hits), 0) ELSE 0,
         IF hits # << >> THEN Most(MinInterval - Last(hits), 0) ELSE 0)
=============================================================================
