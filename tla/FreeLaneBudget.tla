--------------------------- MODULE FreeLaneBudget ---------------------------
(***************************************************************************)
(* Concurrent requests of the OpenCode free lane and the budget they       *)
(* share.  A request walks the credentials (begin), flies with one of      *)
(* them, releases its in-flight guard, and only then, in a critical        *)
(* section of its own, books the upstream's verdict: other requests run    *)
(* between any two of these steps.  A refused credential joins the         *)
(* request's `tried` list and the walk starts over.                        *)
(*                                                                         *)
(* A refused request may retry once on a warm session, and one that finds  *)
(* the budget exhausted may probe some (opencode_free_session_fallback).   *)
(* Which sessions there are is the subject of WarmSessions and left open.  *)
(*                                                                         *)
(* The upstream is external: it may serve, refuse for quota with any       *)
(* Retry-After, fail otherwise, or be out of reach behind a proxy.         *)
(***************************************************************************)
EXTENDS BudgetFile, FiniteSets, Functions

CONSTANTS
    Requests,     \* concurrent chat turns
    AutoRouted,   \* those resolved through auto/free
    ModelOf,      \* the model a request asks for
    RetryAfters,  \* Retry-After values the upstream may answer, 0 = absent
    Fallback,     \* is opencode_free_session_fallback on?
    ProbeAttempts,\* WARM_PROBE_ATTEMPTS
    Skew,         \* how old a clock reading can be when the lock is taken
    MaxTurns,     \* bound on the arrivals
    MaxTime       \* bound on the clock

ASSUME RequestAssumption ==
    /\ IsFiniteSet(Requests)
    /\ AutoRouted \subseteq Requests
    /\ ModelOf \in [Requests -> Models]
    /\ RetryAfters \subseteq Nat
    /\ Fallback \in BOOLEAN
    /\ {ProbeAttempts, Skew, MaxTurns, MaxTime} \subseteq Nat
    /\ None \notin Buckets

VARIABLES
    now,        \* the wall clock
    file,       \* the shared accounting file
    inFlight,   \* outstanding guards the program counts per bucket
    cursor,     \* round-robin cursor
    req,        \* the local state of each request
    turns,      \* arrivals so far
    ledger,     \* history: reservations of the window, minus those given back
    late,       \* history: reservations of another window given back in this one
    probed      \* history: the part of the ledger that is warm probes

history == <<ledger, late, probed>>
vars == <<now, file, inFlight, cursor, req, turns, ledger, late, probed>>

(* retrying: refunded, about to reserve again for the warm retry;          *)
(* demoted: a failed probe, refunded, that still holds its guard.          *)
Phases == {"idle", "walking", "flying", "tunnelDown", "served", "refused", "dead",
           "retrying", "probing", "demoted"}

(* Phases in which no bucket is the request's. *)
Undispatched == {"idle", "walking", "probing"}

(* Phases in which the request owns an in-flight guard. *)
Guarded == {"flying", "tunnelDown", "demoted"}

(* held: the bucket it was dispatched with; tried: the buckets it must not *)
(* be given again; retryAfter: what its 429 advertised; warm: what it has  *)
(* asked of warm sessions; lost: a tunnel has failed it (last_egress_error *)
(* is set); probes: warm sessions left to probe; booked (history): the     *)
(* window its reservation was charged to.                                  *)
Request == [phase : Phases, held : Buckets \cup {None}, tried : SUBSET Buckets,
            retryAfter : Nat, booked : Nat, warm : {"unused", "retry", "spent", "probe"},
            lost : BOOLEAN, probes : 0 .. ProbeAttempts]

Idle == [phase |-> "idle", held |-> None, tried |-> {}, retryAfter |-> 0, booked |-> 0,
         warm |-> "unused", lost |-> FALSE, probes |-> 0]

(* Slip: the buckets already tried are forgotten. *)
WalkingAfresh(q, lost) ==
    [Idle EXCEPT !.phase = "walking", !.lost = lost,
                 !.warm = IF q.warm = "retry" THEN "spent" ELSE q.warm]

(* The request q walks on, without the bucket that failed it. *)
Walking(q, lost) ==
    [phase |-> "walking", held |-> None, tried |-> q.tried \cup {q.held}, retryAfter |-> 0,
     booked |-> 0, warm |-> IF q.warm = "retry" THEN "spent" ELSE q.warm,
     lost |-> lost, probes |-> 0]

(* now_ms() is read before the lock is taken; it is never 0, the "never".   *)
Stamps == {t \in 1 .. now : now <= t + Skew}

(* The cursor matters modulo the number of accounts only. *)
CursorModulus == AtLeast(Len(AccountPlan), 1)

Init ==
    /\ now = 1
    /\ file = FreshFile
    /\ inFlight = [b \in Buckets |-> 0]
    /\ cursor = 0
    /\ req = [r \in Requests |-> Idle]
    /\ turns = 0
    /\ ledger = [b \in Buckets |-> 0]
    /\ late = [b \in Buckets |-> 0]
    /\ probed = [b \in Buckets |-> 0]

(* History of a step that rolls the window when it has changed. *)
Rolled(h, t) == IF file.window = WindowDay(t) THEN h ELSE [b \in Buckets |-> 0]

RollHistory(t) ==
    ledger' = Rolled(ledger, t) /\ late' = Rolled(late, t) /\ probed' = Rolled(probed, t)

(* egress_parked: the gate auto/free asks before it lists the roster. *)
EgressParked(f) == f.exits[Direct].scope = "egress"

(* A request enters the lane.  One that came through auto/free is turned   *)
(* away while the direct dial is parked.                                   *)
Arrive(r) ==
    /\ req[r].phase = "idle"
    /\ r \notin AutoRouted
    /\ turns < MaxTurns /\ turns' = turns + 1
    /\ req' = [req EXCEPT ![r].phase = "walking"]
    /\ UNCHANGED <<now, file, inFlight, cursor, history>>

ArriveAuto(r) ==
    \E t \in Stamps :
    /\ req[r].phase = "idle"
    /\ r \in AutoRouted
    /\ turns < MaxTurns /\ turns' = turns + 1
    /\ file' = Rollover(file, t)
    /\ RollHistory(t)
    /\ req' = IF EgressParked(file') THEN req ELSE [req EXCEPT ![r].phase = "walking"]
    /\ UNCHANGED <<now, inFlight, cursor>>

(* What begin is given: the warm retry asks for its own credential again.  *)
Asked(r) == IF req[r].phase = "retrying" THEN <<req[r].held>> ELSE Order(cursor)
Excluded(r) == IF req[r].phase = "retrying" THEN {} ELSE req[r].tried

(* begin returns Ready: charge the bucket and take a slot. *)
Reserve(r) ==
    \E t \in Stamps : \E i \in DOMAIN Asked(r) :
    LET f == Rollover(file, t)
        order == Asked(r)
        b == order[i]
        seen == {order[j] : j \in 1 .. i} \ Excluded(r) IN
    /\ req[r].phase \in {"walking", "retrying"}
    /\ FirstReady(f, inFlight, order, Excluded(r), t, i)
    /\ file' = AfterReserve(f, seen, b, t)
    /\ inFlight' = [inFlight EXCEPT ![b] = @ + 1]
    /\ cursor' = (cursor + 1) % CursorModulus
    /\ req' = [req EXCEPT ![r].phase = "flying", ![r].held = b, ![r].booked = f.window]
    /\ ledger' = [Rolled(ledger, t) EXCEPT ![b] = @ + 1]
    /\ late' = Rolled(late, t)
    /\ probed' = Rolled(probed, t)
    /\ UNCHANGED <<now, turns>>

(* begin returns Busy or Exhausted. *)
WalkInVain(r, t) ==
    LET f == Rollover(file, t)
        order == Asked(r) IN
    /\ req[r].phase \in {"walking", "retrying"}
    /\ NoneReady(f, inFlight, order, Excluded(r), t)
    /\ file' = AfterWalk(f, {order[i] : i \in DOMAIN order} \ Excluded(r), t)
    /\ RollHistory(t)
    /\ UNCHANGED <<now, inFlight, cursor, turns>>

(* A busy walk is repeated every SLOT_POLL_MS until the slot deadline. *)
PollSlot(r) ==
    \E t \in Stamps :
    /\ req[r].phase = "walking"
    /\ SomeBusy(Rollover(file, t), inFlight, Order(cursor), req[r].tried, t)
    /\ WalkInVain(r, t)
    /\ UNCHANGED req

(* Exhausted without a warm session to probe, busy past the deadline, or   *)
(* no slot for the warm retry: the request leaves the lane.                *)
LeaveLane(r) ==
    \E t \in Stamps : WalkInVain(r, t) /\ req' = [req EXCEPT ![r] = Idle]

(* Exhausted: probe warm sessions, unless a tunnel failed the request or   *)
(* its warm retry is spent.                                                *)
StartProbing(r) ==
    \E t \in Stamps : \E n \in 1 .. ProbeAttempts :
    /\ Fallback
    /\ req[r].phase = "walking" /\ req[r].warm = "unused" /\ ~req[r].lost
    /\ ~SomeBusy(Rollover(file, t), inFlight, Order(cursor), req[r].tried, t)
    /\ WalkInVain(r, t)
    /\ req' = [req EXCEPT ![r].phase = "probing", ![r].warm = "probe", ![r].probes = n]

(* begin_warm_probe returns Ready.  It rotates the whole list by the       *)
(* cursor; which credential comes first is left open here.                 *)
ReserveProbe(r) ==
    \E t \in Stamps : \E b \in Range(Order(cursor)) \ req[r].tried :
    LET f == Rollover(file, t) IN
    /\ req[r].phase = "probing" /\ req[r].probes > 0
    /\ Probeable(f, inFlight, b, t)
    /\ file' = AfterWarmProbe(f, b)
    /\ inFlight' = [inFlight EXCEPT ![b] = @ + 1]
    /\ cursor' = (cursor + 1) % CursorModulus
    /\ req' = [req EXCEPT ![r].phase = "flying", ![r].held = b, ![r].booked = f.window,
                          ![r].probes = @ - 1]
    /\ ledger' = [Rolled(ledger, t) EXCEPT ![b] = @ + 1]
    /\ probed' = [Rolled(probed, t) EXCEPT ![b] = @ + 1]
    /\ late' = Rolled(late, t)
    /\ UNCHANGED <<now, turns>>

(* No session left to probe, or no credential to probe it with. *)
EndProbing(r) ==
    \E t \in Stamps :
    LET f == Rollover(file, t) IN
    /\ req[r].phase = "probing"
    /\ \/ req[r].probes = 0 /\ UNCHANGED <<file, history>>
       \/ /\ req[r].probes > 0
          /\ \A b \in Range(Order(cursor)) \ req[r].tried : ~Probeable(f, inFlight, b, t)
          /\ file' = f
          /\ RollHistory(t)
    /\ req' = [req EXCEPT ![r] = Idle]
    /\ UNCHANGED <<now, inFlight, cursor, turns>>

(* Dropping the guard gives the slot back. *)
ReleaseGuard(b) == inFlight' = [inFlight EXCEPT ![b] = IF @ > 0 THEN @ - 1 ELSE 0]

(* The upstream answered, or the client hung up: either way the guard      *)
(* goes first.  Failures of another kind are neither refunded nor noted,   *)
(* and neither is the success of the warm retry.                           *)
Served(r) ==
    /\ req[r].phase = "flying" /\ req[r].warm # "retry"
    /\ req' = [req EXCEPT ![r].phase = "served"]
    /\ ReleaseGuard(req[r].held)
    /\ UNCHANGED <<now, file, cursor, turns, history>>

Refuse(r) ==
    \E ra \in RetryAfters :
    /\ req[r].phase = "flying" /\ req[r].warm # "probe"
    /\ req' = [req EXCEPT ![r].phase = "refused", ![r].retryAfter = ra]
    /\ ReleaseGuard(req[r].held)
    /\ UNCHANGED <<now, file, cursor, turns, history>>

Abandon(r) ==
    /\ req[r].phase = "flying"
    /\ req' = [req EXCEPT ![r] = Idle]
    /\ ReleaseGuard(req[r].held)
    /\ UNCHANGED <<now, file, cursor, turns, history>>

(* The tunnel to the proxy failed: the exit cools while the guard is held. *)
TunnelFails(r) ==
    \E t \in Stamps :
    /\ req[r].phase = "flying" /\ ExitOf[req[r].held] # Direct
    /\ file' = AfterEgressFailure(Rollover(file, t), ExitOf[req[r].held], t)
    /\ req' = [req EXCEPT ![r].phase = "tunnelDown"]
    /\ RollHistory(t)
    /\ UNCHANGED <<now, inFlight, cursor, turns>>

(* The warm retry ends with its tunnel. *)
LeaveTunnel(r) ==
    /\ req[r].phase = "tunnelDown" /\ req[r].warm # "probe"
    /\ req' = IF req[r].warm = "retry" THEN [req EXCEPT ![r] = Idle]
                                      ELSE [req EXCEPT ![r].phase = "dead"]
    /\ ReleaseGuard(req[r].held)
    /\ UNCHANGED <<now, file, cursor, turns, history>>

(* refund: the reservation is given back. *)
GiveBack(r) ==
    LET b == req[r].held IN
    /\ file' = AfterRefund(file, b)
    /\ IF req[r].booked = file.window
         THEN /\ ledger' = [ledger EXCEPT ![b] = @ - 1] /\ late' = late
              /\ probed' = [probed EXCEPT ![b] =
                               IF req[r].warm = "probe" THEN AtLeast(@ - 1, 0) ELSE @]
         ELSE /\ late' = [late EXCEPT ![b] = @ + 1]
              /\ ledger' = ledger /\ probed' = probed
    /\ UNCHANGED <<now, inFlight, cursor, turns>>

(* A request that never reached the upstream rotates to another bucket. *)
Refund(r) ==
    /\ req[r].phase = "dead"
    /\ GiveBack(r)
    /\ req' = [req EXCEPT ![r] = Walking(@, TRUE)]

(* A long Retry-After on a fresh session is taken for a refused admission: *)
(* the attempt is given back and repeated on a warm session.               *)
RetryWarm(r) ==
    /\ Fallback
    /\ req[r].phase = "refused" /\ req[r].warm = "unused"
    /\ ~ShortBurst(req[r].retryAfter)
    /\ GiveBack(r)
    /\ req' = [req EXCEPT ![r].phase = "retrying", ![r].warm = "retry"]

(* A probe that was refused, or failed, is given back before its guard.    *)
RefundProbe(r) ==
    /\ req[r].phase \in {"flying", "tunnelDown"} /\ req[r].warm = "probe"
    /\ GiveBack(r)
    /\ req' = [req EXCEPT ![r].phase = "demoted"]

LeaveProbe(r) ==
    /\ req[r].phase = "demoted"
    /\ req' = [req EXCEPT ![r].phase = "probing", ![r].held = None, ![r].booked = 0]
    /\ ReleaseGuard(req[r].held)
    /\ UNCHANGED <<now, file, cursor, turns, history>>

NoteSuccess(r) ==
    \E t \in Stamps :
    /\ req[r].phase = "served"
    /\ file' = AfterSuccess(Rollover(file, t), req[r].held, ModelOf[r], t)
    /\ req' = [req EXCEPT ![r] = Idle]
    /\ RollHistory(t)
    /\ UNCHANGED <<now, inFlight, cursor, turns>>

(* A 429 that teaches the egress lesson ends the request: its siblings     *)
(* would only burn one 429 each.                                           *)
NoteQuota429(r) ==
    \E t \in Stamps :
    LET f == Rollover(file, t)
        b == req[r].held
        lesson == LearnsEgress(f, b, ModelOf[r], req[r].retryAfter, t) IN
    /\ req[r].phase = "refused"
    /\ file' = AfterQuota429(f, b, ModelOf[r], req[r].retryAfter, t)
    /\ req' = [req EXCEPT ![r] = IF lesson THEN Idle ELSE Walking(@, @.lost)]
    /\ RollHistory(t)
    /\ UNCHANGED <<now, inFlight, cursor, turns>>

Tick == /\ now < MaxTime
        /\ now' = now + 1
        /\ UNCHANGED <<file, inFlight, cursor, req, turns, history>>

Next ==
    \/ Tick
    \/ \E r \in Requests :
         \/ Arrive(r) \/ ArriveAuto(r) \/ Reserve(r) \/ PollSlot(r) \/ LeaveLane(r)
         \/ Served(r) \/ Refuse(r) \/ Abandon(r) \/ TunnelFails(r) \/ LeaveTunnel(r)
         \/ Refund(r) \/ NoteSuccess(r) \/ NoteQuota429(r)
         \/ RetryWarm(r) \/ StartProbing(r) \/ ReserveProbe(r) \/ RefundProbe(r)
         \/ LeaveProbe(r) \/ EndProbing(r)

Spec == Init /\ [][Next]_vars

(***************************************************************************)
(* Fairness: a request inside the lane keeps executing; the upstream       *)
(* answers or the request times out (request_timeout_ms), and a tunnel     *)
(* failure is such an answer too; a busy walk is abandoned at the slot     *)
(* deadline.  Arrivals and the clock are not fair.                         *)
(***************************************************************************)
Progress(r) ==
    \/ Reserve(r) \/ LeaveLane(r) \/ Served(r) \/ Refuse(r) \/ Abandon(r)
    \/ TunnelFails(r) \/ LeaveTunnel(r) \/ Refund(r) \/ NoteSuccess(r) \/ NoteQuota429(r)
    \/ RetryWarm(r) \/ StartProbing(r) \/ ReserveProbe(r) \/ RefundProbe(r)
    \/ LeaveProbe(r) \/ EndProbing(r)

FairSpec == Spec /\ \A r \in Requests : WF_vars(Progress(r))

-----------------------------------------------------------------------------
(* Safety *)

TypeOK ==
    /\ now \in Nat
    /\ file \in File
    /\ inFlight \in [Buckets -> Nat]
    /\ turns \in Nat
    /\ cursor \in 0 .. CursorModulus - 1
    /\ req \in [Requests -> Request]
    /\ \A r \in Requests : req[r].phase \notin Undispatched => req[r].held \in Buckets
    /\ ledger \in [Buckets -> Int] /\ {late, probed} \subseteq [Buckets -> Nat]

Guards(b) == {r \in Requests : req[r].phase \in Guarded /\ req[r].held = b}

(* The in-flight counter of a bucket is the number of live guards, and     *)
(* never exceeds the configured cap, however walks, answers, hang-ups and  *)
(* tunnel failures interleave: no slot leaks and none is given back twice. *)
SlotsMatchGuards ==
    \A b \in Buckets :
        /\ inFlight[b] = Cardinality(Guards(b))
        /\ MaxInFlight > 0 => inFlight[b] <= MaxInFlight

(* One window never dispatches more through a bucket than its configured   *)
(* daily ceiling, but for the warm probes (begin_warm_probe) that are not  *)
(* given back, and one request per refund that arrives after midnight for  *)
(* a reservation of the day before.                                        *)
SpendBound == \A b \in Buckets : ledger[b] <= Limit[b] + late[b] + probed[b]

(* A ceiling learned this window is tighter than the one it replaced, as   *)
(* long as the replaced one can still be restored: a second 429 of the     *)
(* window must not lose the value to restore nor raise the ceiling.        *)
ProvisionalCeilingTightens ==
    \A b \in Buckets :
        LET k == file.buckets[b] IN
        k.prev # None => k.learned > 0 /\ (k.prev.limit > 0 => k.learned <= k.prev.limit)

(* Does the step dispatch request r, or end its verdict of this phase?     *)
Dispatches(r) == req[r].phase # "flying" /\ req'[r].phase = "flying"
Ends(r, p) == req[r].phase = p /\ req'[r].phase # p

(* Does the step dispatch r through e, parked in the window it books on?   *)
LeavesParked(r, e) ==
    /\ Dispatches(r) /\ req[r].phase # "probing" /\ ExitOf[req'[r].held] = e
    /\ file.exits[e].scope = "egress" /\ file'.window = file.window

(* While an exit is parked, a credential leaves through it only as the     *)
(* half-open probe: the probe stamps the exit, with a moment that lies at  *)
(* most Skew back and a recheck interval after the stamp before, so that   *)
(* probes stay an interval apart whichever readings they were given.  This *)
(* also holds for a bucket no request had created yet, and for the warm    *)
(* retry; the warm probe alone passes the verdict by.  (A lesson is one of *)
(* a window: the walk that rolls the window forgets it.)                   *)
ParkedExitOnlyProbed ==
    [][\A r \in Requests, e \in Exits :
         LeavesParked(r, e) =>
             /\ file'.exits[e].probe >= file.exits[e].probe + Recheck
             /\ file'.exits[e].probe \in Stamps]_vars

(* A bucket is cooled only by a 429 of its own exit, and a running         *)
(* cooldown is cut short only by a success on its exit or by a walk whose  *)
(* exit is due for a half-open probe: a verdict on one proxy never parks   *)
(* or frees the direct dial or another proxy.                              *)
CoolingFollowsItsExit ==
    [][\A b \in Buckets :
         LET e == ExitOf[b]
             before == file.buckets[b].cooldown
             after == file'.buckets[b].cooldown IN
         /\ after > before =>
              \E r \in Requests : Ends(r, "refused") /\ ExitOf[req[r].held] = e
         /\ after < before /\ before > now =>
              \/ \E r \in Requests : Ends(r, "served") /\ ExitOf[req[r].held] = e
              \/ /\ now - file.exits[e].probe >= Recheck
                 /\ \E r \in Requests : req[r].phase \in {"walking", "retrying"}]_vars

(* Every request that enters the lane leaves it: each failed credential is *)
(* tried once, so the walk cannot spin on a dead tunnel or on a 429 with a *)
(* short Retry-After.                                                      *)
RequestsLeave == \A r \in Requests : []<>(req[r].phase = "idle")

-----------------------------------------------------------------------------
(* What comments of the program claim and the code does not do *)

(* `used` is what was charged in the window: a refund gives back only what *)
(* this window charged.                                                    *)
UsedCountsTheWindow == \A b \in Buckets : file.buckets[b].used = ledger[b]

(* While auto/free turns requests away no proxy has a usable bucket.       *)
GateSparesProxies ==
    LET f == Rollover(file, now) IN
    EgressParked(f) =>
        \A b \in Buckets : ExitOf[b] # Direct => ~Ready(f, inFlight, b, now)

=============================================================================
