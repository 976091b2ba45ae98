---------------------------- MODULE QuotaReadings ----------------------------
(***************************************************************************)
(* The subscription quota a refresher reads from the providers, one        *)
(* credential after another, and publishes for the routing gate.  The loop *)
(* of the background task and a refresh asked for by the operator run the  *)
(* same round side by side.                                                *)
(***************************************************************************)
EXTENDS Naturals, Sequences

CONSTANTS
    Credentials,    \* how many distinct keys there are to ask for
    Fresh           \* ticks a reading may be acted upon

Refreshers == {"background", "manual"}

(* A reading: a failed request, a prepaid balance or a quota window with   *)
(* what is left of it (0 nothing, 1 a lot) and whether the provider says   *)
(* it is limited.  A balance shows no window, which counts as plenty.      *)
Reading(kind, left, limited) == [kind |-> kind, left |-> left, limited |-> limited, age |-> 0]
Failed == Reading("error", 0, FALSE)
Balance == Reading("balance", 2, FALSE)
NoReading == Reading("none", 2, FALSE)
QuotaAnswers == {Failed, Balance} \union
                {Reading("window", left, limited) : left \in 0..1, limited \in BOOLEAN}

VARIABLES
    published,      \* what the gate looks at
    round           \* of each refresher: who is next, and the tightest so far

quotaVars == <<published, round>>

Idle == [next |-> 0, tightest |-> NoReading]

QuotaInit ==
    /\ published = NoReading
    /\ round = [q \in Refreshers |-> Idle]

(* With no credential at all a round has nothing to ask or to publish.     *)
StartQuotaRound(q) ==
    /\ round[q].next = 0
    /\ round' = [round EXCEPT ![q] = [next |-> 1, tightest |-> NoReading]]
    /\ UNCHANGED published

(* What is left by the window's own count, whether it is limited or not.   *)
Headroom(reading) == IF reading.kind = "error" THEN 0 ELSE reading.left

(* The request ends within its time limit; on a tie the earlier stays.     *)
AskQuota(q) ==
    /\ round[q].next \in 1..Credentials
    /\ \E answer \in QuotaAnswers :
          round' = [round EXCEPT ![q] =
            [next |-> @.next + 1,
             tightest |-> IF @.tightest.kind = "none" \/ Headroom(answer) < Headroom(@.tightest)
                          THEN answer ELSE @.tightest]]
    /\ UNCHANGED published

Publish(q) ==
    /\ round[q].next = Credentials + 1
    /\ published' = round[q].tightest
    /\ round' = [round EXCEPT ![q] = Idle]

----------------------------------------------------------------------------
(* The routing gate.                                                       *)

(* Slip: an old reading is as good as a new one.                           *)
EverFresh(reading) == reading.kind # "none"
IsFresh(reading) == reading.kind # "none" /\ reading.age <= Fresh

Exhausted(reading) == reading.kind = "window" /\ (reading.limited \/ reading.left = 0)

Gated == IsFresh(published) /\ Exhausted(published)

(* An age is not followed past the one at which a reading goes stale.      *)
Aged(reading) ==
    [reading EXCEPT !.age = IF reading.kind # "none" /\ @ <= Fresh THEN @ + 1 ELSE @]

QuotaTick ==
    /\ published' = Aged(published)
    /\ round' = [q \in Refreshers |-> [round[q] EXCEPT !.tightest = Aged(@)]]
    /\ quotaVars' # quotaVars

QuotaNext == (\E q \in Refreshers : StartQuotaRound(q) \/ AskQuota(q) \/ Publish(q)) \/ QuotaTick

(* Time passes; nothing is assumed of the refreshers and the providers.    *)
QuotaFairness == WF_quotaVars(QuotaTick)

----------------------------------------------------------------------------
(* Properties.                                                             *)

(* "A broken probe can never black-hole a provider": unless readings go on *)
(* being published, the tier is let through again and again, whenever the  *)
(* last one was taken and whatever it said.                                *)
QuotaGateEnds ==
    []<>(~ Gated) \/ []<><<\E q \in Refreshers : Publish(q)>>_quotaVars
=============================================================================
