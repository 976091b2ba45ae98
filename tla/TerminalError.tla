---------------------------- MODULE TerminalError ----------------------------
(***************************************************************************)
(* Which failure a request reports that every candidate has failed.  The   *)
(* walk notes the failures in the order of the chain, with the lane (the   *)
(* provider) of each; only statuses and lanes decide, so texts are left    *)
(* out.                                                                    *)
(***************************************************************************)
EXTENDS Naturals, Sequences

CONSTANTS
    Providers,      \* the lanes of the chain
    MaxFailures     \* bound: candidates of the chain

Statuses == {400, 401, 402, 403, 404, 418, 429, 500, 502}

VARIABLE lanes  \* the failures of the candidates that were dispatched

TerminalInit == lanes = <<>>

Fails ==
    /\ Len(lanes) < MaxFailures
    /\ \E p \in Providers, s \in Statuses : lanes' = Append(lanes, [lane |-> p, status |-> s])

TerminalNext == Fails

TerminalSpec == TerminalInit /\ [][TerminalNext]_lanes

----------------------------------------------------------------------------

OutOfCredit == {402, 403}
QuotaClass == OutOfCredit \union {401, 429}

(* How actionable a failure is; lower wins.                                *)
Meaning(status) ==
    CASE status \in OutOfCredit -> 0
      [] status = 429 -> 1
      [] status = 401 -> 2
      [] status \in 500..504 -> 3
      [] status \in {400, 404, 422} -> 4
      [] OTHER -> 5

(* The first of the most actionable of the failures at these positions.    *)
Weightier(i, j) ==
    \/ Meaning(lanes[i].status) < Meaning(lanes[j].status)
    \/ Meaning(lanes[i].status) = Meaning(lanes[j].status) /\ i <= j
Weightiest(failures) == lanes[CHOOSE i \in failures : \A j \in failures : Weightier(i, j)]

Later == 2..Len(lanes)

(* Slip: a quota verdict counts, whoever's it is.                          *)
VerdictsOfAnyone(head) == {i \in Later : lanes[i].status \in QuotaClass}
VerdictsOfLane(head) ==
    {i \in Later : lanes[i].lane = head.lane /\ lanes[i].status \in QuotaClass}

Exhausted == {i \in Later : lanes[i].status \in OutOfCredit}

(* The head of the chain speaks for it, or its own account's verdict; an   *)
(* invalid key gives way to an exhausted account of any lane.              *)
Chosen ==
    LET head == Head(lanes)
    IN  CASE head.status \in QuotaClass \ {401} -> head
          [] OTHER ->
                IF VerdictsOfLane(head) # {} THEN Weightiest(VerdictsOfLane(head))
                ELSE IF head.status = 401 /\ Exhausted # {} THEN Weightiest(Exhausted)
                ELSE head

(* Nothing that was dispatched is told as "unavailable".                   *)
Status == IF lanes = <<>> THEN 503 ELSE Chosen.status

----------------------------------------------------------------------------
(* Properties.                                                             *)

(* What one more failure does to the reported status.                      *)
StaysPrivate ==
    lanes # <<>> =>
        LET head == Head(lanes)
            last == lanes'[Len(lanes')]
        IN  /\ (last.lane # head.lane /\ ~(head.status = 401 /\ last.status \in OutOfCredit))
                    => Status' = Status
            /\ Status' = 401 => ~ \E i \in DOMAIN lanes' :
                    lanes'[i].lane = head.lane /\ lanes'[i].status \in OutOfCredit

(* "A quota exhaustion reported by a different lane is that lane's private *)
(* problem": what a later candidate of another lane says changes nothing   *)
(* of what is reported, except that an invalid key of the head is told as  *)
(* an exhausted account once some lane has one; and a lane that has told   *)
(* of an exhausted account is never reported as one with an invalid key.   *)
SideLanesStayPrivate == [][StaysPrivate]_lanes
=============================================================================
