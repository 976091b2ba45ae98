--------------------------- MODULE MCChatDispatch ---------------------------
(* Small instances of ChatDispatch.  provP has managed accounts in some of *)
(* them, provQ never; provU is not registered.  A tick stands for the      *)
(* shortest cooldown, and the other durations are a few ticks.             *)
EXTENDS ChatDispatch

CONSTANTS provP, provQ, provU, acctA, acctB, m1, m2, req1, req2

On(provider, model) == [provider |-> provider, model |-> model]

SoloChain == [r \in Requests |-> <<On(provP, m1)>>]
(* A combo may name a candidate twice. *)
MixedChain ==
    [r \in Requests |->
        <<On(provU, m1), On(provP, m1), On(provP, m2), On(provP, m1), On(provQ, m1)>>]

(* provP with the account pools given. *)
WithPools(pools) == [provider \in Providers |-> IF provider = provP THEN pools ELSE {<< >>}]
NoAccounts == WithPools({<< >>})
OneAccount == WithPools({<<acctA>>})
Siblings == WithPools({<<acctA, acctB>>})
LoneAccount == WithPools({<<acctA>>, << >>})

LaneOfP == {c \in Candidates : c.provider = provP /\ c.model = m2}
PaidOfQ == {c \in Candidates : c.provider = provQ}
Nothing == {}

Fails(kind) == [kind |-> kind, ofModel |-> FALSE]
Refuses(kind) == [kind |-> kind, ofModel |-> TRUE]

ServeOrBreak == {Ok, Fails("Server")}
ServeOrRefuse == {Ok, Fails("RateLimit")}
FewAnswers == ServeOrBreak \cup {Quota, Refuses("NotFound")}

ShortCooldowns == [kind \in Kinds \ Transient |-> 1]
Cooldowns == [kind \in Kinds \ Transient |-> IF kind = "RateLimit" THEN 2 ELSE 1]
=============================================================================
