------------------------------- MODULE LanePlan -------------------------------
(***************************************************************************)
(* Which credentials a request of the free lane may use, by which exits,   *)
(* and the order in which it gets to them.  The plan is made once, when    *)
(* the request comes; the budget (FreeLaneBudget) walks it anew for every  *)
(* attempt, from where the shared cursor has got to, passes over what is   *)
(* closed just then, and gives the first that is open and not tried yet.   *)
(***************************************************************************)
EXTENDS Integers, Sequences, FiniteSets, SequencesExt

CONSTANTS
    Accounts,       \* managed accounts, numbered in the order of their pools
    PoolLines,      \* what an operator may have written into the proxy pool
    MaxExits,       \* exits of the pool a request may use
    MaxClosed,      \* bound: closed credentials an attempt passes over
    MaxAttempts     \* bound: attempts of a request

Direct == "direct"

(* An account that is not usable has no key, or cools for the model or     *)
(* altogether.                                                             *)
Kinds == {"direct", "proxied", "unusable"}

VARIABLES
    setup,          \* mode, consent, accounts, configured key, pool and seed
    plan,           \* the request's credentials by their exits
    tried,          \* what it has sent its attempts with, in order
    passed          \* what was closed to its last attempt

planVars == <<setup, plan, tried, passed>>

Entry(of, via) == [of |-> of, via |-> via]
Anonymous == 0
Configured == Cardinality(Accounts) + 1

----------------------------------------------------------------------------
(* The plan.                                                               *)

(* A line that is no address is dropped, and so is one that is repeated.   *)
ParsedPool(lines) ==
    LET parsed[i \in 0..Len(lines)] ==
            IF i = 0 THEN <<>>
            ELSE IF lines[i] = "typo" \/ Contains(parsed[i - 1], lines[i])
                 THEN parsed[i - 1] ELSE Append(parsed[i - 1], lines[i])
    IN  parsed[Len(lines)]

(* Every turn of a conversation starts at the same exit.                   *)
OrderedPool ==
    LET exits == ParsedPool(setup.pool)
        taken == IF MaxExits < Len(exits) THEN MaxExits ELSE Len(exits)
    IN  [i \in 1..taken |-> exits[((setup.seed + i - 1) % Len(exits)) + 1]]

(* A consent refusal suspends the keys; the mode may not use them at all.  *)
Keyed == setup.mode \in {"auto", "key"} /\ setup.consent

(* An account's own proxy is the only way it leaves.                       *)
ByProxy(a) ==
    CASE setup.accounts[a] = "direct" -> [i \in DOMAIN OrderedPool |-> Entry(a, OrderedPool[i])]
      [] setup.accounts[a] = "proxied" -> <<Entry(a, "own")>>
      [] OTHER -> <<>>
Directly(a) == IF setup.accounts[a] = "direct" THEN <<Entry(a, Direct)>> ELSE <<>>

AccountsProxied == IF Keyed THEN FlattenSeq([a \in Accounts |-> ByProxy(a)]) ELSE <<>>

(* The configured key stands in where no account is usable.                *)
AccountsDirect ==
    IF ~Keyed THEN <<>>
    ELSE IF \A a \in Accounts : setup.accounts[a] = "unusable"
         THEN IF setup.mode = "key" /\ setup.key THEN <<Entry(Configured, Direct)>> ELSE <<>>
         ELSE FlattenSeq([a \in Accounts |-> Directly(a)])

LaneCredentials ==
    AccountsProxied
    \o [i \in DOMAIN OrderedPool |-> Entry(Anonymous, OrderedPool[i])]
    \o AccountsDirect
    \o <<Entry(Anonymous, Direct)>>

----------------------------------------------------------------------------
(* The walk.                                                               *)

IsAnonymous(e) == e.of = Anonymous
OfAccounts == {i \in DOMAIN plan : ~IsAnonymous(plan[i])}

(* Slip: the cursor may start on the anonymous credential.                 *)
TurnOfAny(i, cursor) == (i - 1 - cursor) % Len(plan)

(* When a walk from the cursor gets to a place of the plan: round the      *)
(* accounts, then down the anonymous ones.                                 *)
Turn(i, cursor) ==
    IF IsAnonymous(plan[i]) THEN Len(plan) + i
    ELSE (Cardinality({j \in OfAccounts : j < i}) - cursor) % Cardinality(OfAccounts)

PlanInit ==
    /\ setup \in [mode : {"auto", "key", "public"}, consent : BOOLEAN, key : BOOLEAN,
                  accounts : [Accounts -> Kinds], pool : PoolLines, seed : 0..1]
    /\ plan = <<>> /\ tried = <<>> /\ passed = {}

MakePlan ==
    /\ plan = <<>>
    /\ plan' = LaneCredentials
    /\ UNCHANGED <<setup, tried, passed>>

(* Other requests move the cursor, and open and close credentials, between *)
(* two attempts of this one.                                               *)
Attempt ==
    /\ plan # <<>> /\ Len(tried) < MaxAttempts
    /\ LET untried == {i \in DOMAIN plan : ~Contains(tried, plan[i])}
       IN  \E cursor \in 0..(Len(plan) - 1), i \in untried :
              LET ahead == {j \in untried : Turn(j, cursor) < Turn(i, cursor)}
              IN  /\ Cardinality(ahead) <= MaxClosed
                  /\ tried' = Append(tried, plan[i])
                  /\ passed' = {plan[j] : j \in ahead}
    /\ UNCHANGED <<setup, plan>>

PlanNext == MakePlan \/ Attempt

PlanSpec == PlanInit /\ [][PlanNext]_planVars

----------------------------------------------------------------------------
(* Properties.                                                             *)

(* A credential is taken from those that are left.                        *)
TakesAnonymousLast ==
    tried' # tried =>
        LET got == Last(tried')
            left == ToSet(plan) \ (ToSet(tried) \union passed' \union {got})
        IN  /\ ~Contains(tried, got)
            /\ IsAnonymous(got) => \A e \in left : IsAnonymous(e)
            /\ got = Entry(Anonymous, Direct) => left = {}
            /\ got.of \in Accounts /\ setup.accounts[got.of] = "proxied" => got.via = "own"

(* "The anonymous credential is a fallback, never a round-robin starting   *)
(* point": an attempt is anonymous only when every account left was closed *)
(* to it, and dials directly without a key only when everything left was;  *)
(* no credential is sent twice by one exit, and an account with a proxy of *)
(* its own is sent by no other, whatever the pool's lines.                 *)
AnonymousIsLast == [][TakesAnonymousLast]_planVars
=============================================================================
