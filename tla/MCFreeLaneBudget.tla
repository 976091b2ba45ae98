-------------------------- MODULE MCFreeLaneBudget --------------------------
(* Small instances of FreeLaneBudget: a pool that dials directly, a pool   *)
(* whose anonymous credential shares a proxy with one account, and one in  *)
(* which a single account has a proxy.  The .cfg files give days of three  *)
(* or four ticks and a recheck interval of one or two.                     *)
EXTENDS FreeLaneBudget, TLC

CONSTANTS acctA, acctB, anon, proxy, req1, req2, model

DirectPool == {acctA, anon}
DirectExitOf == [c \in DirectPool |-> Direct]
DirectAccounts == <<acctA>>
DirectAnonymous == <<anon>>

ProxyPool == {acctA, acctB, anon}
ProxyExitOf == (acctA :> proxy) @@ (acctB :> Direct) @@ (anon :> proxy)
ProxyAccounts == <<acctA, acctB>>
ProxyAnonymous == <<anon>>

MixedPool == {acctA, acctB, anon}
MixedExitOf == (acctA :> proxy) @@ (acctB :> Direct) @@ (anon :> Direct)

(* Requests that arrive the same way are interchangeable. *)
RequestSymmetry == Permutations(Requests)

OneModel == [r \in Requests |-> model]
TwoEach == [c \in Buckets |-> 2]
OneEach == [c \in Buckets |-> 1]
=============================================================================
