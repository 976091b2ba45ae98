--------------------------- MODULE MCConnections ---------------------------
(* Two accounts at most, and two handlers or syncs at once.  The store is  *)
(* empty at first, or has an account that hides a model and may be off.    *)
EXTENDS Connections, TLC

CONSTANTS a, b, w1, w2

Symmetry == Permutations(Ids) \cup Permutations(Workers)

Old(id, p, on, hides) ==
    [id |-> id, provider |-> p, key |-> "k1", enabled |-> on, manual |-> {"m"}, synced |-> {},
     listed |-> FALSE, hidden |-> hides]

OperatorFiles ==
    {<<>>} \cup {<<Old(id, p, on, hides)>> :
                    id \in Ids, p \in Providers, on \in BOOLEAN, hides \in SUBSET {"m"}}
=============================================================================
