--------------------------- MODULE MCWarmSessions ---------------------------
(* A small instance of WarmSessions: a chat request and a connection test  *)
(* that may share a conversation's entry, and two session ids, which are   *)
(* interchangeable.                                                        *)
EXTENDS WarmSessions, TLC

CONSTANTS chat, test, convA, ses1, ses2

Symmetry == Permutations(Sessions)
=============================================================================
