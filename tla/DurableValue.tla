---------------------------- MODULE DurableValue ----------------------------
(***************************************************************************)
(* What a state file promises, whoever writes it: after a restart the      *)
(* program goes on from a value it had, never from half of one, and what   *)
(* was durable once is not replaced by something older.  Values are        *)
(* numbered by the edits that made them.                                   *)
(***************************************************************************)
EXTENDS Naturals

VARIABLES
    value,      \* what the program goes by
    durable     \* what a restart goes on from

durableVars == <<value, durable>>

DurableInit == value = 0 /\ durable = 0

Change == value' = value + 1 /\ UNCHANGED durable

Save == durable' \in (durable + 1) .. value /\ UNCHANGED value

Restart == value' = durable /\ UNCHANGED durable

DurableNext == Change \/ Save \/ Restart

DurableSpec == DurableInit /\ [][DurableNext]_durableVars

=============================================================================
