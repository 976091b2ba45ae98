----------------------------- MODULE MCProgress -----------------------------
(* Small instances of the parts that must come to an end by themselves.    *)
(* They share no state: an initial state names the part that runs, and the *)
(* others stand still where nothing of theirs is due, so that one run      *)
(* explores the sum of their states and no product.                        *)
EXTENDS ChatDispatch, StateFile, BunExchange, StreamPump

CONSTANTS w1, w2, req1, req2, prov, m

VARIABLES
    part,
    r_state, r_task, r_disk, r_verdicts,
    q_published, q_round

OneCandidate == [r \in Requests |-> <<[provider |-> prov, model |-> m]>>]
NoAccounts == [p \in Providers |-> {<<>>}]
Nothing == {}
ServeOrBreak == {Ok, [kind |-> "Server", ofModel |-> FALSE]}
Cooldowns == [kind \in Kinds \ Transient |-> IF kind = "RateLimit" THEN 2 ELSE 1]

Roster == INSTANCE LaneRoster WITH
    Tasks <- {1, 2}, MaxVerdicts <- 1, state <- r_state, task <- r_task,
    disk <- r_disk, verdicts <- r_verdicts

Readings == INSTANCE QuotaReadings WITH
    Credentials <- 2, Fresh <- 1, published <- q_published, round <- q_round

rosterState ==
    <<r_state, r_task, r_disk, r_verdicts>>
quotaState ==
    <<q_published, q_round>>

progressVars == <<part, vars, fileVars, pumpVars, rosterState, bunVars, quotaState>>

(* An exchange that does not run has ended.                               *)
BunRests ==
    /\ exit = "direct" /\ worker = "ended" /\ fault = "none" /\ caller = "done"
    /\ framing = [by |-> "eof", packed |-> FALSE]
    /\ size = 0 /\ copied = 0 /\ peer = "silent" /\ skipped = 0 /\ head = "used" /\ chan = <<>>
    /\ blame = "none" /\ got = 0 /\ cancel = TRUE /\ left = 0 /\ tunnel = 0

ProgressInit ==
    /\ part \in {"file", "pump", "roster", "bun", "quota", "chat"}
    /\ FileInit /\ (part = "file" \/ target = 1)
    /\ Roster!RosterInit /\ Readings!QuotaInit /\ Init
    /\ PumpInit
    /\ IF part = "bun" THEN BunInit ELSE BunRests

RunChat ==
    /\ part = "chat" /\ Next
    /\ UNCHANGED <<part, fileVars, pumpVars, rosterState, bunVars, quotaState>>

RunFile ==
    /\ part = "file" /\ FileNext
    /\ UNCHANGED <<part, vars, pumpVars, rosterState, bunVars, quotaState>>

RunPump ==
    /\ part = "pump" /\ PumpNext
    /\ UNCHANGED <<part, vars, fileVars, rosterState, bunVars, quotaState>>

RunRoster ==
    /\ part = "roster" /\ Roster!RosterNext
    /\ UNCHANGED <<part, vars, fileVars, pumpVars, bunVars, quotaState>>

RunBun ==
    /\ part = "bun" /\ BunNext
    /\ UNCHANGED <<part, vars, fileVars, pumpVars, rosterState, quotaState>>

RunReadings ==
    /\ part = "quota" /\ Readings!QuotaNext
    /\ UNCHANGED <<part, vars, fileVars, pumpVars, rosterState, bunVars>>

ProgressNext == RunFile \/ RunPump \/ RunRoster \/ RunBun \/ RunReadings \/ RunChat

(* The fairness of the modules.  Each fair step is guarded by its part, so *)
(* that TLC looks at the steps of one part only.                           *)
FairChat ==
    /\ WF_vars(part = "chat" /\ Tick)
    /\ \A r \in Requests :
          /\ WF_vars(part = "chat" /\ Walk(r))
          /\ WF_vars(part = "chat" /\ \E answer \in Answers : Land(r, answer))

FairFile ==
    /\ WF_fileVars(part = "file" /\ \E w \in Writers : Saves(w))
    /\ <>[][~ (part = "file" /\ \E w \in Writers : SaveFails(w))]_fileVars

FairPump ==
    /\ WF_pumpVars(part = "pump" /\ Turn)
    /\ WF_pumpVars(part = "pump" /\ PumpTick)
    /\ WF_pumpVars(part = "pump" /\ (ClientReads \/ ClientLeaves))

FairRoster ==
    /\ WF_rosterState(part = "roster" /\ Roster!Tick)
    /\ WF_rosterState(part = "roster" /\ \E t \in {1, 2} : Roster!PutBack(t))

FairBun ==
    /\ WF_bunVars(part = "bun" /\ TimePasses)
    /\ WF_bunVars(part = "bun" /\ OwnStep)
    /\ SF_bunVars(part = "bun" /\ Poll)
    /\ WF_bunVars(part = "bun" /\ Arrives)
    /\ WF_bunVars(part = "bun" /\ (GetHead \/ TimedOut \/ ReadBody \/ Leave \/ EndReading))

FairReadings == WF_quotaState(part = "quota" /\ Readings!QuotaTick)

ProgressSpec ==
    /\ ProgressInit /\ [][ProgressNext]_progressVars
    /\ FairChat /\ FairFile /\ FairPump /\ FairRoster /\ FairBun /\ FairReadings

-----------------------------------------------------------------------------
(* The properties of the instances are stated in their modules.            *)

RosterHeals == Roster!RosterHeals
QuotaGateEnds == Readings!QuotaGateEnds
=============================================================================
