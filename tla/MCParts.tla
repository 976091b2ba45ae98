------------------------------ MODULE MCParts ------------------------------
(* Small instances of the parts that share no state.  An initial state     *)
(* names the part that runs and the others rest in an initial state of     *)
(* theirs, so that one run explores the sum of their states and no         *)
(* product.  The sessions and the Parts have their own variables; the two   *)
(* that remain take turns with d1 to d5.                                   *)
EXTENDS WarmSessions, Parts, TLC

CONSTANTS chat, test, convA, ses1, ses2

Symmetry == Permutations(Sessions)

OperatorPools == {<<>>, <<"a">>, <<"a", "typo", "b", "a">>}

(* At first the store has an account of a static provider that hides a     *)
(* model and is off; it is empty while another part runs.  The workers are *)
(* interchangeable like the session ids, and have their names.             *)
Old == [id |-> "a", provider |-> "zai", key |-> "k1", enabled |-> FALSE, manual |-> {"m"},
        synced |-> {}, listed |-> FALSE, hidden |-> {"m"}]
OperatorFiles == {<<>>, <<Old>>}

VARIABLES part, d1, d2, d3, d4, d5

Combos == INSTANCE ComboRouter WITH
    setup <- d1, cursor <- d2, asked <- d3, expanded <- d4, chain <- d5

Tools == INSTANCE ToolSurface WITH
    MaxTools <- 2, MaxChildren <- 1, client <- d1, wire <- d2, asked <- d3,
    body <- d4, step <- d5

turnsVars == <<d1, d2, d3, d4, d5>>
verdictVars == <<lanes>>
replayVars == <<lrc, shape, talk>>
siftVars == <<block, form, tool, mode, shipped>>
modesVars == <<deciding, chosen, choices, given, answered>>
laneVars == <<wire, asked, sent, shapings>>
capsVars == <<client, lane, options, body, step>>
planVars == <<setup, plan, tried, passed>>
connVars == <<stored, filed, registered, overlay, pools, round, work, edits>>
pathVars == <<question, document, reply, told, heard>>
historyVars == <<speaker, target, dialogue, messages, request, phase>>
streamVars == <<formats, env, source, sink, usage, frames, stage>>

partsVars == <<part, vars, turnsVars, verdictVars, replayVars, siftVars, modesVars,
               laneVars, capsVars, planVars, connVars, pathVars, historyVars, streamVars>>

-----------------------------------------------------------------------------
(* Where the parts start.  One that rests is in one of its initial states. *)

TurnsInit ==
    \/ part = "router" /\ Combos!RouterInit
    \/ part = "tools" /\ Tools!ToolsInit
    \/ /\ part \notin {"router", "tools"}
       /\ d1 = 0 /\ d2 = 0 /\ d3 = 0 /\ d4 = 0 /\ d5 = 0

ReplayRests == lrc = "balanced" /\ shape = "openai" /\ talk = <<>>

SiftRests == /\ block = [i \in 1..1 |-> "prose"] /\ form = "text"
             /\ tool = "other" /\ mode = "light" /\ shipped = <<>>

ModesRests ==
    /\ deciding = [enabled |-> FALSE, header |-> "none", usual |-> "off",
                   trigger |-> "none", large |-> FALSE]
    /\ chosen = "none" /\ given = <<>> /\ answered = <<>>
    /\ choices = [keep |-> FALSE, roles |-> {"user"}]

LaneRests ==
    /\ asked = [stream |-> TRUE, instructions |-> <<>>, tools |-> <<>>, choice |-> "auto"]
    /\ wire = "chat" /\ sent = asked /\ shapings = 0

CapsRests ==
    /\ client = "openai" /\ lane = [wire |-> "openai", ceiling |-> 64, policy |-> "passthrough"]
    /\ options = Caps!None /\ body = options /\ step = "asked"

PlanRests ==
    /\ setup = [mode |-> "public", consent |-> FALSE, key |-> FALSE,
                accounts |-> [a \in Accounts |-> "unusable"], pool |-> <<>>, seed |-> 0]
    /\ plan = <<>> /\ tried = <<>> /\ passed = {}

PartsInit ==
    /\ part \in {"sessions", "stream", "history", "router", "tools", "verdict", "old turns",
                 "output", "modes", "shape", "caps", "plan", "connections", "answer"}
    /\ Init /\ TurnsInit
    /\ Verdict!TerminalInit /\ Path!AnswerInit /\ History!HistoryInit
    /\ Flow!StreamInit
    /\ IF part = "old turns" THEN Replay!CompressionInit ELSE ReplayRests
    /\ IF part = "output" THEN Sift!FilterInit ELSE SiftRests
    /\ IF part = "modes" THEN Modes!ModesInit ELSE ModesRests
    /\ IF part = "shape" THEN Lane!ShapeInit ELSE LaneRests
    /\ IF part = "caps" THEN Caps!CapsInit ELSE CapsRests
    /\ IF part = "plan" THEN Plan!PlanInit ELSE PlanRests
    /\ Conn!ConnInit /\ (part = "connections" <=> stored # <<>>)

-----------------------------------------------------------------------------
(* The part that was named runs.                                           *)

RunSessions ==
    /\ part = "sessions" /\ Next
    /\ UNCHANGED <<part, turnsVars, verdictVars, replayVars, siftVars, modesVars,
                   laneVars, capsVars, planVars, connVars, pathVars, historyVars, streamVars>>

RunTurns ==
    /\ \/ part = "router" /\ Combos!RouterNext
       \/ part = "tools" /\ Tools!ToolsNext
    /\ UNCHANGED <<part, vars, verdictVars, replayVars, siftVars, modesVars,
                   laneVars, capsVars, planVars, connVars, pathVars, historyVars, streamVars>>

RunVerdict ==
    /\ part = "verdict" /\ Verdict!TerminalNext
    /\ UNCHANGED <<part, vars, turnsVars, replayVars, siftVars, modesVars,
                   laneVars, capsVars, planVars, connVars, pathVars, historyVars, streamVars>>

RunReplay ==
    /\ part = "old turns" /\ Replay!CompressionNext
    /\ UNCHANGED <<part, vars, turnsVars, verdictVars, siftVars, modesVars,
                   laneVars, capsVars, planVars, connVars, pathVars, historyVars, streamVars>>

RunSift ==
    /\ part = "output" /\ Sift!FilterNext
    /\ UNCHANGED <<part, vars, turnsVars, verdictVars, replayVars, modesVars,
                   laneVars, capsVars, planVars, connVars, pathVars, historyVars, streamVars>>

RunModes ==
    /\ part = "modes" /\ Modes!ModesNext
    /\ UNCHANGED <<part, vars, turnsVars, verdictVars, replayVars, siftVars,
                   laneVars, capsVars, planVars, connVars, pathVars, historyVars, streamVars>>

RunLane ==
    /\ part = "shape" /\ Lane!ShapeNext
    /\ UNCHANGED <<part, vars, turnsVars, verdictVars, replayVars, siftVars, modesVars,
                   capsVars, planVars, connVars, pathVars, historyVars, streamVars>>

RunCaps ==
    /\ part = "caps" /\ Caps!CapsNext
    /\ UNCHANGED <<part, vars, turnsVars, verdictVars, replayVars, siftVars, modesVars,
                   laneVars, planVars, connVars, pathVars, historyVars, streamVars>>

RunPlan ==
    /\ part = "plan" /\ Plan!PlanNext
    /\ UNCHANGED <<part, vars, turnsVars, verdictVars, replayVars, siftVars, modesVars,
                   laneVars, capsVars, connVars, pathVars, historyVars, streamVars>>

RunConn ==
    /\ part = "connections" /\ Conn!ConnNext
    /\ UNCHANGED <<part, vars, turnsVars, verdictVars, replayVars, siftVars, modesVars,
                   laneVars, capsVars, planVars, pathVars, historyVars, streamVars>>

RunPath ==
    /\ part = "answer" /\ Path!AnswerNext
    /\ UNCHANGED <<part, vars, turnsVars, verdictVars, replayVars, siftVars, modesVars,
                   laneVars, capsVars, planVars, connVars, historyVars, streamVars>>

RunHistory ==
    /\ part = "history" /\ History!HistoryNext
    /\ UNCHANGED <<part, vars, turnsVars, verdictVars, replayVars, siftVars, modesVars,
                   laneVars, capsVars, planVars, connVars, pathVars, streamVars>>

RunStream ==
    /\ part = "stream" /\ Flow!StreamNext
    /\ UNCHANGED <<part, vars, turnsVars, verdictVars, replayVars, siftVars, modesVars,
                   laneVars, capsVars, planVars, connVars, pathVars, historyVars>>

PartsNext ==
    \/ RunSessions \/ RunTurns \/ RunVerdict \/ RunReplay \/ RunSift \/ RunModes
    \/ RunLane \/ RunCaps \/ RunPlan \/ RunConn \/ RunPath \/ RunHistory \/ RunStream

PartsSpec == PartsInit /\ [][PartsNext]_partsVars

-----------------------------------------------------------------------------
(* The properties of the two are stated in their modules.                 *)

ChainKept == part = "router" => Combos!ChainKept
NamesAgree == part = "tools" => Tools!NamesAgree
=============================================================================
