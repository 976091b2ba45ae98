-------------------------------- MODULE Parts --------------------------------
(***************************************************************************)
(* The parts of the gateway that take a few steps each and share no state, *)
(* one beside the other, each with variables of its own, and what is       *)
(* promised of each.  The runs (MCParts) and the proofs (Parts_proofs)     *)
(* speak of the same definitions here.                                     *)
(***************************************************************************)
EXTENDS Integers, Sequences

(* The verdict of an exhausted chain.                                      *)
CONSTANTS ChainLanes, MaxFailures
VARIABLE lanes
Verdict == INSTANCE TerminalError WITH Providers <- ChainLanes

(* The layered compression of old turns.                                   *)
CONSTANTS MaxTurns, RecentTurns
VARIABLES lrc, shape, talk
Replay == INSTANCE HistoryCompression

(* The filter it puts a tool result through.                               *)
CONSTANTS MaxLines, HeadLines, TailLines, MaxCritical, LineBudget, MinBlock
VARIABLES block, form, tool, mode, shipped
Sift == INSTANCE ToolOutputFilter WITH shape <- form

(* The connections, and the pools and hidden models made of them.          *)
CONSTANTS ConnIds, ConnWorkers, ConnFiles, MaxEdits
VARIABLES stored, filed, registered, overlay, pools, round, work, edits
Conn == INSTANCE Connections WITH
    Ids <- ConnIds, Workers <- ConnWorkers, Files <- ConnFiles, store <- stored, file <- filed

(* The other modes of compression.                                         *)
CONSTANT MaxMessages
VARIABLES deciding, chosen, choices, given, answered
Modes == INSTANCE CompressionModes WITH plan <- deciding, options <- choices, asked <- given

(* The shape of a request of the free lane.                                *)
CONSTANTS MaxTools, MaxFragments
VARIABLES wire, asked, sent, shapings
Lane == INSTANCE LaneShape

(* The limits of output.                                                   *)
CONSTANTS Values, Efforts, Ceilings, PolicyBudget, MediumEffort, DefaultOutput, DefaultBudget
VARIABLES client, lane, options, body, step
Caps == INSTANCE OutputCaps WITH asked <- options

(* What becomes of an answer.                                              *)
VARIABLES question, document, reply, told, heard
Path == INSTANCE AnswerPath WITH
    ask <- question, answer <- document, learned <- told, at <- heard

(* The credentials of the free lane.                                       *)
CONSTANTS Accounts, PoolLines, MaxExits, MaxClosed, MaxAttempts
VARIABLES setup, plan, tried, passed
Plan == INSTANCE LanePlan

(* The conversation of a request, on its way to the upstream.              *)
CONSTANTS MaxSaid, MaxParallel
VARIABLES speaker, target, dialogue, messages, request, phase
History == INSTANCE RequestHistory WITH
    MaxTurns <- MaxSaid, client <- speaker, turns <- dialogue, chat <- messages,
    body <- request, step <- phase

(* The stream of its answer.                                               *)
CONSTANTS MaxEvents, MaxCalls
VARIABLES formats, env, source, sink, usage, frames, stage
Flow == INSTANCE StreamTranslation

-----------------------------------------------------------------------------
(* What is promised.  The modules say it in full, beside what it is of.    *)

(* What a candidate of another lane says stays its own affair.             *)
SideLanesStayPrivate == Verdict!SideLanesStayPrivate

(* A turn that was sent compressed is sent the same again.                 *)
OldTurnsRenderTheSame == Replay!OldTurnsRenderTheSame

(* The errors a tool reports in text reach the model.                      *)
DiagnosticsSurvive == Sift!DiagnosticsSurvive

(* The last user message goes on as the client wrote it.                   *)
LiveInstructionKept == Modes!LiveInstructionKept

(* What was hidden when an account was made stays hidden when it joins.    *)
HiddenStaysHidden == Conn!HiddenStaysHidden

(* A request once shaped has what the lane looks for, and is settled.      *)
ShapeIsSettled == Lane!ShapeIsSettled

(* The client's cap is the one judged and asked for, within the model's.   *)
CapsFollowTheClient == Caps!CapsFollowTheClient

(* The anonymous credential is a fallback and never a starting point.      *)
AnonymousIsLast == Plan!AnonymousIsLast


(* A tool's result reaches the upstream under its call's handle.           *)
ResultsReachTheirCalls == History!ResultsReachTheirCalls

(* The arguments of a call reach the client as that call's.                *)
ArgumentsReachTheirCall == Flow!ArgumentsReachTheirCall

(* The frames of the client's dialect open, close and count as it asks.    *)
FramesNest == Flow!FramesNest
=============================================================================
