-------------------------- MODULE CompressionModes --------------------------
(***************************************************************************)
(* The compression modes that rewrite the messages of one request: which   *)
(* mode a request gets, and which messages each engine and its fallbacks   *)
(* rewrite, replace or leave out.  What an engine makes of a text is left  *)
(* out; a message carries the names of the engines that touched it.  The   *)
(* layered mode is HistoryCompression.                                     *)
(***************************************************************************)
EXTENDS Places, FiniteSetsExt

CONSTANTS
    MaxMessages     \* bound: messages of the request

Modes == {"off", "lite", "standard", "aggressive", "ultra", "rtk", "lrc"}
Roles == {"system", "user", "assistant", "tool"}
Texts == {"a", "a ", "b"}
Messages == [role : Roles, text : Texts, by : {{}}]

VARIABLES
    plan,       \* what decides the mode: switch, header, size and defaults
    chosen,     \* the mode, "none" until resolved
    options,    \* keep the system prompt? and the roles of the rule engine
    asked,      \* the client's messages
    answered    \* the messages that go on to the upstream

modeVars == <<plan, chosen, options, asked, answered>>

Resolving == [enabled : BOOLEAN, header : {"none", "off", "default", "unknown", "ultra"},
              usual : Modes, trigger : {"none", "aggressive"}, large : BOOLEAN]

Resolved == [enabled |-> FALSE, header |-> "none", usual |-> "off", trigger |-> "none", large |-> FALSE]

ModesInit ==
    /\ plan \in Resolving
    /\ chosen = "none" /\ asked = <<>> /\ answered = <<>>
    /\ options \in [keep : BOOLEAN, roles : {{"user"}, {"user", "assistant", "system"}}]

(* The switch, then a known header, then the size, then the default.       *)
ResolvedMode ==
    IF ~ plan.enabled THEN "off"
    ELSE CASE plan.header \in Modes -> plan.header
           [] plan.header = "default" -> plan.usual
           [] OTHER -> IF plan.trigger # "none" /\ plan.large THEN plan.trigger ELSE plan.usual

Resolve ==
    /\ chosen = "none"
    /\ chosen' = ResolvedMode /\ plan' = Resolved
    /\ UNCHANGED <<options, asked, answered>>

----------------------------------------------------------------------------
(* What the engines look at.                                               *)

UsersOf(ms) == {i \in 1..Len(ms) : ms[i].role = "user"}

(* Slip: the last message is protected, whoever wrote it.                  *)
LastMessage(ms) == IF ms = <<>> THEN 0 ELSE Len(ms)
LastUser(ms) == IF UsersOf(ms) = {} THEN 0 ELSE Max(UsersOf(ms))

Touched(m, engine) == [m EXCEPT !.by = @ \union {engine}]
Kept(m) == options.keep /\ m.role = "system"

----------------------------------------------------------------------------
(* The engines.                                                            *)

Trimmed(t) == IF t = "a " THEN "a" ELSE t
Spaced(ms) ==
    [i \in 1..Len(ms) |-> IF Kept(ms[i]) THEN ms[i] ELSE [ms[i] EXCEPT !.text = Trimmed(@)]]

(* A system prompt that an earlier one equals is dropped.                  *)
Single(ms) ==
    {i \in 1..Len(ms) : options.keep \/ ~ \E j \in 1..(i - 1) :
        ms[j].role = "system" /\ ms[i].role = "system" /\ ms[j].text = ms[i].text}

Cut(ms) == [i \in 1..Len(ms) |-> IF ms[i].role = "tool" THEN Touched(ms[i], "cut") ELSE ms[i]]

(* So is a message that says what the one before it says in the same role. *)
Fresh(ms) == {i \in 1..Len(ms) : Kept(ms[i]) \/ i = 1 \/ ms[i - 1] # ms[i]}

(* White space, equal system prompts, tool results, repeated messages.     *)
Lite(ms, results) ==
    LET single == Those(Spaced(ms), Single(Spaced(ms)))
        cut == IF results THEN Cut(single) ELSE single
    IN  Those(cut, Fresh(cut))

Rules(ms, roles) ==
    [i \in 1..Len(ms) |-> IF ms[i].role \in roles /\ i # LastUser(ms) THEN Touched(ms[i], "rules") ELSE ms[i]]

Standard(ms) == Rules(ms, IF options.keep THEN options.roles \ {"system"} ELSE options.roles)

Ultra(ms) ==
    [i \in 1..Len(ms) |-> IF Kept(ms[i]) \/ i = LastUser(ms) THEN ms[i] ELSE Touched(ms[i], "pruned")]

Rtk(ms) == [i \in 1..Len(ms) |-> IF ms[i].role = "tool" THEN Touched(ms[i], "filtered") ELSE ms[i]]

(* Tool results, then summaries of what is long.                           *)
Summarised(ms) ==
    [i \in 1..Len(ms) |->
        IF Kept(ms[i]) THEN ms[i]
        ELSE IF ms[i].role = "tool" THEN Touched(ms[i], "cut")
        ELSE IF i = LastUser(ms) THEN ms[i] ELSE Touched(ms[i], "summary")]

(* With too little saved the rules are tried on every role, the system     *)
(* prompt among them, and then the lite engine; each only if it saves more.*)
Aggressive(ms) ==
    LET ruled == Rules(Summarised(ms), {"user", "assistant", "system"})
        restored == IF LastUser(ms) = 0 THEN ruled
                    ELSE [ruled EXCEPT ![LastUser(ms)] = Summarised(ms)[LastUser(ms)]]
    IN  {Summarised(ms), restored, Lite(Summarised(ms), FALSE), Lite(restored, FALSE)}

Engine(ms) ==
    CASE chosen = "lite" -> {Lite(ms, TRUE)}
      [] chosen = "standard" -> {Standard(ms)}
      [] chosen = "ultra" -> {Ultra(ms)}
      [] chosen = "rtk" -> {Rtk(ms)}
      [] chosen = "aggressive" -> Aggressive(ms)
      [] OTHER -> {ms}

(* A body without messages goes as it came.                                *)
Compress ==
    /\ chosen \notin {"none", "lrc"} /\ asked = <<>>
    /\ \E ms \in UNION {[1..n -> Messages] : n \in 1..MaxMessages} :
          /\ asked' = ms
          /\ answered' \in Engine(ms)
    /\ UNCHANGED <<plan, chosen, options>>

ModesNext == Resolve \/ Compress

ModesSpec == ModesInit /\ [][ModesNext]_modeVars

----------------------------------------------------------------------------
(* Properties.                                                             *)

(* "The last user message is the live instruction and is never rewritten": *)
(* in every mode and down every fallback the last user message sent is the *)
(* client's last one, to the white space, though messages before it are    *)
(* dropped and the engines count their messages each for itself.           *)
LiveInstructionKept ==
    asked # <<>> /\ UsersOf(asked) # {} =>
        /\ UsersOf(answered) # {}
        /\ LET live == answered[Max(UsersOf(answered))]
           IN  Trimmed(live.text) = Trimmed(asked[Max(UsersOf(asked))].text) /\ live.by = {}
=============================================================================
