-------------------------- MODULE HistoryCompression --------------------------
(***************************************************************************)
(* The layered compression of a request that replays a conversation: the   *)
(* client sends the same turns again and again, each time with more behind *)
(* them, and every turn that has left the window of recent ones is         *)
(* rewritten from scratch.  Nothing is remembered between two requests, so *)
(* what was sent of an old turn has to come out the same every time, or    *)
(* the upstream's cache of the prompt is lost from there on.               *)
(***************************************************************************)
EXTENDS Naturals, Sequences

CONSTANTS
    MaxTurns,       \* bound: turns of the conversation
    RecentTurns     \* assistant turns sent verbatim

VARIABLES
    lrc,            \* the profile of the requests
    shape,          \* of the client's messages
    talk            \* the turns so far: a thought, a call and its result

compressionVars == <<lrc, shape, talk>>

Tools == {"read", "edit", "run"}
Profiles ==
    [conservative |-> [trim |-> "off", retire |-> FALSE, dedupe |-> FALSE],
     balanced |-> [trim |-> "auto", retire |-> TRUE, dedupe |-> TRUE],
     extreme |-> [trim |-> "on", retire |-> TRUE, dedupe |-> TRUE]]

(* A client whose calls are numbered anew in every turn reuses an id.      *)
Turns(n) == [thought : {"plain", "signed"}, tool : Tools, id : {n, MaxTurns + 1}, text : {"x", "y"}]

CompressionInit ==
    /\ lrc \in {"conservative", "balanced", "extreme"}
    /\ shape \in {"openai", "claude"}
    /\ talk = <<>>

Turn ==
    /\ Len(talk) < MaxTurns
    /\ \E turn \in Turns(Len(talk) + 1) : talk' = Append(talk, turn)
    /\ UNCHANGED <<lrc, shape>>

CompressionNext == Turn

CompressionSpec == CompressionInit /\ [][CompressionNext]_compressionVars

----------------------------------------------------------------------------
(* What is sent of the conversation.                                       *)

Profile == Profiles[lrc]

Old == {i \in 1..Len(talk) : RecentTurns > 0 /\ i + RecentTurns <= Len(talk)}

(* The call a result names: the last one of that id.                       *)
NamedBy(id) == LET last == CHOOSE i \in 1..Len(talk) :
                        talk[i].id = id /\ \A j \in (i + 1)..Len(talk) : talk[j].id # id
               IN  talk[last].tool

Trims == CASE Profile.trim = "off" -> FALSE
           [] Profile.trim = "on" -> TRUE
           [] OTHER -> \A i \in 1..Len(talk) : talk[i].thought # "signed"

(* Only plain reasoning fields and function arguments are rewritten, so of *)
(* the other shape the results alone.                                      *)
Thought(i) ==
    IF i \in Old /\ shape = "openai" /\ Trims /\ talk[i].thought = "plain" THEN "elided" ELSE "whole"

(* An edit may be issued again by its old text.                            *)
Arguments(i) ==
    IF i \in Old /\ shape = "openai" /\ Profile.retire /\ talk[i].tool # "edit"
    THEN "elided" ELSE "whole"

SameResult(i, j) == talk[i].text = talk[j].text /\ NamedBy(talk[i].id) = NamedBy(talk[j].id)

(* Slip: of equal results the newest is the one that is sent.              *)
RepeatedLater(i) == Profile.dedupe /\ shape = "openai" /\ \E j \in Old : j > i /\ SameResult(i, j)
Repeated(i) == Profile.dedupe /\ shape = "openai" /\ \E j \in Old : j < i /\ SameResult(i, j)

Result(i) ==
    IF i \notin Old THEN "whole"
    ELSE IF Repeated(i) THEN "as before"
    ELSE IF NamedBy(talk[i].id) = "read" \/ lrc = "conservative" THEN "quiet" ELSE "cut"

(* The skeleton of what is sent is that of what came, which the gates look *)
(* for, and nothing is gained before the first turn is old.                *)
SentTurn(i) == [thought |-> Thought(i), arguments |-> Arguments(i), result |-> Result(i)]

----------------------------------------------------------------------------
(* Properties.                                                             *)

IdsDiffer == \A i, j \in 1..Len(talk) : talk[i].id = talk[j].id => i = j

(* A step that trims and names what the one before did.                   *)
RendersTheSame ==
    Trims' = Trims /\ IdsDiffer' => \A i \in Old : SentTurn(i)' = SentTurn(i)

(* "Rendering depends only on block content and position, never on turn    *)
(* counters": while the client keeps its call ids apart and no signed      *)
(* thought joins, a turn that was sent compressed is sent the same again,  *)
(* whatever the later turns call and answer.                               *)
OldTurnsRenderTheSame == [][RendersTheSame]_compressionVars
=============================================================================
