----------------------------- MODULE AnswerPath -----------------------------
(***************************************************************************)
(* What try_candidate makes of the upstream's answer: a refusal becomes an *)
(* error of the right kind, a success a stream, a folded stream, frames    *)
(* made from a document, or a document.  What is followed is whether the   *)
(* text, the tool calls and the reasoning of the answer are still there    *)
(* when the client reads it.                                               *)
(***************************************************************************)
EXTENDS Integers, FiniteSets

VARIABLES
    ask,       \* what the client asked for
    answer,    \* what the upstream answered
    reply,     \* what the client, or the dispatcher's walk, is given
    learned,   \* the statuses record_verdict was told
    at         \* "idle", "waiting", "answered"

answerVars == <<ask, answer, reply, learned, at>>

Dialects == {"openai", "claude", "gemini", "responses"}

(* What a document may hold.  "listed": the content of a chat message, or  *)
(* of a Responses item that reasons, is a list of parts that are no answer; *)
(* "blank": the first choice or block says the empty string, whatever      *)
(* follows it.                                                             *)
Said == {"text", "calls"}
Streamed == SUBSET (Said \union {"reasoning"})
Contents == SUBSET (Said \union {"reasoning", "listed", "blank"})

Ask == [client : {"openai", "claude", "responses", "completions"}, stream : BOOLEAN,
        wire : Dialects, tier : {"free", "opencode", "other"}]

(* body: the complaint a refusal makes; large: more than half the window   *)
(* is accounted for.                                                       *)
Refusals == [status : {400, 401, 403, 413, 429, 500},
             body : {"quota", "gate", "context", "generic", "other"}, large : BOOLEAN]

Doc(shape, has) == [shape |-> shape, has |-> has]

Reply(kind, code, has) == [kind |-> kind, code |-> code, has |-> has]
NoReply == Reply("none", 0, {})
Next502 == Reply("next", 502, {})

-----------------------------------------------------------------------------
(* Refusals, in the order of the code.                                     *)

OpencodeTier == ask.tier \in {"free", "opencode"}

(* A refusal that gives no reason, of a request that may be too large.     *)
OutOfRoom(r) == OpencodeTier /\ r.status = 400 /\ r.body = "generic" /\ r.large

Refused(r) ==
    CASE ask.tier = "free" /\ r.status = 429 /\ r.body = "quota" -> Reply("quota", 429, {})
      [] OpencodeTier /\ r.status \in {401, 403} /\ r.body = "gate" -> Reply("next", 503, {})
      [] r.status \in {400, 413} /\ r.body = "context" -> Reply("next", 413, {})
      [] OutOfRoom(r) -> Reply("next", 413, {})
      [] OTHER -> Reply("next", r.status, {})

-----------------------------------------------------------------------------
(* Documents.                                                              *)

(* value_has_output: any list is output, and so is a thought of Gemini's.  *)
Counted ==
    [openai |-> Said \union {"listed"}, claude |-> Said,
     responses |-> Said \union {"listed"}, gemini |-> Said \union {"reasoning"}]

(* upstream_content_is_empty: the first choice or block speaks for all,    *)
(* unless a tool is called.                                                *)
FirstIsBlank(doc) ==
    doc.shape \in {"openai", "claude"} /\ "blank" \in doc.has /\ "calls" \notin doc.has

Empty(doc) == FirstIsBlank(doc) \/ doc.has \cap Counted[doc.shape] = {}


(* A translator finds nothing in a document of another dialect, and takes  *)
(* what Gemini thought for text.                                           *)
ReadAs(dialect, doc) ==
    IF doc.shape # dialect THEN {}
    ELSE IF dialect = "gemini" /\ "reasoning" \in doc.has
         THEN (doc.has \ {"reasoning"}) \union {"text"}
         ELSE doc.has

(* translate_json_response: to a chat completion, then to the client's.    *)
(* Responses to Responses is handed on unread.                             *)
Translated(doc) ==
    IF ask.wire = "responses" /\ ask.client = "responses" THEN ReadAs("responses", doc)
    ELSE IF ask.client = "completions" THEN ReadAs(ask.wire, doc) \cap {"text"}
         ELSE ReadAs(ask.wire, doc)

(* synthesize_canonical_chunks: a role, the content, and the finish reason. *)
(* Only a Responses document says which dialect it is.                     *)
Synthesized(doc) ==
    (IF doc.shape \in {"openai", "responses"} THEN doc.has ELSE {}) \cap {"text"}

(* CompletionAccumulator makes a chat completion of any dialect's stream.  *)
Folded(has) == Doc("openai", has)

Delivered(doc) == Reply("answer", 200, IF ask.stream THEN Synthesized(doc) ELSE Translated(doc))

-----------------------------------------------------------------------------

AnswerInit ==
    /\ ask = [client |-> "openai", stream |-> FALSE, wire |-> "openai", tier |-> "other"]
    /\ answer = Doc("openai", {}) /\ reply = NoReply /\ learned = {} /\ at = "idle"

Prepare ==
    /\ at = "idle" /\ ask' \in Ask /\ at' = "waiting"
    /\ UNCHANGED <<answer, reply, learned>>

Replies(r, statuses) ==
    /\ reply' = r /\ learned' = statuses /\ at' = "answered"
    /\ UNCHANGED ask

Refuse ==
    /\ at = "waiting"
    /\ \E r \in Refusals : Replies(Refused(r), {r.status})
    /\ UNCHANGED answer

(* A request that is not sent, or whose answer does not arrive. *)
NetworkFails ==
    /\ at = "waiting"
    /\ Replies(IF ask.tier = "free" THEN Reply("next", 503, {}) ELSE Next502, {})
    /\ UNCHANGED answer

(* An empty answer of an OpenCode tier is told as a 502 after the 200. *)
FallsThrough == Replies(Next502, IF OpencodeTier THEN {200, 502} ELSE {200})

(* The free lane always streams, whatever the client asked for; other      *)
(* upstreams may ignore the question of a stream, or insist on one.        *)
Stream ==
    /\ at = "waiting" /\ ask.stream
    /\ \E has \in Streamed :
          /\ answer' = Doc(ask.wire, has)
          /\ Replies(Reply("stream", 200, has), {200})

Fold ==
    /\ at = "waiting" /\ ~ask.stream
    /\ \E has \in Streamed :
          /\ answer' = Folded(has)
          /\ IF Empty(answer') THEN FallsThrough ELSE Replies(Delivered(answer'), {200})

(* 504 after an idle gap, 502 after a read error. *)
FoldFails ==
    /\ at = "waiting" /\ ~ask.stream
    /\ \E code \in {502, 504} : Replies(Reply("next", code, {}), {200})
    /\ UNCHANGED answer

Document ==
    /\ at = "waiting" /\ ask.tier # "free"
    /\ \E has \in Contents :
          /\ answer' = Doc(ask.wire, has)
          /\ IF Empty(answer') THEN FallsThrough ELSE Replies(Delivered(answer'), {200})

(* A body that cannot be read, or is not JSON. *)
Unreadable ==
    /\ at = "waiting" /\ ask.tier # "free"
    /\ Replies(Next502, {200})
    /\ UNCHANGED answer

AnswerNext == Prepare \/ Refuse \/ NetworkFails \/ Stream \/ Fold \/ FoldFails
                \/ Document \/ Unreadable

AnswerSpec == AnswerInit /\ [][AnswerNext]_answerVars

-----------------------------------------------------------------------------

(* Where the code loses what was said: a document that is streamed keeps   *)
(* its text, if it is one of OpenAI's or Responses'; a folded stream is    *)
(* read as a document of the wire's dialect; a legacy completion has text. *)
Lossy ==
    \/ ask.stream /\ (answer.shape \in {"claude", "gemini"} \/ "text" \notin answer.has)
    \/ ~ask.stream /\ answer.shape # ask.wire
    \/ ask.client = "completions" /\ "text" \notin answer.has

=============================================================================
