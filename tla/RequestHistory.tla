--------------------------- MODULE RequestHistory ---------------------------
(***************************************************************************)
(* What try_candidate makes of a conversation before it sends it: the      *)
(* client's dialect becomes chat messages, the messages are repaired for   *)
(* strict upstreams, and become the wire's dialect.  Texts, arguments and  *)
(* sampling options are left out: the model follows tool calls and tool    *)
(* results, which the upstream pairs by a handle.                          *)
(*                                                                         *)
(* A call or a result is [of, handle]: the call it is, or answers, and the *)
(* handle it carries.  "of" is not in the code: the properties compare it. *)
(***************************************************************************)
EXTENDS Places, FiniteSets, SequencesExt

CONSTANTS
    MaxTurns,     \* turns of a conversation
    MaxParallel   \* tool calls of an assistant turn

VARIABLES
    client,   \* the client's dialect
    target,   \* the wire and the provider
    turns,    \* the conversation, as the client means it
    chat,     \* the chat messages
    body,     \* the tool calls and results the upstream is sent
    step      \* "idle", "talking", "chat", "repaired", "sent"

historyVars == <<client, target, turns, chat, body, step>>

Clients == {"openai", "claude", "responses"}
Targets == [wire : {"openai", "claude", "gemini", "responses"}, go : BOOLEAN]

Lost == 0           \* a result whose id is missing or empty
Ref(of, handle) == [of |-> of, handle |-> handle]

(* A turn: the calls of an assistant, the results of a user, or text.      *)
(* embedded: the client keeps its calls as content blocks.                 *)
Turn(role, calls, results, embedded) ==
    [role |-> role, calls |-> calls, results |-> results, embedded |-> embedded]

Msg(role, calls, result, blocks) ==
    [role |-> role, calls |-> calls, result |-> result, blocks |-> blocks]
NoResult == Ref(0, Lost)

-----------------------------------------------------------------------------
(* The client's dialect to chat messages.                                  *)

Plain(role) == Msg(role, << >>, NoResult, << >>)
ToolMsg(r) == Msg("tool", << >>, r, << >>)

(* Chat: one message a turn, and one for each result. *)
OpenaiChat(t) ==
    CASE t.role = "assistant" ->
            <<Msg("assistant", IF t.embedded THEN << >> ELSE t.calls, NoResult,
                  IF t.embedded THEN t.calls ELSE << >>)>>
      [] t.results # << >> -> [i \in DOMAIN t.results |-> ToolMsg(t.results[i])]
      [] OTHER -> <<Plain("user")>>

(* Claude: a user turn holds its results and text; the text of the turn    *)
(* follows its last result.                                                *)
ClaudeChat(t) ==
    IF t.role = "assistant" THEN <<Msg("assistant", t.calls, NoResult, << >>)>>
    ELSE [i \in DOMAIN t.results |-> ToolMsg(t.results[i])] \o <<Plain("user")>>

(* Responses: every function call is an item, and a message, of its own.   *)
ResponsesChat(t) ==
    CASE t.calls # << >> ->
            [i \in DOMAIN t.calls |-> Msg("assistant", <<t.calls[i]>>, NoResult, << >>)]
      [] t.results # << >> -> [i \in DOMAIN t.results |-> ToolMsg(t.results[i])]
      [] OTHER -> <<Plain(t.role)>>

ToChat(t) == CASE client = "openai" -> OpenaiChat(t)
               [] client = "claude" -> ClaudeChat(t)
               [] client = "responses" -> ResponsesChat(t)

-----------------------------------------------------------------------------
(* Repairs.                                                                *)

(* Slip: blocks are lifted over the calls a message has. *)
LiftedAlways(m) ==
    IF m.role # "assistant" \/ m.blocks = << >> THEN m
    ELSE [m EXCEPT !.calls = SubSeq(m.blocks, 1, 1), !.blocks = << >>]

(* normalize_assistant_tool_calls_for_chat: blocks become tool calls, one  *)
(* for each id, unless the message has tool calls already.                 *)
FirstOfEach(calls) ==
    {i \in DOMAIN calls : \A j \in 1 .. i - 1 : calls[j].handle # calls[i].handle}

Lifted(m) ==
    IF m.role # "assistant" \/ m.blocks = << >> THEN m
    ELSE [m EXCEPT !.blocks = << >>,
                   !.calls = IF m.calls # << >> THEN @ ELSE Those(m.blocks, FirstOfEach(m.blocks))]

Handles(calls) == [i \in DOMAIN calls |-> calls[i].handle]

(* sanitize_opencode_go_request: a result is paired with the calls of the  *)
(* message before it, by its id, or with the first that has no result yet. *)
(* open: the places among those calls that have none.                      *)
Waiting(calls, open) == [calls |-> calls, open |-> open]

GoResult(w, r) ==
    IF r.handle # Lost /\ (w.open = {} \/ \E i \in w.open : w.calls[i] = r.handle) THEN r.handle
    ELSE IF w.open # {} THEN w.calls[Min(w.open)]
    ELSE Lost

FirstOpen(w, h) ==
    {i \in w.open : w.calls[i] = h /\ \A j \in w.open : w.calls[j] = h => i <= j}

(* Who waits for results after a message. *)
GoStep(w, m) ==
    CASE m.role = "assistant" -> Waiting(Handles(m.calls), DOMAIN m.calls)
      [] m.role = "tool" -> Waiting(w.calls, w.open \ FirstOpen(w, GoResult(w, m.result)))
      [] OTHER -> Waiting(<< >>, {})

(* A result that matches nothing and has no id is dropped. *)
GoMessages(messages) ==
    LET wait[i \in 0 .. Len(messages)] ==
            IF i = 0 THEN Waiting(<< >>, {}) ELSE GoStep(wait[i - 1], messages[i])
        handle(i) == GoResult(wait[i - 1], messages[i].result)
        paired == [i \in DOMAIN messages |->
                      IF messages[i].role # "tool" THEN messages[i]
                      ELSE [messages[i] EXCEPT !.result = Ref(@.of, handle(i))]]
    IN  Those(paired, {i \in DOMAIN paired : paired[i].role = "tool" => paired[i].result.handle # Lost})

(* Both repairs are for chat wires only. *)
Repaired(messages) ==
    IF target.wire # "openai" THEN messages
    ELSE LET lifted == [i \in DOMAIN messages |-> Lifted(messages[i])]
         IN  IF target.go THEN GoMessages(lifted) ELSE lifted

-----------------------------------------------------------------------------
(* Chat messages to the wire: what carries calls and results.              *)

Call(c) == [kind |-> "call", ref |-> c]
Answer(r) == [kind |-> "result", ref |-> r]

CallsOf(m) == [i \in DOMAIN m.calls |-> Call(m.calls[i])]

(* Chat, Claude and Responses: handles are ids, in the order of messages.  *)
(* A content block that is not text does not reach another dialect.        *)
ByIds(messages) ==
    FlattenSeq([i \in DOMAIN messages |->
        IF messages[i].role = "tool" THEN <<Answer(messages[i].result)>> ELSE CallsOf(messages[i])])

(* Two calls in a row may be of one tool; names are numbers below zero. *)
ToolOf(of) == IF of <= 2 THEN -1 ELSE -2
CallsBy(all, id) == {i \in DOMAIN all : all[i].kind = "call" /\ all[i].ref.handle = id}
Named(all, id) == IF CallsBy(all, id) = {} THEN id ELSE ToolOf(all[Max(CallsBy(all, id))].ref.of)

(* Gemini: a result goes by its tool's name, which an earlier scan of the  *)
(* assistant messages found by its id.                                     *)
ByName(all, e) ==
    [e EXCEPT !.ref = Ref(@.of, IF e.kind = "call" THEN ToolOf(@.of) ELSE Named(all, @.handle))]
ByNames(messages) ==
    LET all == ByIds(messages) IN [i \in DOMAIN all |-> ByName(all, all[i])]

OnWire(messages) == IF target.wire = "gemini" THEN ByNames(messages) ELSE ByIds(messages)

-----------------------------------------------------------------------------

HistoryInit ==
    /\ client = "openai" /\ target = [wire |-> "openai", go |-> FALSE]
    /\ turns = << >> /\ chat = << >> /\ body = << >> /\ step = "idle"

Ask ==
    /\ step = "idle"
    /\ client' \in Clients
    /\ target' \in {t \in Targets : t.go => t.wire = "openai"}
    /\ step' = "talking"
    /\ UNCHANGED <<turns, chat, body>>

Called == UNION {{t.calls[i].of : i \in DOMAIN t.calls} : t \in Range(turns)}

LastCalls == IF turns = << >> THEN << >> ELSE Last(turns).calls

(* The calls a turn may make.                                              *)
Makes(n) == {[i \in 1 .. k |-> Ref(n + i, n + i)] : k \in 0 .. MaxParallel}

(* The results of a turn answer all calls of the turn before, in any       *)
(* order, or lose their ids one and all, in order.                         *)
Replies(calls) ==
    {[i \in DOMAIN calls |-> calls[p[i]]] :
        p \in {q \in [DOMAIN calls -> DOMAIN calls] : IsInjective(q)}}
    \cup {[i \in DOMAIN calls |-> Ref(calls[i].of, Lost)]}

Says ==
    /\ step = "talking" /\ Len(turns) < MaxTurns
    /\ \/ /\ LastCalls # << >>
          /\ \E r \in Replies(LastCalls) : turns' = Append(turns, Turn("user", << >>, r, FALSE))
       \/ /\ LastCalls = << >>
          /\ turns' = Append(turns, Turn("user", << >>, << >>, FALSE))
       \/ /\ LastCalls = << >>
          /\ \E c \in Makes(Cardinality(Called)), embedded \in BOOLEAN :
                 /\ embedded => client = "openai"
                 /\ turns' = Append(turns, Turn("assistant", c, << >>, embedded))
    /\ UNCHANGED <<client, target, chat, body, step>>

TranslateRequest ==
    /\ step = "talking" /\ turns # << >>
    /\ chat' = FlattenSeq([i \in DOMAIN turns |-> ToChat(turns[i])])
    /\ step' = "chat"
    /\ UNCHANGED <<client, target, turns, body>>

Repair ==
    /\ step = "chat"
    /\ chat' = Repaired(chat) /\ step' = "repaired"
    /\ UNCHANGED <<client, target, turns, body>>

Dispatch ==
    /\ step = "repaired"
    /\ body' = OnWire(chat) /\ step' = "sent"
    /\ UNCHANGED <<client, target, turns, chat>>

HistoryNext == Ask \/ Says \/ TranslateRequest \/ Repair \/ Dispatch

HistorySpec == HistoryInit /\ [][HistoryNext]_historyVars

-----------------------------------------------------------------------------

Paired ==
    \A i \in DOMAIN body :
        (body[i].kind = "result" /\ body[i].ref.handle # Lost) =>
            \E j \in 1 .. i - 1 : body[j].kind = "call" /\ body[j].ref = body[i].ref

(* Calls kept as content blocks are lifted for chat wires only.            *)
Liftable == target.wire = "openai" \/ \A i \in DOMAIN turns : ~turns[i].embedded

(* Each result of the client's history reaches the upstream under the      *)
(* handle of the call it answers, whichever dialects the two speak: the    *)
(* model would otherwise read one tool's output as another's.  Function    *)
(* call items of Responses that run in parallel are excepted for OpenCode  *)
(* Go: each is a turn of its own, and the repair pairs with the last one.  *)
ResultsReachTheirCalls ==
    (step = "sent" /\ Liftable /\ ~(target.go /\ client = "responses")) =>
        /\ Paired
        /\ \A t \in Range(turns) : \A i \in DOMAIN t.calls :
              \E j \in DOMAIN body : body[j].kind = "call" /\ body[j].ref.of = t.calls[i].of
        /\ \A t \in Range(turns) : \A i \in DOMAIN t.results :
              \E j \in DOMAIN body : body[j].kind = "result" /\ body[j].ref.of = t.results[i].of
=============================================================================
