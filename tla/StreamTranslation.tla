------------------------- MODULE StreamTranslation -------------------------
(***************************************************************************)
(* A stream on its way through the gateway: events in the upstream's       *)
(* dialect become canonical chunks (UpstreamSource), and the chunks become *)
(* frames of the client's dialect (InboundSink).  The translators are      *)
(* functions from a state and an input to a state and the outputs; the     *)
(* state machine feeds them one upstream event at a time, then does what   *)
(* the pump does at the end: it reports an estimate when the upstream      *)
(* reported no usage, and closes the client's dialect.                     *)
(*                                                                         *)
(* Text, arguments and identifiers are left out.  "of" in a part or a      *)
(* frame is the tool call it belongs to upstream: the code does not carry  *)
(* it, the properties compare by it.                                       *)
(***************************************************************************)
EXTENDS Places, FiniteSets, SequencesExt

CONSTANTS
    MaxEvents,   \* the length of an upstream stream
    MaxCalls     \* the tool calls of one stream

VARIABLES
    formats,     \* the upstream's dialect and the client's
    env,         \* what the upstream has sent so far
    source,      \* the state of the upstream's translator
    sink,        \* the state of the client's translator
    usage,       \* the pump has seen a usage other than zero
    frames,      \* every frame for the client
    stage        \* "idle", "open", "closed"

streamVars == <<formats, env, source, sink, usage, frames, stage>>

Dialects == {"openai", "claude", "gemini", "responses"}
Clients == {"openai", "claude", "responses", "completions"}
NoIndex == -1

Part(kind, index, of) == [kind |-> kind, index |-> index, of |-> of]

(* The chunk of one choice: its parts in the order the code reads them.    *)
Chunk(parts, finish, counted) == [parts |-> parts, finish |-> finish, usage |-> counted]

(* seq: the frame's number, where the client's dialect has one.            *)
Frame(type, index, of) == [type |-> type, index |-> index, of |-> of, seq |-> 0]
Result(state, out) == [state |-> state, out |-> out]
Then(r, next) == Result(next.state, r.out \o next.out)

(* A finite set of numbers, least first. *)
Ascending(S) == IF S = {} THEN << >> ELSE Those([k \in 1 .. Max(S) + 1 |-> k - 1], {n + 1 : n \in S})

-----------------------------------------------------------------------------
(* Upstream dialects to canonical chunks.                                  *)

(* calls: what keys the index of a tool call, in the order of the indexes. *)
NewSource == [calls |-> << >>, role |-> FALSE, tool |-> FALSE, finish |-> "none"]

(* Slip: arguments go to the call that was opened last. *)
LatestIndex(s, key) == Len(s.calls) - 1

(* A later entry of the same key replaces the earlier one. *)
CallIndex(s, key) ==
    LET places == {i \in DOMAIN s.calls : s.calls[i] = key}
    IN  IF places = {} THEN NoIndex ELSE Max(places) - 1

OpenaiChunks(s, e) == Result(s, <<e.chunk>>)

(* The start names the role; the finish reason waits for message_stop; an  *)
(* error is text that ends the turn.  The token counts of message_delta stay in the translator.    *)
ClaudeChunks(s, e) ==
    CASE e.type = "message_start" -> Result(s, <<Chunk(<< >>, "none", FALSE)>>)
      [] e.type = "tool_start" ->
            Result([s EXCEPT !.calls = Append(@, e.key)],
                   <<Chunk(<<Part("call", Len(s.calls), e.of)>>, "none", FALSE)>>)
      [] e.type = "args" ->
            Result(s, IF CallIndex(s, e.key) = NoIndex THEN << >>
                      ELSE <<Chunk(<<Part("args", CallIndex(s, e.key), e.of)>>, "none", FALSE)>>)
      [] e.type \in {"text", "reasoning"} ->
            Result(s, <<Chunk(<<Part(e.type, NoIndex, NoIndex)>>, "none", FALSE)>>)
      [] e.type = "message_delta" -> Result([s EXCEPT !.finish = e.finish], << >>)
      [] e.type = "message_stop" ->
            Result(s, <<Chunk(<< >>, IF s.finish = "none" THEN "stop" ELSE s.finish, FALSE)>>)
      [] e.type = "error" ->
            Result(s, <<Chunk(<<Part("text", NoIndex, NoIndex)>>, "stop", FALSE)>>)
      [] OTHER -> Result(s, << >>)

(* A payload of several parts makes several chunks.  Its finish reason and *)
(* its usage are kept in the translator and make no chunk.                 *)
GeminiPart(r, p) ==
    IF p.kind = "text"
    THEN Result([r.state EXCEPT !.role = TRUE], Append(r.out, Chunk(<<p>>, "none", FALSE)))
    ELSE Result([r.state EXCEPT !.calls = Append(@, p.of)],
                Append(r.out, Chunk(<<Part("call", Len(r.state.calls), p.of),
                                      Part("args", Len(r.state.calls), p.of)>>, "none", FALSE)))

GeminiChunks(s, e) ==
    LET read[i \in 0 .. Len(e.parts)] ==
            IF i = 0 THEN Result(s, << >>) ELSE GeminiPart(read[i - 1], e.parts[i])
        all == read[Len(e.parts)]
    IN  Result([all.state EXCEPT !.finish = IF e.finish = "none" THEN @ ELSE e.finish], all.out)

(* Arguments of an item nobody announced open a call of their own.  The    *)
(* usage of the final event is put into the chunk.                         *)
ResponsesChunks(s, e) ==
    CASE e.type = "created" ->
            Result([s EXCEPT !.role = TRUE],
                   IF s.role THEN << >> ELSE <<Chunk(<< >>, "none", FALSE)>>)
      [] e.type = "text" ->
            Result([s EXCEPT !.role = TRUE],
                   <<Chunk(<<Part("text", NoIndex, NoIndex)>>, "none", FALSE)>>)
      [] e.type = "reasoning" ->
            Result(s, <<Chunk(<<Part("reasoning", NoIndex, NoIndex)>>, "none", FALSE)>>)
      [] e.type = "tool_start" ->
            Result([s EXCEPT !.calls = Append(@, e.key), !.tool = TRUE],
                   <<Chunk(<<Part("call", Len(s.calls), e.of)>>, "none", FALSE)>>)
      [] e.type = "args" ->
            LET known == CallIndex(s, e.key)
            IN  IF known # NoIndex
                THEN Result(s, <<Chunk(<<Part("args", known, e.of)>>, "none", FALSE)>>)
                ELSE Result([s EXCEPT !.calls = Append(@, e.key)],
                            <<Chunk(<<Part("args", Len(s.calls), e.of)>>, "none", FALSE)>>)
      [] e.type \in {"completed", "incomplete"} ->
            Result(s, <<Chunk(<< >>, CASE e.type = "incomplete" -> "length"
                                       [] e.type = "completed" /\ s.tool -> "tool_calls"
                                       [] OTHER -> "stop", e.usage)>>)
      [] OTHER -> Result(s, << >>)

Chunks(dialect, s, e) ==
    CASE dialect = "openai" -> OpenaiChunks(s, e)
      [] dialect = "claude" -> ClaudeChunks(s, e)
      [] dialect = "gemini" -> GeminiChunks(s, e)
      [] dialect = "responses" -> ResponsesChunks(s, e)

-----------------------------------------------------------------------------
(* Canonical chunks to Claude events.                                      *)

(* reasoning, text: the index of that block; tools: pairs of a call's      *)
(* index and its block, in the order they were opened.                     *)
NewClaudeSink == [started |-> FALSE, reasoning |-> NoIndex, text |-> NoIndex, count |-> 0,
                  reasoningOpen |-> FALSE, textOpen |-> FALSE, tools |-> << >>,
                  finished |-> FALSE]

AtLeastOne(n) == IF n < 1 THEN 1 ELSE n

BlockOf(s, call) ==
    LET places == {i \in DOMAIN s.tools : s.tools[i].call = call}
    IN  IF places = {} THEN NoIndex ELSE s.tools[CHOOSE i \in places : TRUE].block

(* Reasoning takes block 0 unless text came before it. *)
OpenReasoning(s) ==
    IF s.reasoning # NoIndex THEN s
    ELSE LET block == IF s.text # NoIndex THEN AtLeastOne(s.count) ELSE 0
         IN  [s EXCEPT !.reasoning = block, !.reasoningOpen = TRUE,
                       !.count = IF s.text # NoIndex THEN block + 1 ELSE AtLeastOne(@)]

OpenText(s) ==
    IF s.text # NoIndex THEN s
    ELSE [s EXCEPT !.text = s.count, !.textOpen = TRUE, !.count = @ + 1]

OpenTool(s, call) ==
    IF BlockOf(s, call) # NoIndex THEN s
    ELSE LET block == IF s.text # NoIndex THEN AtLeastOne(s.count) ELSE s.count
         IN  [s EXCEPT !.tools = Append(@, [call |-> call, block |-> block]), !.count = block + 1]

(* One part of a delta: the block it opens, if any, and its own event. *)
ClaudePart(r, p) ==
    LET s == r.state
        opened == CASE p.kind = "reasoning" -> OpenReasoning(s)
                    [] p.kind = "text" -> OpenText(s)
                    [] OTHER -> OpenTool(s, p.index)
        block == CASE p.kind = "reasoning" -> opened.reasoning
                   [] p.kind = "text" -> opened.text
                   [] OTHER -> BlockOf(opened, p.index)
        start == IF opened = s THEN << >> ELSE <<Frame("block_start", block, p.of)>>
        delta == IF p.kind = "call" THEN << >> ELSE <<Frame("block_delta", block, p.of)>>
    IN  Result(opened, r.out \o start \o delta)

(* close_blocks: reasoning, then text, then the tools by block. *)
ClosedBlocks(s) ==
    LET Stop(b) == Frame("block_stop", b, NoIndex)
        thoughts == IF s.reasoning # NoIndex /\ s.reasoningOpen THEN <<Stop(s.reasoning)>> ELSE << >>
        text == IF s.text # NoIndex /\ s.textOpen THEN <<Stop(s.text)>> ELSE << >>
        blocks == Ascending({s.tools[i].block : i \in DOMAIN s.tools})
    IN  thoughts \o text \o [i \in DOMAIN blocks |-> Stop(blocks[i])]

EndClaude(r) ==
    Result([r.state EXCEPT !.reasoningOpen = FALSE, !.textOpen = FALSE, !.finished = TRUE],
           r.out \o ClosedBlocks(r.state)
                 \o <<Frame("message_delta", NoIndex, NoIndex), Frame("message_stop", NoIndex, NoIndex)>>)

StartClaude(s) ==
    Result([s EXCEPT !.started = TRUE],
           IF s.started THEN << >>
           ELSE <<Frame("message_start", NoIndex, NoIndex), Frame("ping", NoIndex, NoIndex)>>)

EndedIf(condition, r) == IF condition THEN EndClaude(r) ELSE r

ClaudeSays(s, parts) ==
    LET said[i \in 0 .. Len(parts)] ==
            IF i = 0 THEN StartClaude(s) ELSE ClaudePart(said[i - 1], parts[i])
    IN  said[Len(parts)]

(* Slip: an end of stream closes a finished message again. *)
ClaudeFramesTwice(s, c, end) ==
    LET done == EndedIf(c.finish # "none", ClaudeSays(s, c.parts))
    IN  EndedIf(end, done)

ClaudeFrames(s, c, end) ==
    LET done == EndedIf(c.finish # "none", ClaudeSays(s, c.parts))
    IN  EndedIf(end /\ ~done.state.finished, done)

-----------------------------------------------------------------------------
(* Canonical chunks to Responses events.                                   *)

(* Frames carry their sequence number; items: the output items in the      *)
(* order of their indexes, a tool by its call's index.                     *)
NewResponsesSink == [started |-> FALSE, seq |-> 0, items |-> << >>, finish |-> "none"]

Item(kind, call) == [kind |-> kind, call |-> call]

ItemOf(s, item) ==
    LET places == {i \in DOMAIN s.items : s.items[i] = item}
    IN  IF places = {} THEN NoIndex ELSE (CHOOSE i \in places : TRUE) - 1

Numbered(s, out) ==
    Result([s EXCEPT !.seq = @ + Len(out)], [i \in DOMAIN out |-> [out[i] EXCEPT !.seq = s.seq + i]])

(* An item is added with its first part; a tool's name opens it, and only  *)
(* arguments make a delta.                                                 *)
ResponsesPart(r, p) ==
    LET item == Item(IF p.kind \in {"call", "args"} THEN "tool" ELSE p.kind, p.index)
        known == ItemOf(r.state, item)
        index == IF known = NoIndex THEN Len(r.state.items) ELSE known
        added == IF known # NoIndex THEN << >>
                 ELSE IF item.kind = "tool" THEN <<Frame("added", index, p.of)>>
                 ELSE <<Frame("added", index, p.of), Frame("part_added", index, p.of)>>
        delta == IF p.kind = "call" THEN << >> ELSE <<Frame("delta", index, p.of)>>
        opened == IF known # NoIndex THEN r.state ELSE [r.state EXCEPT !.items = Append(@, item)]
    IN  Then(r, Numbered(opened, added \o delta))

(* The items are closed by kind: reasoning, message, then tools by call. *)
Rank(item) == CASE item.kind = "reasoning" -> 0 [] item.kind = "text" -> 1 [] OTHER -> item.call + 2

ItemRanked(s, rank) == CHOOSE i \in DOMAIN s.items : Rank(s.items[i]) = rank

Closing(s, rank) ==
    LET index == ItemRanked(s, rank) - 1
        ends == <<Frame("part_done", index, NoIndex), Frame("done", index, NoIndex)>>
    IN  IF rank = 0 THEN <<Frame("text_done", index, NoIndex)>> \o ends ELSE ends

CloseResponses(s) ==
    LET ranks == Ascending({Rank(s.items[i]) : i \in DOMAIN s.items})
        items == FlattenSeq([k \in DOMAIN ranks |-> Closing(s, ranks[k])])
        last == IF s.finish \in {"length", "content_filter"} THEN "incomplete" ELSE "completed"
    IN  Numbered(s, items \o <<Frame(last, NoIndex, NoIndex)>>)

(* The first event draws two numbers: one is written into the response. *)
StartResponses(s) ==
    IF s.started THEN Result(s, << >>)
    ELSE Numbered([s EXCEPT !.started = TRUE, !.seq = @ + 1], <<Frame("created", NoIndex, NoIndex)>>)

ResponsesSays(r, parts) ==
    LET said[i \in 0 .. Len(parts)] == IF i = 0 THEN r ELSE ResponsesPart(said[i - 1], parts[i])
    IN  said[Len(parts)]

ResponsesFrames(s, c, end) ==
    LET begin == IF end THEN Result(s, << >>) ELSE StartResponses(s)
        noted == Result([begin.state EXCEPT !.finish = IF c.finish = "none" THEN @ ELSE c.finish], begin.out)
        said == ResponsesSays(noted, c.parts)
    IN  IF end THEN Then(said, CloseResponses(said.state)) ELSE said

-----------------------------------------------------------------------------
(* The sink of the client's dialect.                                       *)

NewSink(client) ==
    CASE client = "claude" -> NewClaudeSink
      [] client = "responses" -> NewResponsesSink
      [] OTHER -> << >>

(* A legacy completion chunk keeps the text and the finish reason. *)
CompletionChunk(c) ==
    Chunk(Those(c.parts, {i \in DOMAIN c.parts : c.parts[i].kind = "text"}), c.finish, c.usage)

(* Chat chunks are sent as they are: an event per part stands for one. *)
ChatFrames(c) ==
    [i \in DOMAIN c.parts |-> Frame(c.parts[i].kind, c.parts[i].index, c.parts[i].of)]
      \o (IF c.finish = "none" THEN << >> ELSE <<Frame("finish", NoIndex, NoIndex)>>)

Emit(client, s, c) ==
    CASE client = "claude" -> ClaudeFrames(s, c, FALSE)
      [] client = "responses" -> ResponsesFrames(s, c, FALSE)
      [] client = "completions" -> Result(s, ChatFrames(CompletionChunk(c)))
      [] client = "openai" -> Result(s, ChatFrames(c))

Nothing == Chunk(<< >>, "none", FALSE)

Finish(client, s) ==
    CASE client = "claude" -> ClaudeFrames(s, Nothing, TRUE)
      [] client = "responses" -> ResponsesFrames(s, Nothing, TRUE)
      [] OTHER -> Result(s, <<Frame("DONE", NoIndex, NoIndex)>>)

EmitNext(client, r, c) == Then(r, Emit(client, r.state, c))
EmitAll(client, s, chunks) ==
    LET sent[i \in 0 .. Len(chunks)] ==
            IF i = 0 THEN Result(s, << >>) ELSE EmitNext(client, sent[i - 1], chunks[i])
    IN  sent[Len(chunks)]

-----------------------------------------------------------------------------
(* The upstream: what each dialect may send next.                          *)

NewEnv == [sent |-> 0, calls |-> 0, open |-> "none", block |-> -1, started |-> FALSE,
           closing |-> FALSE, over |-> FALSE]

Event(type, key, of) == [type |-> type, key |-> key, of |-> of, finish |-> "none", usage |-> FALSE]
Sent(e, then) == [event |-> e, env |-> then]
Payload(c) == [type |-> "chunk", chunk |-> c]

Finishes == {"stop", "length", "tool_calls"}

(* A chunk carries one part, or text and the tool call it introduces.      *)
(* After the finish reason only a usage chunk follows.                     *)
OpenaiUpstream ==
    LET said == {<<Part("text", NoIndex, NoIndex)>>, <<Part("reasoning", NoIndex, NoIndex)>>}
                   \cup {<<Part("args", i, i)>> : i \in 0 .. env.calls - 1}
        new == {<<Part("call", env.calls, env.calls)>>,
                <<Part("text", NoIndex, NoIndex), Part("call", env.calls, env.calls)>>}
    IN  IF env.closing
        THEN {Sent(Payload(Chunk(<< >>, "none", TRUE)), [env EXCEPT !.over = TRUE])}
        ELSE {Sent(Payload(Chunk(p, "none", FALSE)), env) : p \in said}
             \cup {Sent(Payload(Chunk(p, "none", FALSE)), [env EXCEPT !.calls = @ + 1]) :
                     p \in {q \in new : env.calls < MaxCalls}}
             \cup {Sent(Payload(Chunk(<< >>, f, FALSE)), [env EXCEPT !.closing = TRUE]) : f \in Finishes}

(* Blocks are numbered, and one is open at a time. *)
ClaudeUpstream ==
    IF ~env.started THEN {Sent(Event("message_start", 0, 0), [env EXCEPT !.started = TRUE])}
    ELSE IF env.closing THEN {Sent(Event("message_stop", 0, 0), [env EXCEPT !.over = TRUE])}
    ELSE {Sent(Event("error", 0, 0), [env EXCEPT !.over = TRUE])}
         \cup {Sent([Event("message_delta", 0, 0) EXCEPT !.finish = f], [env EXCEPT !.closing = TRUE]) :
                 f \in Finishes}
         \cup {Sent(Event("tool_start", n + 1, env.calls),
                    [env EXCEPT !.calls = @ + 1, !.open = "args", !.block = n + 1]) :
                 n \in {b \in {env.block} : env.calls < MaxCalls}}
         \cup {Sent(Event("block_start", env.block + 1, 0), [env EXCEPT !.open = k, !.block = @ + 1]) :
                 k \in {"text", "reasoning"}}
         \cup {Sent(Event(k, env.block, env.calls - 1), env) : k \in {env.open} \ {"none"}}

(* A payload has text, a call, both or neither. *)
GeminiSends(finish, said, called) ==
    Sent([type |-> "payload", finish |-> finish, parts |-> said \o called],
         [env EXCEPT !.calls = @ + Len(called), !.over = finish # "none"])

GeminiUpstream ==
    {GeminiSends(f, p, c) :
     f \in {"none", "stop", "length"}, p \in {<< >>, <<Part("text", NoIndex, NoIndex)>>},
     c \in {<< >>} \cup {<<Part("call", NoIndex, n)>> : n \in {m \in {env.calls} : m < MaxCalls}}}

(* Arguments may go to any call that was announced. *)
ResponsesEnds(kind, counted) ==
    Sent([Event(kind, 0, 0) EXCEPT !.usage = counted], [env EXCEPT !.over = TRUE])

ResponsesUpstream ==
    IF ~env.started THEN {Sent(Event("created", 0, 0), [env EXCEPT !.started = TRUE])}
    ELSE {Sent(Event(k, 0, 0), env) : k \in {"text", "reasoning"}}
         \cup {Sent(Event("args", i, i), env) : i \in 0 .. env.calls - 1}
         \cup {Sent(Event("tool_start", n, n), [env EXCEPT !.calls = n + 1]) :
                 n \in {m \in {env.calls} : m < MaxCalls}}
         \cup {ResponsesEnds(k, u) : k \in {"completed", "incomplete"}, u \in BOOLEAN}

Upstream == CASE formats.from = "openai" -> OpenaiUpstream
              [] formats.from = "claude" -> ClaudeUpstream
              [] formats.from = "gemini" -> GeminiUpstream
              [] formats.from = "responses" -> ResponsesUpstream

-----------------------------------------------------------------------------

StreamInit ==
    /\ formats = [from |-> "openai", to |-> "openai"]
    /\ env = NewEnv /\ source = NewSource /\ sink = NewSink("openai")
    /\ usage = FALSE /\ frames = << >> /\ stage = "idle"

Connect ==
    /\ stage = "idle"
    /\ \E from \in Dialects, to \in Clients :
          /\ formats' = [from |-> from, to |-> to]
          /\ sink' = NewSink(to)
    /\ stage' = "open"
    /\ UNCHANGED <<env, source, usage, frames>>

Sends(r) == sink' = r.state /\ frames' = frames \o r.out

Reads(up) ==
    /\ source' = up.state
    /\ usage' = (usage \/ \E i \in DOMAIN up.out : up.out[i].usage)
    /\ Sends(EmitAll(formats.to, sink, up.out))

Translate ==
    /\ stage = "open" /\ env.sent < MaxEvents /\ ~env.over
    /\ \E next \in Upstream :
          /\ env' = [next.env EXCEPT !.sent = env.sent + 1]
          /\ Reads(Chunks(formats.from, source, next.event))
    /\ UNCHANGED <<formats, stage>>

(* No usage was reported: a chunk without choices carries the estimate. *)
Estimate(client, s) ==
    IF usage THEN Result(s, << >>) ELSE Emit(client, s, Chunk(<< >>, "none", TRUE))

Closed(client, r) == Then(r, Finish(client, r.state))

(* The stream may end, or break off, after any event. *)
EndOfStream ==
    /\ stage = "open"
    /\ Sends(Closed(formats.to, Estimate(formats.to, sink)))
    /\ usage' = TRUE /\ stage' = "closed"
    /\ UNCHANGED <<formats, env, source>>

StreamNext == Connect \/ Translate \/ EndOfStream

StreamSpec == StreamInit /\ [][StreamNext]_streamVars

-----------------------------------------------------------------------------

Indexes(type) == {i \in DOMAIN frames : frames[i].type = type}

(* Reasoning that begins after a tool call, with no text before it, takes  *)
(* block 0 a second time.                                                  *)
ThinksAfterCalling ==
    /\ formats.to = "claude" /\ sink.reasoning = 0
    /\ \E i \in DOMAIN sink.tools : sink.tools[i].block = 0

(* The framing of the client's dialect.  Claude: the message opens first   *)
(* and stops once, at the end; a delta or a stop belongs to a block that   *)
(* is open, a block starts once, and every block is stopped before the     *)
(* message is (OpenaiToClaudeStream numbers the blocks as parts arrive and *)
(* closes them all at the finish).  Responses: created comes first,        *)
(* numbers increase, an item is added once, and at the end every item is   *)
(* done once at its own index before the response is (translate_chunk      *)
(* leaves out created when the stream ends before its first chunk, which   *)
(* the estimate prevents).                                                 *)
FramesNest ==
    /\ (formats.to = "claude" /\ ~ThinksAfterCalling) =>
        /\ \A i \in DOMAIN frames : (i = 1) <=> frames[i].type = "message_start"
        /\ \A i \in Indexes("block_delta") \cup Indexes("block_stop") :
              /\ \E j \in Indexes("block_start") : j < i /\ frames[j].index = frames[i].index
              /\ ~ \E j \in Indexes("block_stop") : j < i /\ frames[j].index = frames[i].index
        /\ \A i, j \in Indexes("block_start") : frames[i].index = frames[j].index => i = j
        /\ \A i \in Indexes("message_stop") :
              /\ i = Len(frames)
              /\ Cardinality(Indexes("block_stop")) = Cardinality(Indexes("block_start"))
        /\ stage = "closed" => Indexes("message_stop") # {}
    /\ formats.to = "responses" =>
        /\ \A i \in DOMAIN frames : (i = 1) <=> frames[i].type = "created"
        /\ \A i, j \in DOMAIN frames : i < j => frames[i].seq < frames[j].seq
        /\ \A i, j \in Indexes("added") : frames[i].index = frames[j].index => i = j
        /\ \A i \in Indexes("delta") :
              \E j \in Indexes("added") : j < i /\ frames[j].index = frames[i].index
        /\ stage = "closed" =>
              LET last == frames[Len(frames)]
              IN  /\ last.type \in {"completed", "incomplete"}
                  /\ \A i \in Indexes("added") :
                        Cardinality({j \in Indexes("done") : frames[j].index = frames[i].index}) = 1

(* The arguments of a call reach the client under the block, item or index *)
(* that its start announced, whatever the two dialects and however calls   *)
(* interleave: an agent would otherwise run a tool with another's input.   *)
ArgumentsReachTheirCall ==
    \A i \in DOMAIN frames :
        (frames[i].type \in {"args", "delta", "block_delta"} /\ frames[i].of # NoIndex) =>
            \E j \in 1 .. i - 1 :
                /\ frames[j].type \in {"call", "added", "block_start"}
                /\ frames[j].index = frames[i].index
                /\ frames[j].of = frames[i].of
=============================================================================
