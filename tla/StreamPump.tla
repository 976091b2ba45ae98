----------------------------- MODULE StreamPump -----------------------------
(***************************************************************************)
(* The task that carries a streamed answer (stream_response_pump): it      *)
(* selects between the upstream's bytes, a heartbeat and the gap timer,    *)
(* parses events, sends their frames into a bounded channel the client     *)
(* drains, closes the client's dialect and writes the log entry.  The      *)
(* other mode folds the stream into one document (accumulate_stream_json). *)
(*                                                                         *)
(* What an event becomes is in StreamTranslation: here it is one frame.    *)
(* Time is counted in ticks, of which the two timers take GapTicks and     *)
(* BeatTicks.                                                              *)
(***************************************************************************)
EXTENDS Integers, Sequences, FiniteSets

CONSTANTS
    MaxItems,       \* lines an upstream sends
    ChannelSize,    \* the channel: 32 in the code
    GapTicks,       \* readiness_timeout_ms, then stream_idle_timeout_ms
    BeatTicks       \* heartbeat_ms

VARIABLES
    task,       \* what the task is doing
    upstream,   \* "open", "ended", or "broken"
    sent,       \* lines sent
    unread,     \* lines sent and not yet read
    parser,     \* the event being read: "none", "data", "done"
    read,       \* history: lines read
    pending,    \* frames the task is sending
    then,       \* what follows them: "beat", "progress", "stop" or "log"
    gotFirst,
    gap, beat,  \* ticks left of the timers
    channel, client, received,
    status      \* of the log entry

pumpVars == <<task, upstream, sent, unread, parser, read, pending, then, gotFirst,
              gap, beat, channel, client, received, status>>

(* bytes: some that complete no line.  An event is a data line and a blank *)
(* one; done is the data line of [DONE].                                   *)
Lines == {"bytes", "data", "done", "blank"}

(* The event that is open before line i, when `start` was open before the  *)
(* first: "none" behind a blank line.                                      *)
OpenAt(start, lines, i) ==
    LET told(j) == lines[j] # "bytes" /\ \A k \in j + 1 .. i - 1 : lines[k] = "bytes"
        last(kind) == \E j \in 1 .. i - 1 : told(j) /\ lines[j] = kind
    IN  CASE last("data") -> "data"
          [] last("done") -> "done"
          [] last("blank") -> "none"
          [] OTHER -> start

PumpInit ==
    /\ task = "idle" /\ upstream = "open" /\ sent = << >> /\ unread = << >>
    /\ parser = "none" /\ read = << >> /\ pending = << >> /\ then = "beat"
    /\ gotFirst = FALSE /\ gap = GapTicks /\ beat = BeatTicks
    /\ channel = << >> /\ client = "reading" /\ received = << >> /\ status = 200

-----------------------------------------------------------------------------
(* The upstream and the client.                                            *)

(* An event's lines follow one another, [DONE] is the last event, and one  *)
(* read may be of bytes alone.                                             *)
MaySend(line) ==
    LET sentOne(l) == \E i \in DOMAIN sent : sent[i] = l
        insideEvent == OpenAt("none", sent, Len(sent) + 1) # "none"
    IN  CASE line = "bytes" -> ~ sentOne("bytes")
          [] line = "blank" -> insideEvent
          [] OTHER -> ~ insideEvent /\ ~ sentOne("done")

UpstreamSends ==
    /\ task \in {"selecting", "sending", "folding"} /\ upstream = "open" /\ Len(sent) < MaxItems
    /\ \E line \in Lines :
          /\ MaySend(line)
          /\ sent' = Append(sent, line) /\ unread' = Append(unread, line)
    /\ UNCHANGED <<task, upstream, parser, read, pending, then, gotFirst, gap, beat,
                   channel, client, received, status>>

UpstreamStops ==
    /\ task \in {"selecting", "sending", "folding"} /\ upstream = "open"
    /\ upstream' \in {"ended", "broken"}
    /\ UNCHANGED <<task, sent, unread, parser, read, pending, then, gotFirst, gap, beat,
                   channel, client, received, status>>

(* A keepalive is a comment, which clients skip. *)
ClientReads ==
    /\ client = "reading" /\ channel # << >>
    /\ received' = IF Head(channel) = "keepalive" THEN received ELSE Append(received, Head(channel))
    /\ channel' = Tail(channel)
    /\ UNCHANGED <<task, upstream, sent, unread, parser, read, pending, then, gotFirst,
                   gap, beat, client, status>>

(* The receiver is dropped with what it holds. *)
ClientLeaves ==
    /\ task \in {"selecting", "sending"} /\ client = "reading"
    /\ client' = "gone" /\ channel' = << >>
    /\ UNCHANGED <<task, upstream, sent, unread, parser, read, pending, then, gotFirst,
                   gap, beat, received, status>>

-----------------------------------------------------------------------------
(* The parser.                                                             *)

(* A blank line completes an event; [DONE] drops the rest of this read. *)
FeedFrom(start, lines) ==
    LET completed(kind) == {i \in DOMAIN lines : lines[i] = "blank" /\ OpenAt(start, lines, i) = kind}
        kept == {i \in completed("data") : \A j \in completed("done") : i < j}
    IN  [parser |-> OpenAt(start, lines, Len(lines) + 1),
         frames |-> [n \in 1 .. Cardinality(kept) |-> "frame"]]

(* Slip: a new parser for every read. *)
FeedFresh(lines) == FeedFrom("none", lines)

Feed(lines) == FeedFrom(parser, lines)

-----------------------------------------------------------------------------
(* The task.                                                               *)

Start ==
    /\ task = "idle"
    /\ task' \in {"selecting", "folding"}
    /\ UNCHANGED <<upstream, sent, unread, parser, read, pending, then, gotFirst, gap,
                   beat, channel, client, received, status>>

(* Nothing that is ready is waited past. *)
Ready == unread # << >> \/ upstream # "open" \/ gap = 0 \/ (gotFirst /\ beat = 0)

PumpTick ==
    /\ \/ task \in {"selecting", "folding"} /\ ~Ready
       \/ task = "sending" /\ then = "beat" /\ gap > 0
    /\ gap' = IF gap = 0 THEN 0 ELSE gap - 1
    /\ beat' = IF beat = 0 \/ task # "selecting" THEN beat ELSE beat - 1
    /\ UNCHANGED <<task, upstream, sent, unread, parser, read, pending, then, gotFirst,
                   channel, client, received, status>>

Sends(frames, next) == /\ task' = "sending" /\ pending' = frames /\ then' = next

(* A read takes what has arrived, or less. *)
Read ==
    /\ task = "selecting" /\ unread # << >>
    /\ \E n \in 1 .. Len(unread) :
          LET fed == Feed(SubSeq(unread, 1, n))
          IN  /\ Sends(fed.frames, "progress")
              /\ parser' = fed.parser
              /\ read' = read \o SubSeq(unread, 1, n)
              /\ unread' = SubSeq(unread, n + 1, Len(unread))
    /\ UNCHANGED <<upstream, sent, gotFirst, gap, beat, channel, client, received, status>>

Heartbeat ==
    /\ task = "selecting" /\ gotFirst /\ beat = 0
    /\ Sends(<<"keepalive">>, "beat")
    /\ UNCHANGED <<upstream, sent, unread, parser, read, gotFirst, gap, beat, channel,
                   client, received, status>>

(* The events of close: the estimate, if no usage arrived, then the end.   *)
Closing == <<"estimate", "finish">>

(* The end of the stream, and the gap timer, which leaves the status. *)
EndsQuietly ==
    /\ task = "selecting"
    /\ (unread = << >> /\ upstream = "ended") \/ gap = 0
    /\ \E estimate \in BOOLEAN :
          Sends(IF estimate THEN Closing ELSE Tail(Closing), "log")
    /\ UNCHANGED <<upstream, sent, unread, parser, read, gotFirst, gap, beat, channel,
                   client, received, status>>

EndsBroken ==
    /\ task = "selecting" /\ unread = << >> /\ upstream = "broken"
    /\ status' = 502
    /\ Sends(<<"error">>, "stop")
    /\ UNCHANGED <<upstream, sent, unread, parser, read, gotFirst, gap, beat, channel,
                   client, received>>

Push ==
    /\ task = "sending" /\ pending # << >>
    /\ client = "reading" /\ Len(channel) < ChannelSize
    /\ channel' = Append(channel, Head(pending)) /\ pending' = Tail(pending)
    /\ UNCHANGED <<task, upstream, sent, unread, parser, read, then, gotFirst, gap, beat,
                   client, received, status>>

(* A send fails at once when the receiver is gone: a frame or a keepalive  *)
(* that cannot be sent ends the stream, the rest is sent without asking.   *)
PushFails ==
    /\ task = "sending" /\ pending # << >> /\ client = "gone"
    /\ IF then \in {"beat", "progress"}
       THEN /\ status' = 499
            /\ \E estimate \in BOOLEAN :
                  Sends(IF estimate THEN Closing ELSE Tail(Closing), "log")
       ELSE /\ pending' = Tail(pending)
            /\ UNCHANGED <<task, then, status>>
    /\ UNCHANGED <<upstream, sent, unread, parser, read, gotFirst, gap, beat, channel,
                   client, received>>

(* Slip: the gap timer is created with every turn of the loop. *)
ResumeFresh ==
    /\ task = "sending" /\ pending = << >> /\ then \in {"beat", "progress"}
    /\ task' = "selecting"
    /\ beat' = BeatTicks /\ gap' = GapTicks
    /\ gotFirst' = TRUE
    /\ UNCHANGED <<upstream, sent, unread, parser, read, pending, then, channel, client,
                   received, status>>

(* Only progress restarts the gap timer; the heartbeat is new each turn. *)
Resume ==
    /\ task = "sending" /\ pending = << >> /\ then \in {"beat", "progress"}
    /\ task' = "selecting"
    /\ beat' = BeatTicks
    /\ gap' = IF then = "progress" THEN GapTicks ELSE gap
    /\ gotFirst' = TRUE
    /\ UNCHANGED <<upstream, sent, unread, parser, read, pending, then, channel, client,
                   received, status>>

CloseBroken ==
    /\ task = "sending" /\ pending = << >> /\ then = "stop"
    /\ \E estimate \in BOOLEAN :
          Sends(IF estimate THEN Closing ELSE Tail(Closing), "log")
    /\ UNCHANGED <<upstream, sent, unread, parser, read, gotFirst, gap, beat, channel,
                   client, received, status>>

Log ==
    /\ task = "sending" /\ pending = << >> /\ then = "log"
    /\ task' = "logged"
    /\ UNCHANGED <<upstream, sent, unread, parser, read, pending, then, gotFirst, gap,
                   beat, channel, client, received, status>>

-----------------------------------------------------------------------------
(* Folding: every read has the idle timeout of its own.                    *)

FoldRead ==
    /\ task = "folding" /\ unread # << >>
    /\ \E n \in 1 .. Len(unread) :
          LET fed == Feed(SubSeq(unread, 1, n))
          IN  /\ received' = received \o fed.frames
              /\ parser' = fed.parser
              /\ read' = read \o SubSeq(unread, 1, n)
              /\ unread' = SubSeq(unread, n + 1, Len(unread))
    /\ gap' = GapTicks
    /\ UNCHANGED <<task, upstream, sent, pending, then, gotFirst, beat, channel, client, status>>

FoldEnds ==
    /\ task = "folding"
    /\ \/ unread = << >> /\ upstream = "ended" /\ UNCHANGED status
       \/ unread = << >> /\ upstream = "broken" /\ status' = 502
       \/ gap = 0 /\ status' = 504
    /\ task' = "folded"
    /\ UNCHANGED <<upstream, sent, unread, parser, read, pending, then, gotFirst, gap,
                   beat, channel, client, received>>

Over == task \in {"logged", "folded"}

Turn == Read \/ Heartbeat \/ EndsQuietly \/ EndsBroken \/ Push \/ PushFails
          \/ Resume \/ CloseBroken \/ Log \/ FoldRead \/ FoldEnds

PumpNext == Start \/ Turn \/ PumpTick \/ UpstreamSends \/ UpstreamStops
              \/ ClientReads \/ ClientLeaves

PumpSpec == PumpInit /\ [][PumpNext]_pumpVars

(* The runtime polls the task, time passes, and a client reads or leaves. *)
PumpFairness ==
    /\ WF_pumpVars(Turn) /\ WF_pumpVars(PumpTick)
    /\ WF_pumpVars(ClientReads \/ ClientLeaves)

-----------------------------------------------------------------------------

(* The events that were read, [DONE] apart, make one frame each. *)
Events == {i \in DOMAIN read : read[i] = "blank" /\
              \E j \in 1 .. i - 1 : read[j] = "data" /\ \A k \in j + 1 .. i - 1 : read[k] = "bytes"}

Given == received \o channel \o pending

Count(frame, frames) == Cardinality({i \in DOMAIN frames : frames[i] = frame})

(* However the stream is cut into reads and the heartbeat interleaves, a   *)
(* client that stays is given one frame for every event that was read and, *)
(* before the log entry is written, one end, last; the entry says 200 only *)
(* of a stream that did not break, and 499 only of a client that left.     *)
ClientGetsTheStream ==
    /\ client = "reading" =>
          /\ Count("frame", Given) = Cardinality(Events)
          /\ task = "logged" => /\ Given[Len(Given)] = "finish" /\ Count("finish", Given) = 1
                                /\ (status = 502) <=> (Count("error", Given) > 0)
    /\ status = 499 => client = "gone"

(* A stream whose upstream falls silent ends, and is logged or answered,   *)
(* although the heartbeat goes on; a client that stops reading but stays   *)
(* would hold the task at a full channel.                                  *)
SilentStreamEnds == []<>(task = "idle" \/ Over)
=============================================================================
