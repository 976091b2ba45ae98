---------------------------- MODULE BunExchange ----------------------------
(***************************************************************************)
(* One request of the free lane's own transport: an async caller that      *)
(* waits for the response head and then reads the body from a bounded      *)
(* channel, and a blocking worker that dials, tunnels through the exit,    *)
(* sends, parses and copies.  They share the two channels, a cancellation  *)
(* flag and a deadline.  The worker looks at both when a read has timed    *)
(* out, which takes a peer that is silent for the poll interval, and       *)
(* before each read of plain data: not while a head, a trailer or a        *)
(* compressed body keeps arriving.                                         *)
(***************************************************************************)
EXTENDS Naturals, Sequences

CONSTANTS
    Timeout,        \* ticks the request may take
    Handshake,      \* ticks a proxy may take to open the tunnel
    MaxPieces,      \* bound: reads a body takes
    Capacity        \* chunks the body channel holds

Exits == {"direct", "connect", "socks5", "socks5h"}
Framings == {"length", "chunked", "eof"}

VARIABLES
    exit,           \* how the request leaves
    worker,         \* the worker's phase
    fault,          \* the error it ends with, "none" until it has one
    framing,        \* of the response: delimiter, and is it compressed?
    size,           \* pieces the upstream's body has
    copied,         \* pieces read off the socket
    peer,           \* bytes arrive within the poll interval, or do not
    skipped,        \* parity of the heads or lines skipped in a loop
    head,           \* the head channel: "empty", "ok", "error" or "used"
    chan,           \* the body channel
    caller,         \* the caller's phase
    blame,          \* what the caller was told of the failure
    got,            \* pieces the caller has received
    cancel,         \* the cancellation flag
    left,           \* ticks to the deadline
    tunnel          \* ticks to the tunnel's deadline

wire == <<exit, framing, size, copied, peer, skipped>>
clock == <<left, tunnel>>
bunVars == <<exit, worker, fault, framing, size, copied, peer, skipped, head, chan, caller,
             blame, got, cancel, left, tunnel>>

Proxied == exit # "direct"
InTunnel == {"greet", "auth", "ask"}
Receiving == caller \in {"waiting", "reading"}
Speaks == peer = "speaks"

BunInit ==
    /\ exit \in Exits
    /\ worker = "dial" /\ fault = "none"
    /\ framing = [by |-> "eof", packed |-> FALSE] /\ size = 0 /\ copied = 0
    /\ peer = "silent" /\ skipped = 0
    /\ head = "empty" /\ chan = <<>>
    /\ caller = "waiting" /\ blame = "none" /\ got = 0
    /\ cancel = FALSE /\ left = Timeout /\ tunnel = Handshake

Goes(phase) == worker' = phase /\ UNCHANGED <<fault, head, chan>>

(* An error ends the exchange; where it is told is decided in Report.      *)
Fails(kind) == worker' = "report" /\ fault' = kind /\ UNCHANGED <<head, chan>>

----------------------------------------------------------------------------
(* Reaching the upstream.                                                  *)

(* A proxy that cannot be dialled is the exit's failure, an upstream not.  *)
Dial ==
    /\ worker = "dial"
    /\ \/ Goes(CASE exit = "direct" -> "tls" [] exit = "connect" -> "ask" [] OTHER -> "greet")
       \/ Fails(IF Proxied THEN "egress" ELSE "io")
    /\ UNCHANGED <<caller, blame, got, cancel, wire, clock>>

(* A SOCKS proxy picks a method and may want a password; every proxy then  *)
(* accepts or refuses the target.  Names of socks5h are resolved here, and *)
(* failing to is not the exit's failure.                                   *)
Negotiate ==
    /\ worker \in InTunnel
    /\ \/ worker = "greet" /\ Speaks /\ (Goes("auth") \/ Goes("ask"))
       \/ worker = "auth" /\ Speaks /\ Goes("ask")
       \/ worker = "ask" /\ Speaks /\ Goes("tls")
       \/ worker = "ask" /\ exit = "socks5h" /\ Fails("io")
       \/ Fails("egress")
    /\ UNCHANGED <<caller, blame, got, cancel, wire, clock>>

(* TLS and the request itself; both writes have a timeout of their own.    *)
WriteRequest ==
    /\ worker = "tls"
    /\ Goes("head") \/ Fails("io")
    /\ UNCHANGED <<caller, blame, got, cancel, wire, clock>>

----------------------------------------------------------------------------
(* The response head.                                                      *)

(* An interim 1xx head, or a trailer line that is not the empty one: there *)
(* is no limit to their number, and no look between them.                  *)
Skip ==
    /\ worker \in {"head", "trailers"} /\ Speaks
    /\ skipped' = 1 - skipped
    /\ UNCHANGED <<worker, fault, head, chan, caller, blame, got, cancel, clock,
                   exit, framing, size, copied, peer>>

(* The head goes to a caller that is still there.                          *)
Head_ ==
    /\ worker = "head" /\ Speaks
    /\ \E by \in Framings, packed \in BOOLEAN, n \in 0..MaxPieces :
          /\ framing' = [by |-> by, packed |-> packed] /\ size' = n /\ skipped' = 0
          /\ IF caller = "waiting"
             THEN head' = "ok" /\ worker' = "body" /\ UNCHANGED <<fault, chan>>
             ELSE Fails("gone")
    /\ UNCHANGED <<caller, blame, got, cancel, clock, exit, copied, peer>>

BadHead ==
    /\ worker = "head" /\ Fails("io")
    /\ UNCHANGED <<caller, blame, got, cancel, wire, clock>>

----------------------------------------------------------------------------
(* The body.  A compressed one is collected first and decoded whole.       *)

Piece(n) == [n |-> n, bad |-> FALSE]
Trouble == [n |-> 0, bad |-> TRUE]

\* Slip: only the flag is looked at.
FlagOnly == IF cancel THEN "stop" ELSE "go"
Checked == IF cancel \/ left = 0 THEN "stop" ELSE "go"

Copy ==
    /\ worker = "body" /\ copied < size /\ Speaks
    /\ copied' = copied + 1
    /\ IF framing.packed THEN UNCHANGED worker
       ELSE worker' = "handing"
    /\ UNCHANGED <<fault, head, chan, caller, blame, got, cancel, clock,
                   exit, framing, size, peer, skipped>>

(* The last look before a chunk is handed over: while it waits for room in *)
(* the channel, the worker looks at nothing.                               *)
HandOver ==
    /\ worker = "handing"
    /\ IF Checked = "stop" THEN Fails("deadline") ELSE Goes("sending")
    /\ UNCHANGED <<caller, blame, got, cancel, wire, clock>>

Send_ ==
    /\ worker = "sending"
    /\ IF ~ Receiving THEN Fails("gone")
       ELSE /\ Len(chan) < Capacity
            /\ chan' = Append(chan, Piece(IF framing.packed THEN size ELSE 1))
            /\ worker' = (IF framing.packed THEN "ended" ELSE "body")
            /\ UNCHANGED <<fault, head>>
    /\ UNCHANGED <<caller, blame, got, cancel, wire, clock>>

(* A decoded body is handed over whole; an empty one hands nothing over.   *)
DataEnds ==
    \/ ~ framing.packed /\ Goes("ended")
    \/ framing.packed /\ (Goes(IF size > 0 THEN "handing" ELSE "ended") \/ Fails("decode"))

(* The declared end, or the close that stands for it.  The last chunk is   *)
(* followed by trailer lines.                                              *)
\* Slip: a close in the middle is taken for the end.
EndHoweverItCloses ==
    /\ worker = "body"
    /\ IF framing.by = "chunked" THEN Speaks /\ Goes("trailers") ELSE DataEnds
    /\ UNCHANGED <<caller, blame, got, cancel, wire, clock>>

EndOfBody ==
    /\ worker = "body" /\ copied = size
    /\ IF framing.by = "chunked" THEN Speaks /\ Goes("trailers") ELSE DataEnds
    /\ UNCHANGED <<caller, blame, got, cancel, wire, clock>>

(* The empty line.  Any number of others may come before it.               *)
EndOfTrailers ==
    /\ worker = "trailers" /\ Speaks
    /\ DataEnds
    /\ UNCHANGED <<caller, blame, got, cancel, wire, clock>>

(* The upstream closes early: with no declared end that is the end, and    *)
(* the pieces that were to come never existed.                             *)
Closed ==
    /\ worker = "body" /\ copied < size
    /\ IF framing.by = "eof"
       THEN size' = copied /\ UNCHANGED <<worker, fault, head, chan>>
       ELSE Fails("io") /\ UNCHANGED size
    /\ UNCHANGED <<caller, blame, got, cancel, clock, exit, framing, copied, peer, skipped>>

(* A framing error, an unknown encoding, a compressed body too large, a    *)
(* close among the lines of a chunked body.                                *)
Broken ==
    /\ worker \in {"body", "trailers"} /\ (framing.by = "chunked" \/ framing.packed) /\ Fails("io")
    /\ UNCHANGED <<caller, blame, got, cancel, wire, clock>>

----------------------------------------------------------------------------
(* All of a body of known length has been read.                            *)
AllRead == worker = "body" /\ framing.by = "length" /\ copied = size

(* The worker waits for bytes.                                             *)
Listening == worker \in {"head", "body", "trailers"} /\ ~ AllRead

(* Before each read of plain data there is a look, whatever the peer does. *)
LoopTop == worker = "body" /\ ~ framing.packed /\ (copied < size \/ framing.by = "eof")

(* Otherwise a look takes a read that timed out at the poll interval.      *)
Poll ==
    /\ \/ Listening /\ (LoopTop \/ ~ Speaks) /\ Checked = "stop" /\ Fails("deadline")
       \/ worker \in InTunnel /\ ~ Speaks /\ (Checked = "stop" \/ tunnel = 0) /\ Fails("egress")
    /\ UNCHANGED <<caller, blame, got, cancel, wire, clock>>

(* Before the head the error is the caller's answer; after it, the last    *)
(* thing in the body channel, if anyone listens.                           *)
Report ==
    /\ worker = "report" /\ worker' = "ended"
    /\ IF head = "empty"
       THEN head' = "error" /\ UNCHANGED chan
       ELSE IF Receiving THEN Len(chan) < Capacity /\ chan' = Append(chan, Trouble) /\ UNCHANGED head
       ELSE UNCHANGED <<chan, head>>
    /\ UNCHANGED <<fault, caller, blame, got, cancel, wire, clock>>

Works == Dial \/ Negotiate \/ WriteRequest \/ Skip \/ Head_ \/ BadHead
         \/ Copy \/ HandOver \/ Send_ \/ EndOfBody \/ EndOfTrailers \/ Closed \/ Broken

(* A peer falls silent for the poll interval, or speaks up.                *)
PeerTurns ==
    /\ worker # "ended"
    /\ peer' \in {"speaks", "silent"} \ {peer}
    /\ UNCHANGED <<worker, fault, head, chan, caller, blame, got, cancel, clock,
                   exit, framing, size, copied, skipped>>

----------------------------------------------------------------------------
(* The caller.                                                             *)

GetHead ==
    /\ caller = "waiting" /\ head \in {"ok", "error"}
    /\ head = "error" => worker = "ended"
    /\ head' = "used"
    /\ caller' = (IF head = "ok" THEN "reading" ELSE "failed")
    /\ blame' = (IF head = "ok" THEN "none" ELSE fault)
    /\ UNCHANGED <<worker, fault, chan, got, cancel, wire, clock>>

(* Only this end sets the flag.                                            *)
TimedOut ==
    /\ caller = "waiting" /\ left = 0
    /\ cancel' = TRUE /\ caller' = "failed" /\ blame' = "timeout"
    /\ UNCHANGED <<worker, fault, head, chan, got, wire, clock>>

ReadBody ==
    /\ caller = "reading" /\ chan # <<>>
    /\ chan' = Tail(chan)
    /\ got' = got + Head(chan).n
    /\ caller' = (IF Head(chan).bad THEN "failed" ELSE caller)
    /\ blame' = (IF Head(chan).bad THEN fault ELSE blame)
    /\ UNCHANGED <<worker, fault, head, cancel, wire, clock>>

EndReading ==
    /\ caller = "reading" /\ chan = <<>> /\ worker = "ended"
    /\ caller' = "done"
    /\ UNCHANGED <<worker, fault, head, chan, blame, got, cancel, wire, clock>>

(* The client goes away and the future is dropped with both receivers.     *)
Leave ==
    /\ Receiving
    /\ caller' = "left" /\ chan' = <<>>
    /\ UNCHANGED <<worker, fault, head, blame, got, cancel, wire, clock>>

TimePasses ==
    /\ left > 0 \/ tunnel > 0
    /\ left' = (IF left > 0 THEN left - 1 ELSE 0)
    /\ tunnel' = (IF worker \in InTunnel /\ tunnel > 0 THEN tunnel - 1 ELSE tunnel)
    /\ left' # left \/ tunnel' # tunnel
    /\ UNCHANGED <<worker, fault, head, chan, caller, blame, got, cancel, wire>>

BunNext == \/ Works \/ Poll \/ Report \/ PeerTurns \/ TimePasses
           \/ GetHead \/ TimedOut \/ ReadBody \/ EndReading \/ Leave

(* What the worker's thread does without a byte from the peer.             *)
OwnStep == Report \/ Dial \/ WriteRequest \/ HandOver \/ Send_ \/ (AllRead /\ EndOfBody)

(* What the bytes of a peer that speaks bring about.  A tunnel's replies,  *)
(* a chunk's lines and a compressed body are bounded in length and end by  *)
(* themselves; interim heads and trailers need not.                        *)
Arrives ==
    /\ Speaks
    /\ \/ Negotiate \/ Skip \/ Head_ \/ BadHead \/ EndOfTrailers
       \/ worker = "body" /\ (Copy \/ EndOfBody \/ Closed \/ Broken)

(* The clock runs, the worker's thread runs, the dial and the writes have  *)
(* timeouts, a read of a silent peer times out, and a client reads or      *)
(* leaves.  Nothing makes an upstream or a proxy speak, or fall silent.    *)
BunFairness ==
    /\ WF_bunVars(TimePasses)
    /\ WF_bunVars(OwnStep)
    /\ SF_bunVars(Poll)
    /\ WF_bunVars(Arrives)
    /\ WF_bunVars(GetHead \/ TimedOut \/ ReadBody \/ Leave \/ EndReading)

BunSpec == BunInit /\ [][BunNext]_bunVars

----------------------------------------------------------------------------
(* Properties.                                                             *)

(* A caller that saw the body end without an error has all of it: neither  *)
(* a close, a deadline, a broken frame nor a failed decoding ends a body   *)
(* silently.                                                               *)
EndedBodyIsWhole == caller = "done" => got = size

(* A peer that never pauses in its interim heads, or in its trailers.      *)
SpeaksForEver == <>[](Speaks /\ worker \in {"head", "trailers"})

(* The caller has its answer whatever the peers do, and the worker's       *)
(* thread is given back, unless the upstream sends heads or trailers for   *)
(* ever (read_polling, and the checks of the loops around it).             *)
ExchangeEnds ==
    /\ []<>(caller \notin {"waiting", "reading"})
    /\ []<>(worker = "ended") \/ SpeaksForEver

=============================================================================
