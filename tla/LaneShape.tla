------------------------------ MODULE LaneShape ------------------------------
(***************************************************************************)
(* The shape the free lane asks of a request: a stream, the official       *)
(* system prompt in front of the client's instructions, and the official   *)
(* read tool within the cap on tools.  A request is shaped where it is     *)
(* sent, and may be shaped again by whoever sends it again.                *)
(*                                                                         *)
(* A body is the fragments of its instructions, its tools by name and what *)
(* it says of their choice.  The three wires keep them in different places *)
(* (a Chat body's instructions are its system messages, wherever they      *)
(* stand, which become one); what is done to them is the same but for the  *)
(* choice of tools.                                                        *)
(***************************************************************************)
EXTENDS Naturals, Sequences, SequencesExt

CONSTANTS
    MaxTools,       \* most tools sent
    MaxFragments    \* bound: instructions of a client

Wires == {"chat", "responses", "anthropic"}

Official == "official"      \* the prompt, of this client version or the last
ReadNames == {"read", "Read"}
ToolNames == ReadNames \union {"edit", "run"}

VARIABLES
    wire,
    asked,      \* the client's body
    sent,       \* the body as shaped so far
    shapings    \* how many times

shapeVars == <<wire, asked, sent, shapings>>

UpTo(n, T) == UNION {[1..k -> T] : k \in 0..n}

ShapeInit ==
    /\ wire \in Wires
    /\ asked \in [stream : BOOLEAN,
                  instructions : UpTo(MaxFragments, {Official, "mine", "yours"}),
                  tools : UpTo(MaxTools + 1, ToolNames),
                  choice : {"auto", "required"}]
    /\ sent = asked
    /\ shapings = 0

(* A body whose instructions carry the prompt is left as it is.            *)
Instructed(instructions) ==
    IF Contains(instructions, Official) THEN instructions ELSE <<Official>> \o instructions

(* A read tool is known by its name, whoever defines it and however it is  *)
(* spelled.                                                                *)
HasRead(tools) == \E i \in DOMAIN tools : tools[i] \in ReadNames

Capped(tools, n) == SubSeq(tools, 1, IF Len(tools) < n THEN Len(tools) ELSE n)

(* Slip: room is made for the read tool when the list is beyond the cap.   *)
EquippedLate(tools) ==
    Capped(IF HasRead(tools) THEN tools
           ELSE Append(IF Len(tools) > MaxTools THEN Capped(tools, MaxTools - 1) ELSE tools, "read"),
           MaxTools)
Equipped(tools) ==
    Capped(IF HasRead(tools) THEN tools
           ELSE Append(IF Len(tools) >= MaxTools THEN Capped(tools, MaxTools - 1) ELSE tools, "read"),
           MaxTools)

(* A client without tools is not to be answered by a call of ours.         *)
Pinned(body) ==
    IF body.tools # <<>> THEN body.choice ELSE IF wire = "responses" THEN "auto" ELSE "none"

Shaped(body) ==
    [stream |-> TRUE,
     instructions |-> Instructed(body.instructions),
     tools |-> Equipped(body.tools),
     choice |-> Pinned(body)]

ApplyAgentShape ==
    /\ shapings < 2
    /\ sent' = Shaped(sent)
    /\ shapings' = shapings + 1
    /\ UNCHANGED <<wire, asked>>

ShapeNext == ApplyAgentShape

ShapeSpec == ShapeInit /\ [][ShapeNext]_shapeVars

----------------------------------------------------------------------------
(* Properties.                                                             *)

(* A client that names its read tool after more tools than are sent loses  *)
(* it, and the lane refuses the request.                                   *)
ReadIsCutOff == HasRead(asked.tools) /\ ~HasRead(Capped(asked.tools, MaxTools))

(* What the lane's gate looks for is there however the client's list of    *)
(* tools meets the cap, the client's own instructions follow the prompt in *)
(* their order, a list with room for the read tool loses none, a client    *)
(* without tools gets no call, and "a retry [may] run it again safely":    *)
(* it changes nothing.                                                     *)
ShapeIsSettled ==
    shapings > 0 /\ ~ReadIsCutOff =>
        /\ sent.stream
        /\ HasRead(sent.tools) /\ Len(sent.tools) <= MaxTools
        /\ Contains(sent.instructions, Official)
        /\ IsSuffix(asked.instructions, sent.instructions)
        /\ Len(asked.tools) < MaxTools => IsPrefix(asked.tools, sent.tools)
        /\ (asked.tools = <<>> /\ wire # "responses") => sent.choice = "none"
        /\ Shaped(sent) = sent
=============================================================================
