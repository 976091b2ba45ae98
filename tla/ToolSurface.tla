---------------------------- MODULE ToolSurface ----------------------------
(***************************************************************************)
(* The tools a request declares, the tool it forces and the calls its      *)
(* history replays, from the client's dialect to the wire: the inbound     *)
(* translation, the normalisation of the tools array with its groups, the  *)
(* wire's translation, and the closed schema of the Go tier.  Descriptions,*)
(* schemas and vendor keys are left out.                                   *)
(***************************************************************************)
EXTENDS Naturals, Sequences, FiniteSets, SequencesExt

CONSTANTS
    MaxTools,   \* entries of the client's tools array
    MaxChildren \* entries of a group

Clients == {"openai", "claude", "responses"}
Wires == {"openai", "go", "claude", "gemini", "responses"}

(* Names by whether the Go tier's pattern allows them.                     *)
Plain == "read"
Dotted == "mcp.find"
Names == {Plain, Dotted}
GroupName == "mcp"
NoName == ""

VARIABLES
    client, wire,
    asked,      \* what the client declared and forced
    body,       \* the request as it is rewritten
    step        \* "asked", "normal", "translated", "sent"

toolVars == <<client, wire, asked, body, step>>

----------------------------------------------------------------------------
(* What a client may send.  A tool is of a type ("none": not said), in the *)
(* nested form {type, function} or the flat one, and may hold others.      *)

Tool(name, type, nested, children) ==
    [name |-> name, type |-> type, nested |-> nested, children |-> children]

Leaves ==
    CASE client = "openai" ->
            {Tool(n, "function", TRUE, <<>>) : n \in Names}
            \union {Tool(n, type, FALSE, <<>>) : n \in Names, type \in {"none", "custom"}}
      [] client = "claude" -> {Tool(n, type, FALSE, <<>>) : n \in Names, type \in {"none", "custom"}}
      [] client = "responses" ->
            {Tool(n, type, FALSE, <<>>) : n \in Names, type \in {"function", "custom"}}

GroupsOf(tools) ==
    {Tool(GroupName, "namespace", FALSE, held) : held \in SeqOf(tools, MaxChildren) \ {<<>>}}
NestedGroups ==
    {Tool(GroupName, "namespace", FALSE, <<Tool(GroupName, "namespace", FALSE, <<t>>)>>) : t \in Leaves}

(* Claude's schema has no groups; chat clients also hold them in a function.*)
Declarable ==
    Leaves
    \union (IF client = "claude" THEN {} ELSE GroupsOf(Leaves) \union NestedGroups)
    \union (IF client = "openai" THEN {Tool(GroupName, "function", TRUE, <<t>>) : t \in Leaves} ELSE {})

(* The flat form is the Responses spelling of a forced function.           *)
Choice(mode, name, flat) == [mode |-> mode, name |-> name, flat |-> flat]
ClientChoices ==
    {Choice(mode, NoName, FALSE) : mode \in {"absent", "none"}}
    \union {Choice("tool", n, client = "responses") : n \in Names}

ToolsInit ==
    /\ client \in Clients
    /\ wire \in Wires
    /\ asked \in [tools : SeqOf(Declarable, MaxTools), choice : ClientChoices]
    /\ body = [tools |-> asked.tools, choice |-> asked.choice, calls |-> [n \in Names |-> n]]
    /\ step = "asked"

----------------------------------------------------------------------------
(* The client's dialect to chat, and the nested form for every function.   *)

ChatTool(t) ==
    CASE client = "claude" -> Tool(t.name, "function", TRUE, <<>>)
      [] client = "responses" /\ t.type = "function" -> Tool(t.name, "function", TRUE, <<>>)
      [] OTHER -> t

ChatChoice(c) == IF client = "claude" THEN [c EXCEPT !.flat = FALSE] ELSE c

Wrapped(t) == IF t.nested \/ t.type \notin {"none", "function"} THEN t
              ELSE Tool(t.name, "function", TRUE, t.children)

NamesOf(tools) == {tools[i].name : i \in DOMAIN tools}

(* The children of groups, normalised one by one, join the top level: a    *)
(* name that is declared there already does not.                           *)
RECURSIVE NormalizeTools(_)
Lifted(tools) ==
    FlattenSeq([i \in DOMAIN tools |->
        FlattenSeq([j \in DOMAIN tools[i].children |->
            NormalizeTools(<<tools[i].children[j]>>)])])
NormalizeTools(tools) ==
    LET all == tools \o SelectSeq(Lifted(tools), LAMBDA t : t.name \notin NamesOf(tools))
    IN  [i \in DOMAIN all |-> Wrapped(all[i])]

Normalize ==
    /\ step = "asked"
    /\ body' = [body EXCEPT !.tools = NormalizeTools([i \in DOMAIN @ |-> ChatTool(@[i])]),
                            !.choice = ChatChoice(@)]
    /\ step' = "normal"
    /\ UNCHANGED <<client, wire, asked>>

----------------------------------------------------------------------------
(* Chat to the wire.  A forced tool is read from the nested form.          *)

(* Claude: a choice of the flat form names nothing.                        *)
ClaudeChoice(c) == IF c.mode = "tool" /\ c.flat THEN Choice("tool", NoName, FALSE) ELSE c

(* Gemini: a choice that names nothing is any tool; without declarations   *)
(* there is no tool configuration.                                         *)
GeminiChoice(b) ==
    CASE b.tools = <<>> -> Choice("absent", NoName, FALSE)
      [] b.choice.mode = "absent" -> Choice("auto", NoName, FALSE)
      [] b.choice.mode = "tool" /\ b.choice.flat -> Choice("required", NoName, FALSE)
      [] OTHER -> b.choice

ResponsesChoice(c) == IF c.mode = "tool" THEN [c EXCEPT !.flat = TRUE] ELSE c

WireChoice(b) ==
    CASE wire \in {"openai", "go"} -> b.choice
      [] wire = "claude" -> ClaudeChoice(b.choice)
      [] wire = "gemini" -> GeminiChoice(b)
      [] wire = "responses" -> ResponsesChoice(b.choice)

Translate ==
    /\ step = "normal"
    /\ body' = [body EXCEPT !.choice = WireChoice(body)]
    /\ step' = "translated"
    /\ UNCHANGED <<client, wire, asked>>

----------------------------------------------------------------------------
(* The Go tier takes functions only, under names of its pattern.           *)

GoName(name) == IF name = Dotted THEN "mcp_find" ELSE name

(* Slip: replayed calls keep the names the client gave.                    *)
CallsKept(calls) == calls
GoCalls(calls) == [n \in DOMAIN calls |-> GoName(calls[n])]

GoTools(tools) ==
    LET functions == SelectSeq(tools, LAMBDA t : t.nested /\ t.type \in {"none", "function"})
    IN  [i \in DOMAIN functions |-> Tool(GoName(functions[i].name), "function", TRUE, <<>>)]

(* Both forms of a forced tool are read here.                              *)
GoChoice(c) == IF c.mode = "tool" THEN Choice("tool", GoName(c.name), FALSE) ELSE c

ForGo(b) ==
    LET tools == GoTools(b.tools)
    IN  [tools |-> tools, calls |-> GoCalls(b.calls),
         choice |-> IF tools = <<>> THEN Choice("absent", NoName, FALSE) ELSE GoChoice(b.choice)]

Send ==
    /\ step = "translated"
    /\ body' = IF wire = "go" THEN ForGo(body) ELSE body
    /\ step' = "sent"
    /\ UNCHANGED <<client, wire, asked>>

ToolsNext == Normalize \/ Translate \/ Send

ToolsSpec == ToolsInit /\ [][ToolsNext]_toolVars

----------------------------------------------------------------------------
(* Properties.                                                             *)

RECURSIVE Leafs(_)
Leafs(tools) ==
    FlattenSeq([i \in DOMAIN tools |->
        IF tools[i].children = <<>> THEN <<tools[i]>> ELSE Leafs(tools[i].children)])

Declared == Leafs(asked.tools)
IsFunction(t) == client = "claude" \/ t.type # "custom"
Functions == {n \in Names :
    /\ n \in NamesOf(Declared)
    /\ \A i \in DOMAIN Declared : Declared[i].name = n => IsFunction(Declared[i])}
Offered == NamesOf(body.tools)

Times(tools, n) == Cardinality({i \in DOMAIN tools : tools[i].name = n})
GroupChildren == Leafs(SelectSeq(asked.tools, LAMBDA t : t.children # <<>>))

(* A function a client declares, in a group or outside, is offered on      *)
(* every wire under the name its replayed calls and the choice that forces *)
(* it carry, whatever the wire renames; and a name declared once among the *)
(* groups is offered once, whether or not the top level declares it too.   *)
NamesAgree ==
    step = "sent" =>
        /\ \A n \in Functions : body.calls[n] \in Offered
        /\ (asked.choice.mode = "tool" /\ asked.choice.name \in Functions
                /\ body.choice.mode = "tool" /\ body.choice.name # NoName)
            => body.choice.name = body.calls[asked.choice.name]
        /\ \A n \in Names :
              (Times(asked.tools, n) <= 1 /\ Times(GroupChildren, n) <= 1)
                  => Times(body.tools, IF wire = "go" THEN GoName(n) ELSE n) <= 1

=============================================================================
