----------------------------- MODULE OutputCaps -----------------------------
(***************************************************************************)
(* How many tokens a request may generate: what the client names in its    *)
(* dialect, what the window fit judges, and what the lane is asked for     *)
(* after the thinking policy, the translation, the clamp to the model's    *)
(* ceiling and the repairs for the Go tier.                                *)
(*                                                                         *)
(* A body is a function from the option names it carries to numbers; the   *)
(* options that are no limit of output are left out.  The parts of nested  *)
(* objects have names of their own ("reasoning.effort"), the reasoning     *)
(* object itself is 1 when enabled and 0 when disabled, and an effort is   *)
(* written as the budget the gateway gives it.                             *)
(***************************************************************************)
EXTENDS Naturals, FiniteSets, FiniteSetsExt, Functions

CONSTANTS
    Values,         \* the limits a client names
    Efforts,        \* the budgets of the efforts a client names
    Ceilings,       \* the output a model advertises
    PolicyBudget,   \* the operator's budget in custom mode
    MediumEffort,   \* what effort "medium" stands for
    DefaultOutput,  \* what a Claude body asks for when the client does not say
    DefaultBudget   \* what reasoning without a budget gets

Clients == {"openai", "claude", "responses"}
Wires == {"openai", "go", "claude", "gemini", "responses"}
Policies == {"passthrough", "auto", "custom"}

VARIABLES
    client,     \* the dialect of the request
    lane,       \* its wire, the model's ceiling and the operator's policy
    asked,      \* the client's options
    body,       \* the options as they are rewritten
    step        \* "asked", "judged", "translated", "clamped", "sent"

capsVars == <<client, lane, asked, body, step>>

----------------------------------------------------------------------------
(* Bodies.                                                                 *)

Has(b, name) == name \in DOMAIN b
Keep(b, names) == Restrict(b, names \intersect DOMAIN b)
Without(b, names) == Restrict(b, DOMAIN b \ names)

(* The body of one option, and a body's options over those of another.     *)
(* (TLC's :> and @@, spelled out for the prover, which knows neither.)      *)
None == [n \in {} |-> 0]
Only(name, value) == [n \in {name} |-> value]
Over(b, below) ==
    [n \in DOMAIN b \union DOMAIN below |-> IF Has(b, n) THEN b[n] ELSE below[n]]

Or(b, name, default) == IF Has(b, name) THEN b[name] ELSE default

(* An option of one name under another.                                    *)
Renamed(b, old, new) == IF Has(b, old) THEN Only(new, b[old]) ELSE None

ReasoningNames == {"reasoning", "reasoning.max_tokens", "reasoning.effort"}
CapNames == {"max_tokens", "max_completion_tokens", "max_output_tokens",
             "generationConfig.maxOutputTokens"}

(* The spelling the dialect's own schema has.                              *)
OwnCap(dialect) == IF dialect = "responses" THEN "max_output_tokens" ELSE "max_tokens"

----------------------------------------------------------------------------
(* What a client may name.                                                 *)

CapsOf(dialect) ==
    IF dialect = "openai" THEN {"max_tokens", "max_completion_tokens"} ELSE {OwnCap(dialect)}

Limits(dialect) == UNION {[names -> Values] : names \in SUBSET CapsOf(dialect)}

Reasonings(dialect) ==
    {None} \union
    CASE dialect = "openai" ->
            {Only("reasoning_effort", e) : e \in Efforts}
            \union {Over(Only("reasoning", on), Only("reasoning.effort", e)) :
                        on \in {0, 1}, e \in Efforts}
            \union {Over(Only("reasoning", 1), Only("reasoning.max_tokens", v)) : v \in Values}
      [] dialect = "claude" -> {Only("thinking", v) : v \in Values}
      [] dialect = "responses" ->
            {Over(Only("reasoning", 1), Only("reasoning.effort", e)) : e \in Efforts}

CapsInit ==
    /\ client \in Clients
    /\ lane \in [wire : Wires, ceiling : Ceilings, policy : Policies]
    /\ asked \in {Over(limit, thought) : limit \in Limits(client), thought \in Reasonings(client)}
    /\ body = asked
    /\ step = "asked"

----------------------------------------------------------------------------
(* The thinking policy, before anything reads the request.                 *)

UnderPolicy(b) ==
    CASE lane.policy = "passthrough" -> b
      [] lane.policy = "auto" ->
            Without(b, ReasoningNames \union {"reasoning_effort", "thinking"})
      [] lane.policy = "custom" ->
            Over(Only("reasoning_budget", PolicyBudget),
                 Over(b, Only("reasoning_effort", MediumEffort)))

ApplyThinkingPolicy ==
    /\ step = "asked"
    /\ body' = UnderPolicy(body)
    /\ step' = "judged"
    /\ UNCHANGED <<client, lane, asked>>

(* The output the window fit reserves on the model: any spelling, clamped. *)
RequestOutputTokens(b) ==
    Or(b, "max_completion_tokens", Or(b, "max_output_tokens", Or(b, "max_tokens", 0)))
Judged == Min({RequestOutputTokens(asked), lane.ceiling})

----------------------------------------------------------------------------
(* Translation: the client's dialect to chat, chat to the wire.            *)

FromClaude(b) ==
    Over(Only("max_tokens", Or(b, "max_tokens", Or(b, "max_completion_tokens", DefaultOutput))),
         Over(IF Has(b, "thinking") THEN Only("reasoning", 1) ELSE None,
              Renamed(b, "thinking", "reasoning.max_tokens")))

FromResponses(b) ==
    Over(Renamed(b, "max_output_tokens", "max_tokens"),
         Over(Keep(b, ReasoningNames), Renamed(b, "reasoning.effort", "reasoning_effort")))

ToChat(b) ==
    CASE client = "openai" -> b
      [] client = "claude" -> FromClaude(b)
      [] client = "responses" -> FromResponses(b)

(* A reasoning object that is there decides, enabled or not.               *)
Thinks(b) == IF Has(b, "reasoning") THEN b["reasoning"] = 1 ELSE Has(b, "reasoning_effort")

Budget(b) ==
    IF Has(b, "reasoning")
    THEN Or(b, "reasoning.max_tokens", Or(b, "reasoning_budget", Or(b, "reasoning.effort",
            Or(b, "max_completion_tokens", DefaultBudget))))
    ELSE Or(b, "reasoning_budget", Or(b, "reasoning_effort", DefaultBudget))

(* The thinking budget never exceeds the cap of the same body.             *)
ToClaude(b) ==
    LET cap == Or(b, "max_tokens", DefaultOutput)
    IN  Over(Only("max_tokens", cap),
             IF Thinks(b) THEN Only("thinking.budget_tokens", Min({Budget(b), Max({cap, 1})}))
             ELSE None)

(* Gemini: reasoning that names no budget sends none.                      *)
ToGemini(b) ==
    Over(Renamed(b, "max_tokens", "generationConfig.maxOutputTokens"),
         IF /\ Thinks(b)
            /\ Has(b, "reasoning") =>
                 \E n \in {"reasoning.max_tokens", "reasoning_budget", "reasoning.effort"} : Has(b, n)
         THEN Only("thinkingConfig.thinkingBudget", Budget(b)) ELSE None)

ToResponses(b) ==
    Over(Renamed(b, "max_tokens", "max_output_tokens"),
         IF Has(b, "reasoning") THEN Keep(b, ReasoningNames)
         ELSE Renamed(b, "reasoning_effort", "reasoning.effort"))

ToWire(b) ==
    CASE lane.wire \in {"openai", "go"} -> b
      [] lane.wire = "claude" -> ToClaude(b)
      [] lane.wire = "gemini" -> ToGemini(b)
      [] lane.wire = "responses" -> ToResponses(b)

TranslateRequestBody ==
    /\ step = "judged"
    /\ body' = ToWire(ToChat(body))
    /\ step' = "translated"
    /\ UNCHANGED <<client, lane, asked>>

----------------------------------------------------------------------------
(* The clamp to the model's ceiling, and the Go tier's closed schema.      *)

(* Slip: the caps of the top level only.                                   *)
ClampedAtTop(b) ==
    [n \in DOMAIN b |->
        IF n \in CapNames \ {"generationConfig.maxOutputTokens"}
        THEN Min({b[n], lane.ceiling}) ELSE b[n]]

Clamped(b) == [n \in DOMAIN b |-> IF n \in CapNames THEN Min({b[n], lane.ceiling}) ELSE b[n]]

ClampOutputTokens ==
    /\ step = "translated"
    /\ body' = Clamped(body)
    /\ step' = "clamped"
    /\ UNCHANGED <<client, lane, asked>>

(* Reasoning is flat there, and a cap of zero is refused.                  *)
ForGo(b) ==
    LET flat == Over(Keep(b, {"max_tokens", "max_completion_tokens", "reasoning_effort"}),
                     Renamed(b, "reasoning.effort", "reasoning_effort"))
    IN  Without(flat, {n \in CapNames \intersect DOMAIN flat : flat[n] < 1})

Send ==
    /\ step = "clamped"
    /\ body' = IF lane.wire = "go" THEN ForGo(body) ELSE body
    /\ step' = "sent"
    /\ UNCHANGED <<client, lane, asked>>

CapsNext == ApplyThinkingPolicy \/ TranslateRequestBody \/ ClampOutputTokens \/ Send

CapsSpec == CapsInit /\ [][CapsNext]_capsVars

----------------------------------------------------------------------------
(* Properties.                                                             *)

Reserved == Max({0} \union {body[n] : n \in CapNames \intersect DOMAIN body})

(* Whatever the client's dialect and the wire, no lane is asked for more   *)
(* than its model gives; a cap the client names in its own dialect's way   *)
(* is what the window fit judged and what the lane is asked for; and a     *)
(* thinking budget fits the cap of its body, unless the ceiling, which     *)
(* comes later, has lowered the cap.                                       *)
CapsFollowTheClient ==
    step = "sent" =>
        /\ Reserved <= lane.ceiling
        /\ DOMAIN asked \intersect CapNames = {OwnCap(client)} => Reserved = Judged
        /\ Has(body, "thinking.budget_tokens") =>
                \/ body["thinking.budget_tokens"] <= Max({body["max_tokens"], 1})
                \/ body["max_tokens"] = lane.ceiling

=============================================================================
