----------------------------- MODULE ComboRouter -----------------------------
(***************************************************************************)
(* src/router/combo.rs and src/model.rs: how the name in a request becomes *)
(* a chain of provider/model candidates.  A combo is a list of steps: a    *)
(* provider, a provider and a model, an auto/* pool, or another combo.     *)
(* The strategy of the combo orders the chain; steps that expanded the     *)
(* scored free roster keep their places.  Reads of the dashboard and of    *)
(* the catalogue resolve combos too, and share the round-robin cursor.     *)
(*                                                                         *)
(* Three keyed providers stand for all: a and b speak the same dialect, c  *)
(* another; zen is the keyless free lane.  Recursion follows the code, so  *)
(* this module is for TLC only.                                            *)
(***************************************************************************)
EXTENDS Naturals, SequencesExt

VARIABLES
    setup,      \* the combos in the order they are searched, the lane's gate,
                \* and what the circuit store says: load and last success
    cursor,     \* RR_COUNTER
    asked,      \* what is resolved, and whether a request or a read asks
    expanded,   \* the chain before it is ordered
    chain       \* the chain that is returned

routerVars == <<setup, cursor, asked, expanded, chain>>

MaxComboDepth == 3
MaxFreeCandidates == 12
Keyed == <<"a", "b", "c">>

\* The cursor is counted modulo a multiple of every length it is divided by.
Wheel == 12

-----------------------------------------------------------------------------
(* Models and what they can hold.                                          *)

ModelsOf(p) == CASE p = "zen" -> <<"free">> [] p = "b" -> <<"big", "free">>
                 [] p = "c" -> <<"big">> [] OTHER -> <<"small", "big">>

Hidden(c) == <<c.provider, c.model>> = <<"a", "small">>
FreeModel(p, m) == m = "free"
Cost(p) == CASE p = "a" -> 2 [] p = "b" -> 1 [] OTHER -> 0
Format(p) == IF p = "c" THEN "claude" ELSE "openai"

NoFit == [prompt |-> 0, output |-> 0]

Window(m) == IF m = "big" THEN 4 ELSE 2
OutputCap(m) == IF m = "big" THEN 2 ELSE 1

OutputTokens(requested, cap) == IF cap > 0 /\ requested > cap THEN cap ELSE requested

Fits(m, fit) ==
    \/ fit.prompt + fit.output = 0   \* nothing to judge
    \/ Window(m) >= fit.prompt + OutputTokens(fit.output, OutputCap(m))

Candidate(p, m) == [provider |-> p, model |-> m, locked |-> FALSE]

-----------------------------------------------------------------------------
(* Names.  A prefix that is a provider is split off; a bare name of a      *)
(* known family belongs to its vendor, here a.                             *)

NoName == [spelled |-> "", name |-> "", provider |-> "", model |-> ""]
Name(s, n, p, m) == [spelled |-> s, name |-> n, provider |-> p, model |-> m]

Parsed ==
    { Name("K", "K", "", "K"), Name("combo/K", "K", "", "combo/K"),
      Name("auto/best-chat", "auto/best-chat", "", "auto/best-chat"),
      Name("auto/free", "auto/free", "", "auto/free"),
      Name("zen/free", "zen/free", "zen", "free"), Name("a/big", "a/big", "a", "big"),
      Name("gpt-big", "gpt-big", "a", "gpt-big"), Name("big", "big", "", "big") }

Sizes == { NoFit, [prompt |-> 1, output |-> 3], [prompt |-> 9, output |-> 0] }

-----------------------------------------------------------------------------
(* The auto/* pools.                                                       *)

\* free_candidates: the lane first, unless it is parked; then free models elsewhere.
FreeCandidates ==
    LET lane == IF setup.parked THEN <<>> ELSE <<Candidate("zen", "free")>>
        others(p) == SelectSeq([i \in DOMAIN ModelsOf(p) |-> Candidate(p, ModelsOf(p)[i])],
                               LAMBDA c : FreeModel(p, c.model) /\ ~Hidden(c))
        all == lane \o FlattenSeq([i \in DOMAIN Keyed |-> others(Keyed[i])])
    IN SubSeq(all, 1, IF Len(all) < MaxFreeCandidates THEN Len(all) ELSE MaxFreeCandidates)

\* Every keyed provider gives the best of its models that fits.
BestOfEach(fit) ==
    LET usable(p) == SelectSeq(ModelsOf(p), LAMBDA m : Fits(m, fit) /\ ~Hidden(Candidate(p, m)))
        best(p) == IF usable(p) = <<>> THEN <<>> ELSE <<Candidate(p, usable(p)[1])>>
    IN FlattenSeq([i \in DOMAIN Keyed |-> best(Keyed[i])])

AutoCandidates(name, fit) ==
    IF name = "auto/free"
    THEN LET all == FreeCandidates
             fitting == SelectSeq(all, LAMBDA c : Fits(c.model, fit))
         IN IF fitting = <<>> THEN all ELSE fitting
    ELSE LET best == BestOfEach(fit) IN IF best = <<>> THEN BestOfEach(NoFit) ELSE best

-----------------------------------------------------------------------------
(* Expansion.                                                              *)

Leaf(p, m) == [kind |-> "leaf", provider |-> p, model |-> m]
Auto(n) == [kind |-> "auto", spelled |-> n]
Nested(n, s) == [kind |-> "combo", name |-> n, spelled |-> s]

Combo(n) == SelectSeq(setup.combos, LAMBDA c : c.name = n)

RECURSIVE Expand(_, _, _, _, _)

\* The chain holds the names as they are spelled in the steps.
ExpandStep(step, member, depth, names, fit) ==
    CASE step.kind = "leaf" ->
            <<Candidate(step.provider, IF step.model = "" THEN member ELSE step.model)>>
      [] step.kind = "auto" ->
            IF depth >= MaxComboDepth THEN <<>>
            ELSE LET picked == AutoCandidates(step.spelled, fit)
                 IN [i \in DOMAIN picked |-> [picked[i] EXCEPT !.locked = step.spelled = "auto/free"]]
      [] step.kind = "combo" /\ Combo(step.name) = <<>> -> <<Candidate(step.spelled, member)>>
      [] step.kind = "combo" /\ Combo(step.name) # <<>> ->
            IF step.spelled \in names \/ depth >= MaxComboDepth THEN <<>>
            ELSE Expand(Combo(step.name)[1].steps, member, depth + 1, names \cup {step.spelled}, fit)

Expand(steps, member, depth, names, fit) ==
    FlattenSeq([i \in DOMAIN steps |-> ExpandStep(steps[i], member, depth, names, fit)])

-----------------------------------------------------------------------------
(* order_candidates: the outcomes a strategy may have on the free places.  *)

RotateLeft(s, k) == SubSeq(s, k + 1, Len(s)) \o SubSeq(s, 1, k)
Swapped(s, i) == [s EXCEPT ![1] = s[i], ![i] = s[1]]

\* A stable sort by the keys of the elements.
SortedBy(s, keys) ==
    LET tagged == [i \in DOMAIN s |-> <<keys[i], i>>]
        before(x, y) == x[1] < y[1] \/ (x[1] = y[1] /\ x[2] < y[2])
        order == SortSeq(tagged, before)
    IN [i \in DOMAIN s |-> s[order[i][2]]]

\* A provider that is not in the list never succeeded.
Age(c) == IF c.provider \in ToSet(setup.recent) THEN SelectInSeq(setup.recent, LAMBDA p : p = c.provider)
          ELSE Len(setup.recent) + 1

LoadOf(c) == IF c.provider = setup.busy THEN 1 ELSE 0

\* Power of two choices: the lighter of two picks leads.
Lighter(s) == { IF i # j /\ LoadOf(s[i]) > LoadOf(s[j]) THEN j ELSE i : i, j \in DOMAIN s }

Outcomes(strategy, s) ==
    CASE strategy = "round-robin" -> {RotateLeft(s, cursor % Len(s))}
      [] strategy = "random" -> {[i \in DOMAIN s |-> s[p[i]]] : p \in SetToSeqs(DOMAIN s)}
      [] strategy = "p2c" -> {Swapped(s, i) : i \in Lighter(s)}
      [] strategy = "weighted" -> {RotateLeft(s, i - 1) : i \in DOMAIN s}
      [] strategy = "least-used" -> {SortedBy(s, [i \in DOMAIN s |-> LoadOf(s[i])])}
      [] strategy = "lkgp" -> {SortedBy(s, [i \in DOMAIN s |-> Age(s[i])])}
      [] strategy = "cost-optimized" -> {SortedBy(s, [i \in DOMAIN s |-> Cost(s[i].provider)])}
      [] OTHER -> {s}

\* The indices of the candidates the strategy may move.
Slots(cands) == SelectSeq([i \in DOMAIN cands |-> i], LAMBDA i : ~cands[i].locked)

Moves(cands) == Len(cands) > 1 /\ Len(Slots(cands)) > 1

\* A guarded read keeps the declared order of the strategies that draw.
Drawn == {"round-robin", "random", "p2c", "weighted"}

\* Slip: the strategy is applied to the whole chain.
OrderedWhole(strategy, cands, preview) ==
    IF ~Moves(cands) \/ (preview /\ strategy \in Drawn) THEN {cands} ELSE Outcomes(strategy, cands)

Ordered(strategy, cands, preview) ==
    LET slots == Slots(cands)
        free == [k \in DOMAIN slots |-> cands[slots[k]]]
        Place(s) == [i \in DOMAIN cands |->
                        IF cands[i].locked THEN cands[i] ELSE s[SelectInSeq(slots, LAMBDA x : x = i)]]
    IN IF ~Moves(cands) \/ (preview /\ strategy \in Drawn) THEN {cands}
       ELSE {Place(s) : s \in Outcomes(strategy, free)}

-----------------------------------------------------------------------------
(* resolve_candidates_with.                                                *)

ProvidersIn(combo) == { s.provider : s \in {t \in ToSet(combo.steps) : t.kind = "leaf"} }
Declares(combo, m) == \E s \in ToSet(combo.steps) : s.kind = "leaf" /\ s.model = m

\* compat stands for the openai-compatible and anthropic-compatible ids.
Claims(combo, ask) ==
    /\ ask.name = combo.name \/ Declares(combo, ask.model)
    /\ ask.provider = "" \/ ProvidersIn(combo) \cap {ask.provider, "compat"} # {}
    /\ combo.steps # <<>>

ComboChain(combo, ask, fit) ==
    SelectSeq(Expand(combo.steps, IF ask.provider # "" THEN ask.model ELSE ask.spelled, 0, {combo.name}, fit),
              LAMBDA c : ~Hidden(c))

Claiming(ask, fit) ==
    SelectSeq(setup.combos, LAMBDA c : Claims(c, ask) /\ ComboChain(c, ask, fit) # <<>>)

\* An OpenCode tier named by the client answers alone; others bring those of their dialect.
Named(ask) ==
    <<Candidate(ask.provider, ask.model)>> \o
    (IF ask.provider = "zen" THEN <<>>
     ELSE LET others == SelectSeq(Keyed, LAMBDA p : p # ask.provider /\ Format(p) = Format(ask.provider))
          IN [i \in DOMAIN others |-> Candidate(others[i], ask.model)])

Advertised(ask) ==
    LET ps == SelectSeq(Keyed, LAMBDA p : ask.model \in ToSet(ModelsOf(p)))
    IN [i \in DOMAIN ps |-> Candidate(ps[i], ask.model)]

IsAuto(ask) == ask.name \in {"auto/best-chat", "auto/free"}

\* The strategy and the chain it is given.
Resolved(ask, fit) ==
    IF IsAuto(ask) /\ AutoCandidates(ask.name, fit) # <<>>
    THEN [strategy |-> "priority", cands |-> AutoCandidates(ask.name, fit)]
    ELSE LET claiming == Claiming(ask, fit) IN
         IF claiming # <<>>
         THEN [strategy |-> claiming[1].strategy,
               cands |-> ComboChain(claiming[1], ask, fit)]
         ELSE [strategy |-> "priority",
               cands |-> IF ask.provider # "" THEN Named(ask) ELSE Advertised(ask)]

-----------------------------------------------------------------------------

Strategies == {"priority", "round-robin", "random", "p2c", "weighted", "least-used", "lkgp",
               "cost-optimized"}

StepsOfK == { <<Leaf("a", ""), Leaf("b", "free"), Leaf("c", "big")>>,
              <<Auto("auto/free"), Leaf("a", "big"), Leaf("c", "big")>>,
              <<Leaf("a", "big"), Auto("auto/free"), Nested("L", "L"), Leaf("b", "big")>>,
              <<Leaf("a", "big"), Nested("K", "K")>>, <<Leaf("a", "big"), Nested("K", "combo/K")>>,
              <<Nested("M", "M"), Auto("auto/best-chat")>>, <<Leaf("a", "small")>> }
StepsOfL == { <<Leaf("compat", "gpt-big")>>, <<Nested("K", "K"), Leaf("c", "")>>, <<Auto("auto/free")>> }

NoAsk == [name |-> NoName, fit |-> NoFit, by |-> "nobody"]
NoSetup == [combos |-> <<>>, parked |-> FALSE, busy |-> "", recent |-> <<>>]

RouterInit ==
    /\ setup = NoSetup /\ cursor = 0
    /\ asked = NoAsk /\ expanded = <<>> /\ chain = <<>>

\* The dashboard and the config file; managed combos come first.
SetUp ==
    /\ setup = NoSetup
    /\ \E k \in StepsOfK, l \in StepsOfL, s \in Strategies, lane \in BOOLEAN, busiest \in {"a", "b"} :
          setup' = [combos |-> << [name |-> "K", strategy |-> s, steps |-> k],
                                  [name |-> "L", strategy |-> "priority", steps |-> l] >>,
                    parked |-> lane, busy |-> busiest, recent |-> <<"c", busiest>>]
    /\ UNCHANGED <<cursor, asked, expanded, chain>>

Resolve(name, fit, by) ==
    /\ setup # NoSetup /\ asked = NoAsk
    /\ asked' = [name |-> name, fit |-> fit, by |-> by]
    /\ LET r == Resolved(name, fit) IN
          /\ expanded' = r.cands
          /\ chain' \in Ordered(r.strategy, r.cands, by = "guarded read")
          /\ cursor' = IF r.strategy = "round-robin" /\ Moves(r.cands) /\ by # "guarded read"
                       THEN (cursor + 1) % Wheel ELSE cursor
    /\ UNCHANGED setup

\* chat_core resolves with the size of the request.
Request == \E n \in Parsed, f \in Sizes : Resolve(n, f, "request")

\* The combo metrics page, under PreviewGuard.
GuardedRead == \E n \in {m \in Parsed : m.name = "K"} : Resolve(n, NoFit, "guarded read")

\* The combos page, the studio, the trace, the dry run and the model list.
PlainRead == \E n \in {m \in Parsed : m.name = "K"} : Resolve(n, NoFit, "read")

Answer ==
    /\ asked # NoAsk /\ asked' = NoAsk /\ expanded' = <<>> /\ chain' = <<>>
    /\ UNCHANGED <<setup, cursor>>

RouterNext == SetUp \/ Request \/ GuardedRead \/ PlainRead \/ Answer

-----------------------------------------------------------------------------

(* Whatever the strategy, every candidate of the expanded chain is in the  *)
(* returned one as often, and those of the scored free roster are where    *)
(* the expansion put them (order_candidates).  A request that is only too  *)
(* large still gets a chain, so that the caller can say so                 *)
(* (auto_candidates).                                                      *)
ChainKept ==
    /\ Len(chain) = Len(expanded)
    /\ \A c \in ToSet(expanded) :
          Len(SelectSeq(chain, LAMBDA d : d = c)) = Len(SelectSeq(expanded, LAMBDA d : d = c))
    /\ \A i \in DOMAIN expanded : expanded[i].locked => chain[i] = expanded[i]
    /\ (asked.by = "request" /\ Resolved(asked.name, NoFit).cands # <<>>) => chain # <<>>

=============================================================================
