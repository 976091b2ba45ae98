-------------------------- MODULE ToolOutputFilter --------------------------
(***************************************************************************)
(* What the layered compression does to one historical tool result: noise  *)
(* is removed line by line, then a head, a tail and the diagnostics are    *)
(* selected, then a budget cuts the middle, and gates decide whether the   *)
(* block is shipped like that or verbatim.  A line is known by what the    *)
(* classifiers say of it; equal lines have equal kinds.                    *)
(***************************************************************************)
EXTENDS Naturals, Sequences, SequencesExt, FiniteSetsExt

CONSTANTS
    MaxLines,       \* bound: lines of a block
    HeadLines, TailLines,
    MaxCritical,    \* diagnostics the protected set holds
    LineBudget,     \* the character budget, counted in lines of one length
    MinBlock        \* blocks below this are left alone

(* "bar" draws progress, "barred" is an error which looks like that,       *)
(* "coded" an error which looks like source code (a quotation mark, a      *)
(* leading # or *, a closing parenthesis and semicolon), "at" locates the  *)
(* error above it, "warn" only mentions a diagnostic word.                 *)
Kinds == {"prose", "bar", "error", "barred", "coded", "at", "warn"}
Shapes == {"text", "json", "ndjson", "file"}
Hard == {"error", "barred"}
Strong == Hard \union {"coded"}
Context == {"at", "error", "coded", "warn"}
Marker == [kind |-> "marker", times |-> 1]
Line(k) == [kind |-> k, times |-> 1]

VARIABLES
    block,      \* the lines of the result
    shape,      \* "text", one "json" document, "ndjson" or a "file" listing
    tool,       \* "read": one whose results are not to be shortened
    mode,       \* "light" or "full"
    shipped     \* what the filter made of it, empty while it has not run

filterVars == <<block, shape, tool, mode, shipped>>

Blocks == UNION {[1..n -> Kinds] : n \in 1..MaxLines}

FilterInit ==
    /\ block \in Blocks /\ shape \in Shapes
    /\ tool \in {"read", "other"} /\ mode \in {"light", "full"}
    /\ shape = "file" => tool = "read"
    /\ shipped = <<>>

Has(lines, k) == \E i \in 1..Len(lines) : lines[i].kind = k

----------------------------------------------------------------------------
(* Lossless noise removal: progress bars go, runs become one counted line. *)

Bar(k) == k \in {"bar", "barred"}

Folded(kinds) ==
    FoldLeft(LAMBDA out, k :
                IF out # <<>> /\ Last(out).kind = k /\ shape # "ndjson"
                THEN [out EXCEPT ![Len(out)].times = @ + 1]
                ELSE Append(out, Line(k)),
             <<>>, kinds)

Quiet(kinds) == Folded(SelectSeq(kinds, LAMBDA k : ~ Bar(k)))

----------------------------------------------------------------------------
(* Diagnostics.                                                            *)

(* Slip: the gate looks at the block the noise has been removed from.      *)
HardErrorsLeft(kinds) ==
    IF shape \in {"json", "ndjson"} THEN {}
    ELSE {kinds[i] : i \in {j \in 1..Len(kinds) : kinds[j] \in Hard \ {"barred"}}}

(* The errors of a block that do not look like code, and the locations     *)
(* that follow one; the lines of JSON hold quotation marks, so it has none. *)
HardErrors(kinds) ==
    IF shape \in {"json", "ndjson"} THEN {}
    ELSE {kinds[i] : i \in {j \in 1..Len(kinds) :
            \/ kinds[j] \in Hard
            \/ kinds[j] = "at" /\ \E h \in 1..(j - 1) : kinds[h] \in Hard}}

(* Errors claim the budget before warnings, each with up to two lines of   *)
(* context; a text is protected once.                                      *)
Claim(lines, claimed, i) ==
    LET run == IF i + 1 <= Len(lines) /\ lines[i + 1].kind \in Context
               THEN IF i + 2 <= Len(lines) /\ lines[i + 2].kind \in Context
                    THEN <<i, i + 1, i + 2>> ELSE <<i, i + 1>>
               ELSE <<i>>
    IN  FoldLeft(LAMBDA c, j : IF Len(c) >= MaxCritical \/ lines[j] \in ToSet(c)
                               THEN c ELSE Append(c, lines[j]),
                 claimed, run)

Pass(lines, claimed, kinds) ==
    FoldLeft(LAMBDA c, i : IF Len(c) < MaxCritical /\ lines[i].kind \in kinds
                           THEN Claim(lines, c, i) ELSE c,
             claimed, [i \in 1..Len(lines) |-> i])

LastAt(lines, l) == Max({i \in 1..Len(lines) : lines[i] = l})
FirstAt(lines, l) == Min({i \in 1..Len(lines) : lines[i] = l})

(* Back in the order of the document.                                      *)
Protected(lines) ==
    LET claimed == Pass(lines, Pass(lines, <<>>, Strong), {"warn"})
    IN  SortSeq(claimed, LAMBDA a, b : LastAt(lines, a) < LastAt(lines, b))

----------------------------------------------------------------------------
(* Line selection.                                                         *)

Smaller(a, b) == IF a < b THEN a ELSE b

(* An error outside the protected set goes in where the document has it; a *)
(* counted line no longer equals the error it counts.                      *)
Inject(lines, kept, i) ==
    IF lines[i].times > 1 \/ lines[i].kind \notin HardErrors(block) \/ lines[i] \in ToSet(kept)
    THEN kept
    ELSE LET later == {p \in 1..Len(kept) : FirstAt(lines, kept[p]) > i}
             at == IF later = {} THEN Len(kept) + 1 ELSE Min(later)
         IN  InsertAt(kept, at, lines[i])

Selected(lines) ==
    LET head == Smaller(HeadLines, Len(lines))
        tail == Smaller(TailLines, Len(lines) - head)
        middle == SubSeq(lines, head + 1, Len(lines) - tail)
        protected == SelectSeq(Protected(lines), LAMBDA l :
                        l \in ToSet(middle) /\ l \notin ToSet(SubSeq(lines, 1, head)))
        kept == FoldLeft(LAMBDA k, i : Inject(lines, k, i),
                         SubSeq(lines, 1, head) \o protected,
                         [i \in 1..Len(lines) |-> i])
    IN  kept \o (IF middle = <<>> THEN <<>> ELSE <<Marker>>)
             \o SubSeq(lines, Len(lines) - tail + 1, Len(lines))

(* Two thirds of the budget from the front, one from the back, between     *)
(* them the diagnostics the front has not.                                 *)
Windowed(lines, text) ==
    LET front == SubSeq(text, 1, (LineBudget * 2) \div 3)
        back == SubSeq(text, Len(text) - (LineBudget - (LineBudget * 2) \div 3) + 1, Len(text))
        hard == SelectSeq(SetToSeq({Line(k) : k \in HardErrors(block)}),
                          LAMBDA l : l \notin ToSet(Protected(lines)))
        again == SelectSeq(Protected(lines) \o hard, LAMBDA l : ~ Has(front, l.kind))
        cut == front \o again \o back
    IN  IF Len(text) <= LineBudget \/ Len(cut) >= Len(text) THEN text ELSE Append(cut, Marker)

----------------------------------------------------------------------------
(* The outcome: <<>> stands for the block as it was.                       *)

Survive(text) == \A k \in HardErrors(block) : Has(text, k)

Gated(text) ==
    IF Survive(text) /\ Len(text) < Len(block) THEN text ELSE <<>>

(* The declarations and the last lines of a listing, no gate asked.        *)
Skeleton(text) ==
    LET kept == SelectSeq(text, LAMBDA l : l.kind # "at")
    IN  IF Len(kept) + 1 < Len(text) THEN Append(kept, Marker) ELSE <<>>

(* Whole values go, so what is left is still a sequence of values.         *)
Sampled ==
    LET lines == [i \in 1..Len(block) |-> Line(block[i])]
        head == Smaller(HeadLines, Len(lines))
        tail == Smaller(TailLines, Len(lines) - head)
    IN  IF Len(lines) <= 4 \/ head + tail + 1 >= Len(lines) THEN <<>>
        ELSE SubSeq(lines, 1, head) \o SubSeq(lines, Len(lines) - tail + 1, Len(lines)) \o <<Marker>>

Shortened ==
    LET lines == Quiet(block)
        text == Windowed(lines, Selected(lines))
    IN  IF \A l \in ToSet(Protected(lines)) : Has(text, l.kind) THEN Gated(text) ELSE <<>>

Filtered ==
    IF mode = "light" THEN Gated(Quiet(block))
    ELSE IF tool = "read"
         THEN IF shape = "file" /\ Skeleton(Quiet(block)) # <<>> THEN Skeleton(Quiet(block))
              ELSE IF Len(Quiet(block)) < MinBlock THEN <<>> ELSE Gated(Quiet(block))
    ELSE IF Len(block) < MinBlock \/ shape = "json" THEN <<>>
    ELSE IF shape = "ndjson" THEN Sampled
    ELSE Shortened

Filter ==
    /\ shipped = <<>>
    /\ shipped' = (IF Filtered = <<>> THEN [i \in 1..Len(block) |-> Line(block[i])] ELSE Filtered)
    /\ UNCHANGED <<block, shape, tool, mode>>

FilterNext == Filter

FilterSpec == FilterInit /\ [][FilterNext]_filterVars

----------------------------------------------------------------------------
(* Properties.                                                             *)

Ran == shipped # <<>>

(* What a text reports, whatever becomes of its lines.                     *)
Reported ==
    IF shape \in {"json", "ndjson"} THEN {}
    ELSE LET errors == {j \in 1..Len(block) : block[j] \in Hard}
         IN  {block[j] : j \in errors} \union
             {block[j] : j \in {h \in 1..Len(block) : block[h] = "at" /\ \E i \in errors : i < h}}

(* "A block whose diagnostic body or its location vanished must not be     *)
(* shipped, whatever the budget allowed": each error line of a result of   *)
(* text, and each location that follows one, reaches the model, whatever   *)
(* looked like noise, was counted, selected or cut.  Nothing is promised   *)
(* of errors that look like code, of JSON and of file listings.            *)
DiagnosticsSurvive ==
    Ran /\ shape # "file" => \A k \in Reported : Has(shipped, k)

=============================================================================
