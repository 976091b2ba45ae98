----------------------------- MODULE Parts_proofs -----------------------------
(***************************************************************************)
(* Proofs about the parts that take a few steps each: the verdict of an    *)
(* exhausted chain, the connections, the compression of old turns, the     *)
(* shape of the free lane's requests, the filter of tool results, the      *)
(* limits of output, the plan of the lane, and the modes of compression.   *)
(* The parts share no state.                                               *)
(***************************************************************************)
EXTENDS Parts, Integers, Sequences, FiniteSets, FiniteSetTheorems, SequenceTheorems,
        WellFoundedInduction, TLAPS

-----------------------------------------------------------------------------
(* The least of some numbers.                                              *)

LEMMA Least ==
    ASSUME NEW T \in SUBSET Nat, T # {}
    PROVE  \E x \in T : \A y \in T : x <= y
<1>1. IsWellFoundedOn(OpToRel(<, Nat), Nat)
  BY NatLessThanWellFounded
<1>2. \E x \in T : \A y \in T : ~(<<y, x>> \in OpToRel(<, Nat))
  BY <1>1, WFMin, Zenon
<1>3. PICK x \in T : \A y \in T : ~(<<y, x>> \in OpToRel(<, Nat))
  BY <1>2
<1>4. ASSUME NEW y \in T PROVE x <= y
  <2> DEFINE pair == <<y, x>>
  <2>1. pair \in Nat \X Nat /\ pair[1] = y /\ pair[2] = x
    OBVIOUS
  <2>2. ~(pair \in OpToRel(<, Nat))
    BY <1>3
  <2> HIDE DEF pair
  <2>3. ~(y < x)
    BY <2>1, <2>2 DEF OpToRel
  <2> QED BY <2>3
<1> QED BY <1>4

-----------------------------------------------------------------------------
(* TerminalError: what a chain that failed is told of.                     *)

Failures == [lane : ChainLanes, status : Verdict!Statuses]

(* What TerminalError defines of the failures so far, of any failures.     *)
Heavier(s, i, j) ==
    \/ Verdict!Meaning(s[i].status) < Verdict!Meaning(s[j].status)
    \/ Verdict!Meaning(s[i].status) = Verdict!Meaning(s[j].status) /\ i <= j
Heaviest(s, T) == s[CHOOSE i \in T : \A j \in T : Heavier(s, i, j)]
Verdicts(s) == {i \in 2 .. Len(s) : s[i].lane = Head(s).lane /\ s[i].status \in Verdict!QuotaClass}
Spent(s) == {i \in 2 .. Len(s) : s[i].status \in Verdict!OutOfCredit}
Told(s) ==
    CASE Head(s).status \in Verdict!QuotaClass \ {401} -> Head(s)
      [] OTHER -> IF Verdicts(s) # {} THEN Heaviest(s, Verdicts(s))
                  ELSE IF Head(s).status = 401 /\ Spent(s) # {} THEN Heaviest(s, Spent(s))
                  ELSE Head(s)

LEMMA ToldIsChosen ==
    /\ lanes # <<>> => Verdict!Status = Told(lanes).status
    /\ lanes' # <<>> => Verdict!Status' = Told(lanes').status
<1>1. Verdict!Chosen = Told(lanes) /\ Verdict!Chosen' = Told(lanes')
  BY Zenon DEF Verdict!Chosen, Told, Verdict!VerdictsOfLane, Verdicts, Verdict!Exhausted, Spent,
               Verdict!Later, Verdict!Weightiest, Heaviest, Verdict!Weightier, Heavier
<1> QED BY <1>1 DEF Verdict!Status

(* The heaviest of some failures is one of them.                           *)
LEMMA HeaviestIs ==
    ASSUME NEW s \in Seq(Failures), NEW T \in SUBSET (DOMAIN s), T # {}
    PROVE  \E i \in T : Heaviest(s, T) = s[i] /\ \A j \in T : Heavier(s, i, j)
<1> DEFINE W(i) == Verdict!Meaning(s[i].status)
           M == {W(i) : i \in T}
<1>1. DOMAIN s = 1 .. Len(s) /\ Len(s) \in Nat /\ \A i \in T : i \in Nat /\ W(i) \in Nat
  BY DEF Verdict!Meaning, Verdict!OutOfCredit
<1>2. M \in SUBSET Nat /\ M # {}
  BY <1>1
<1>3. PICK m \in M : \A y \in M : m <= y
  BY <1>2, Least
<1> DEFINE F == {i \in T : W(i) = m}
<1>4. F \in SUBSET Nat /\ F # {}
  BY <1>1
<1>5. PICK i \in F : \A j \in F : i <= j
  BY <1>4, Least
<1>6. \A j \in T : Heavier(s, i, j)
  <2> SUFFICES ASSUME NEW j \in T PROVE Heavier(s, i, j)
    OBVIOUS
  <2>1. W(i) = m /\ m <= W(j) /\ W(j) \in Nat /\ m \in Nat
    BY <1>1, <1>2, <1>3
  <2>2. CASE W(j) = m
    BY <1>5, <2>1, <2>2 DEF Heavier
  <2>3. CASE W(j) # m
    BY <2>1, <2>3 DEF Heavier
  <2> QED BY <2>2, <2>3
<1> DEFINE k == CHOOSE k \in T : \A j \in T : Heavier(s, k, j)
<1>7. k \in T /\ \A j \in T : Heavier(s, k, j)
  BY <1>6
<1> QED BY <1>7 DEF Heaviest

(* It does not depend on what else there is.                               *)
LEMMA HeaviestStays ==
    ASSUME NEW s \in Seq(Failures), NEW u \in Seq(Failures),
           NEW T \in SUBSET (DOMAIN s), T \in SUBSET (DOMAIN u), T # {},
           \A i \in T : u[i] = s[i]
    PROVE  Heaviest(u, T) = Heaviest(s, T)
<1>1. PICK i \in T : Heaviest(s, T) = s[i] /\ \A j \in T : Heavier(s, i, j)
  BY HeaviestIs
<1>2. PICK k \in T : Heaviest(u, T) = u[k] /\ \A j \in T : Heavier(u, k, j)
  BY HeaviestIs
<1>3. Heavier(s, i, k) /\ Heavier(u, k, i) /\ u[i] = s[i] /\ u[k] = s[k]
  BY <1>1, <1>2
<1>4. i \in Nat /\ k \in Nat
  OBVIOUS
<1>5. Verdict!Meaning(s[i].status) \in Nat /\ Verdict!Meaning(s[k].status) \in Nat
  BY DEF Verdict!Meaning
<1>6. i = k
  BY <1>3, <1>4, <1>5 DEF Heavier
<1> QED BY <1>1, <1>2, <1>6

(* One more failure.                                                       *)
LEMMA OneMore ==
    ASSUME NEW s \in Seq(Failures), s # <<>>, NEW last \in Failures
    PROVE  LET u == Append(s, last) IN
           (last.lane # Head(s).lane /\ ~(Head(s).status = 401 /\ last.status \in Verdict!OutOfCredit))
             => Told(u) = Told(s)
<1> DEFINE u == Append(s, last)
           n == Len(s)
<1>1. /\ n \in Nat \ {0} /\ u \in Seq(Failures) /\ Len(u) = n + 1 /\ Head(u) = Head(s)
      /\ u[n + 1] = last /\ \A i \in 1 .. n : u[i] = s[i]
      /\ DOMAIN s = 1 .. n /\ DOMAIN u = 1 .. n + 1
  OBVIOUS
<1> HIDE DEF u
<1> SUFFICES ASSUME last.lane # Head(s).lane,
                    ~(Head(s).status = 401 /\ last.status \in Verdict!OutOfCredit)
             PROVE  Told(u) = Told(s)
  BY DEF u
<1>2. Verdicts(u) = Verdicts(s)
  BY <1>1 DEF Verdicts
<1>3. Head(s).status = 401 => Spent(u) = Spent(s)
  BY <1>1 DEF Spent
<1>4. ASSUME NEW T \in {Verdicts(s), Spent(s)}, T # {}
      PROVE  Heaviest(u, T) = Heaviest(s, T)
  <2>1. T \in SUBSET (DOMAIN s) /\ T \in SUBSET (DOMAIN u) /\ \A i \in T : u[i] = s[i]
    BY <1>1 DEF Verdicts, Spent
  <2> QED BY <1>1, <1>4, <2>1, HeaviestStays
<1> QED BY <1>1, <1>2, <1>3, <1>4 DEF Told

(* A lane that has told of an exhausted account is told of as one.         *)
LEMMA NoInvalidKey ==
    ASSUME NEW u \in Seq(Failures), u # <<>>, Told(u).status = 401,
           NEW i \in DOMAIN u, u[i].lane = Head(u).lane
    PROVE  u[i].status \notin Verdict!OutOfCredit
<1> SUFFICES ASSUME u[i].status \in Verdict!OutOfCredit PROVE FALSE
  OBVIOUS
<1> USE DEF Verdict!QuotaClass, Verdict!OutOfCredit
<1>1. Head(u) = u[1] /\ DOMAIN u = 1 .. Len(u) /\ Len(u) \in Nat
  OBVIOUS
<1>2. Head(u).status \notin Verdict!QuotaClass \ {401}
  BY DEF Told
<1>3. i # 1
  BY <1>1, <1>2
<1>4. i \in Verdicts(u)
  BY <1>1, <1>3 DEF Verdicts
<1>5. Told(u) = Heaviest(u, Verdicts(u))
  BY <1>2, <1>4 DEF Told
<1>6. Verdicts(u) \in SUBSET (DOMAIN u)
  BY <1>1 DEF Verdicts
<1>7. PICK k \in Verdicts(u) :
        Heaviest(u, Verdicts(u)) = u[k] /\ \A j \in Verdicts(u) : Heavier(u, k, j)
  BY <1>4, <1>6, HeaviestIs
<1>8. u[k].status = 401 /\ Heavier(u, k, i)
  BY <1>4, <1>5, <1>7
<1>9. Verdict!Meaning(401) = 2 /\ Verdict!Meaning(u[i].status) = 0
  BY DEF Verdict!Meaning
<1> QED BY <1>8, <1>9 DEF Heavier

(* Whatever the lanes of a chain and however long it is, what a later       *)
(* candidate of another lane says changes nothing of what the request is    *)
(* told, but that an invalid key of the head gives way to an exhausted      *)
(* account; and a lane out of credit is never told of as an invalid key.    *)
THEOREM SideLanesPrivate == Verdict!TerminalSpec => SideLanesStayPrivate
<1>1. Verdict!TerminalInit => lanes \in Seq(Failures)
  BY DEF Verdict!TerminalInit
<1>2. lanes \in Seq(Failures) /\ [Verdict!TerminalNext]_lanes => (lanes \in Seq(Failures))'
  <2> SUFFICES ASSUME lanes \in Seq(Failures), Verdict!Fails PROVE lanes' \in Seq(Failures)
    BY DEF Verdict!TerminalNext
  <2>1. PICK last \in Failures : lanes' = Append(lanes, last)
    BY DEF Verdict!Fails, Failures
  <2> QED BY <2>1
<1>3. lanes \in Seq(Failures) /\ [Verdict!TerminalNext]_lanes => [Verdict!StaysPrivate]_lanes
  <2> SUFFICES ASSUME lanes \in Seq(Failures), Verdict!Fails, lanes # <<>>
               PROVE  Verdict!StaysPrivate
    BY DEF Verdict!TerminalNext, Verdict!StaysPrivate
  <2>1. PICK last \in Failures : lanes' = Append(lanes, last)
    BY DEF Verdict!Fails, Failures
  <2>2. /\ lanes' \in Seq(Failures) /\ lanes' # <<>> /\ Head(lanes') = Head(lanes)
        /\ lanes'[Len(lanes')] = last
    BY <2>1
  <2>3. Verdict!Status = Told(lanes).status /\ Verdict!Status' = Told(lanes').status
    BY <2>2, ToldIsChosen
  <2>4. (last.lane # Head(lanes).lane
           /\ ~(Head(lanes).status = 401 /\ last.status \in Verdict!OutOfCredit))
          => Verdict!Status' = Verdict!Status
    BY <2>1, <2>3, OneMore
  <2>5. Verdict!Status' = 401 =>
          ~ \E i \in DOMAIN lanes' :
              lanes'[i].lane = Head(lanes).lane /\ lanes'[i].status \in Verdict!OutOfCredit
    <3> SUFFICES ASSUME Told(lanes').status = 401, NEW i \in DOMAIN lanes',
                        lanes'[i].lane = Head(lanes').lane
                 PROVE  lanes'[i].status \notin Verdict!OutOfCredit
      BY <2>2, <2>3
    <3> DEFINE u == lanes'
    <3>1. u \in Seq(Failures) /\ u # <<>> /\ Told(u).status = 401 /\ i \in DOMAIN u
          /\ u[i].lane = Head(u).lane
      BY <2>2
    <3> HIDE DEF u
    <3>2. u[i].status \notin Verdict!OutOfCredit
      BY <3>1, NoInvalidKey
    <3> QED BY <3>2 DEF u
  <2> QED BY <2>2, <2>4, <2>5 DEF Verdict!StaysPrivate
<1> QED BY <1>1, <1>2, <1>3, PTL
  DEF Verdict!TerminalSpec, SideLanesStayPrivate, Verdict!SideLanesStayPrivate

-----------------------------------------------------------------------------
(* HistoryCompression: what is sent of the old turns.                      *)

AnyTurn == [thought : {"plain", "signed"}, tool : Replay!Tools, id : Nat \cup {MaxTurns + 1},
            text : {"x", "y"}]

(* The ids of a conversation name its calls. *)
Distinct(turns) == \A i, j \in 1 .. Len(turns) : turns[i].id = turns[j].id => i = j
ToolNamed(turns, id) ==
    turns[CHOOSE i \in 1 .. Len(turns) :
            turns[i].id = id /\ \A j \in (i + 1) .. Len(turns) : turns[j].id # id].tool

LEMMA NamedIs ==
    ASSUME NEW turns \in Seq(AnyTurn), Distinct(turns), NEW i \in 1 .. Len(turns)
    PROVE  ToolNamed(turns, turns[i].id) = turns[i].tool
<1> DEFINE Last(k) == turns[k].id = turns[i].id
                        /\ \A j \in (k + 1) .. Len(turns) : turns[j].id # turns[i].id
           last == CHOOSE k \in 1 .. Len(turns) : Last(k)
<1>1. Len(turns) \in Nat /\ \A j \in (i + 1) .. Len(turns) : j \in 1 .. Len(turns) /\ j # i
  OBVIOUS
<1>2. Last(i)
  BY <1>1 DEF Distinct
<1>3. last \in 1 .. Len(turns) /\ Last(last)
  BY <1>2
<1>4. last = i
  BY <1>3 DEF Distinct
<1> QED BY <1>4 DEF ToolNamed

LEMMA RenderedAgain ==
    ASSUME RecentTurns \in Nat, talk \in Seq(AnyTurn), Replay!Turn,
           Replay!Trims' = Replay!Trims, Replay!IdsDiffer', NEW i \in Replay!Old
    PROVE  Replay!SentTurn(i)' = Replay!SentTurn(i)
<1> DEFINE n == Len(talk)
<1>1. PICK turn \in AnyTurn : talk' = Append(talk, turn)
  BY DEF Replay!Turn, Replay!Turns, AnyTurn
<1>2. /\ n \in Nat /\ talk' \in Seq(AnyTurn) /\ Len(talk') = n + 1
      /\ \A k \in 1 .. n : talk'[k] = talk[k]
  BY <1>1
<1>3. UNCHANGED <<lrc, shape>> /\ Replay!Profile' = Replay!Profile
  BY DEF Replay!Turn, Replay!Profile, Replay!Profiles
<1>4. i \in 1 .. n /\ \A k \in 1 .. i : k \in 1 .. n /\ k \in Replay!Old /\ k \in Replay!Old'
  BY <1>2 DEF Replay!Old
<1>5. Distinct(talk') /\ Distinct(talk)
  <2>1. Distinct(talk')
    BY DEF Replay!IdsDiffer, Distinct
  <2>2. \A k \in 1 .. n : k \in 1 .. Len(talk')
    BY <1>2
  <2> QED BY <1>2, <2>1, <2>2 DEF Distinct
<1>6. ASSUME NEW k \in 1 .. n
      PROVE  Replay!NamedBy(talk[k].id) = talk[k].tool /\ Replay!NamedBy(talk[k].id)' = talk[k].tool
  <2>1. k \in 1 .. Len(talk') /\ talk'[k] = talk[k]
    BY <1>2
  <2>2. ToolNamed(talk, talk[k].id) = talk[k].tool
    BY <1>5, NamedIs
  <2>3. ToolNamed(talk', talk'[k].id) = talk'[k].tool
    <3> DEFINE turns == talk'
    <3>1. turns \in Seq(AnyTurn) /\ Distinct(turns) /\ k \in 1 .. Len(turns)
      BY <1>2, <1>5, <2>1
    <3> HIDE DEF turns
    <3>2. ToolNamed(turns, turns[k].id) = turns[k].tool
      BY <3>1, NamedIs
    <3> QED BY <3>2 DEF turns
  <2>4. Replay!NamedBy(talk[k].id) = ToolNamed(talk, talk[k].id)
    BY Zenon DEF Replay!NamedBy, ToolNamed
  <2>5. Replay!NamedBy(talk[k].id)' = ToolNamed(talk', talk'[k].id)
    BY Zenon DEF Replay!NamedBy, ToolNamed
  <2> QED BY <2>1, <2>2, <2>3, <2>4, <2>5
<1>7. Replay!Thought(i)' = Replay!Thought(i)
  BY <1>2, <1>3, <1>4 DEF Replay!Thought
<1>8. Replay!Arguments(i)' = Replay!Arguments(i)
  BY <1>2, <1>3, <1>4 DEF Replay!Arguments
<1>9. ASSUME NEW j \in 1 .. n PROVE Replay!SameResult(i, j)' <=> Replay!SameResult(i, j)
  BY <1>2, <1>4, <1>6 DEF Replay!SameResult
<1>10. Replay!Repeated(i)' <=> Replay!Repeated(i)
  <2>1. \A j \in Replay!Old : j \in 1 .. n
    BY DEF Replay!Old
  <2>2. \A j \in Replay!Old' : j < i => j \in 1 .. i
    BY <1>2, <1>4 DEF Replay!Old
  <2>3. \A j \in Replay!Old : j < i => j \in 1 .. i
    BY <1>4, <2>1
  <2>4. (\E j \in Replay!Old' : j < i /\ Replay!SameResult(i, j)')
          <=> (\E j \in Replay!Old : j < i /\ Replay!SameResult(i, j))
    BY <1>4, <1>9, <2>1, <2>2, <2>3
  <2> QED BY <1>3, <2>4 DEF Replay!Repeated
<1>11. Replay!Result(i)' = Replay!Result(i)
  <2>1. i \in Replay!Old /\ i \in Replay!Old' /\ i \in 1 .. n
    BY <1>4
  <2>2. Replay!NamedBy(talk[i].id)' = Replay!NamedBy(talk[i].id)
    BY <1>6, <2>1
  <2> QED BY <1>3, <1>10, <2>1, <2>2 DEF Replay!Result
<1> QED BY <1>7, <1>8, <1>11 DEF Replay!SentTurn

(* For conversations of any length and windows of any number of turns: a    *)
(* turn that was sent compressed is sent the same again, whatever the later *)
(* turns call and answer, while ids differ and no signed thought joins.     *)
THEOREM OldTurnsKept ==
    ASSUME RecentTurns \in Nat
    PROVE  Replay!CompressionSpec => OldTurnsRenderTheSame
<1> DEFINE Inv == talk \in Seq(AnyTurn)
<1>1. Replay!CompressionInit => Inv
  BY DEF Replay!CompressionInit
<1>2. Inv /\ [Replay!CompressionNext]_Replay!compressionVars => Inv'
  <2> SUFFICES ASSUME Inv, Replay!Turn PROVE Inv'
    BY DEF Replay!CompressionNext, Replay!compressionVars
  <2>1. PICK turn \in AnyTurn : talk' = Append(talk, turn)
    BY DEF Replay!Turn, Replay!Turns, AnyTurn
  <2> QED BY <2>1
<1>3. Inv /\ [Replay!CompressionNext]_Replay!compressionVars
        => [Replay!RendersTheSame]_Replay!compressionVars
  BY RenderedAgain DEF Replay!CompressionNext, Replay!RendersTheSame
<1> QED BY <1>1, <1>2, <1>3, PTL
  DEF Replay!CompressionSpec, OldTurnsRenderTheSame, Replay!OldTurnsRenderTheSame

-----------------------------------------------------------------------------
(* Connections: what an added account makes routable.                      *)

IsList(s) == s \in Seq(Conn!ToSet(s))

LEMMA Listed ==
    ASSUME NEW S, NEW s \in Seq(S)
    PROVE  IsList(s)
<1>1. Len(s) \in Nat /\ DOMAIN s = 1 .. Len(s) /\ s = [i \in 1 .. Len(s) |-> s[i]]
  OBVIOUS
<1>2. \A i \in 1 .. Len(s) : s[i] \in Conn!ToSet(s)
  BY <1>1 DEF Conn!ToSet
<1>3. s \in [1 .. Len(s) -> Conn!ToSet(s)]
  BY <1>1, <1>2
<1> QED BY <1>1, <1>3, SeqDef DEF IsList

LEMMA UpsertedIsList ==
    ASSUME NEW s, IsList(s), NEW c
    PROVE  IsList(Conn!Upserted(s, c))
<1> DEFINE S == Conn!ToSet(s) \cup {c}
<1>1. s \in Seq(Conn!ToSet(s)) /\ DOMAIN s = 1 .. Len(s) /\ Len(s) \in Nat
      /\ \A i \in 1 .. Len(s) : s[i] \in S
  BY DEF IsList, Conn!ToSet
<1>2. s \in Seq(S)
  <2>1. s \in [1 .. Len(s) -> S]
    BY <1>1
  <2> QED BY <1>1, <2>1, SeqDef
<1>3. Append(s, c) \in Seq(S)
  BY <1>2
<1>4. [i \in DOMAIN s |-> IF s[i].id = c.id THEN c ELSE s[i]] \in Seq(S)
  <2>1. [i \in 1 .. Len(s) |-> IF s[i].id = c.id THEN c ELSE s[i]] \in [1 .. Len(s) -> S]
    BY <1>1
  <2> QED BY <1>1, <2>1, SeqDef
<1> HIDE DEF S
<1> QED BY <1>3, <1>4, Listed DEF Conn!Upserted

LEMMA UpsertedHas ==
    ASSUME NEW s, IsList(s), NEW c
    PROVE  c \in Conn!ToSet(Conn!Upserted(s, c))
<1> DEFINE replaced == [i \in DOMAIN s |-> IF s[i].id = c.id THEN c ELSE s[i]]
<1>1. DOMAIN s = 1 .. Len(s) /\ Len(s) \in Nat /\ s \in Seq(Conn!ToSet(s) \cup {c})
  <2>1. s \in Seq(Conn!ToSet(s)) /\ DOMAIN s = 1 .. Len(s) /\ Len(s) \in Nat
    BY DEF IsList
  <2>2. s \in [1 .. Len(s) -> Conn!ToSet(s) \cup {c}]
    BY <2>1
  <2> QED BY <2>1, <2>2, SeqDef
<1>2. ASSUME NEW i \in DOMAIN s, s[i].id = c.id PROVE c \in Conn!ToSet(replaced)
  <2>1. i \in DOMAIN replaced /\ replaced[i] = c
    BY <1>2
  <2> HIDE DEF replaced
  <2> QED BY <2>1 DEF Conn!ToSet
<1>3. c \in Conn!ToSet(Append(s, c))
  <2> DEFINE longer == Append(s, c)
  <2>1. Len(s) + 1 \in DOMAIN longer /\ longer[Len(s) + 1] = c
    <3> DEFINE S == Conn!ToSet(s) \cup {c}
    <3>1. s \in Seq(S) /\ c \in S
      BY <1>1
    <3> HIDE DEF S
    <3> QED BY <3>1
  <2> HIDE DEF longer
  <2> QED BY <2>1 DEF Conn!ToSet
<1> HIDE DEF replaced
<1> QED BY <1>2, <1>3 DEF Conn!Upserted, replaced

LEMMA RemovedIsList ==
    ASSUME NEW s, IsList(s), NEW id
    PROVE  IsList(Conn!Removed(s, id))
<1> DEFINE p == Conn!Position(s, id)
<1>1. s \in Seq(Conn!ToSet(s)) /\ DOMAIN s = 1 .. Len(s) /\ Len(s) \in Nat
  BY DEF IsList
<1>2. ASSUME \E i \in DOMAIN s : s[i].id = id PROVE IsList(Conn!RemoveAt(s, p))
  <2>1. p \in 1 .. Len(s)
    BY <1>1, <1>2 DEF Conn!Position
  <2> HIDE DEF p
  <2>2. SubSeq(s, 1, p - 1) \in Seq(Conn!ToSet(s))
        /\ SubSeq(s, p + 1, Len(s)) \in Seq(Conn!ToSet(s))
    BY <1>1, <2>1
  <2>3. Conn!RemoveAt(s, p) \in Seq(Conn!ToSet(s))
    BY <2>2 DEF Conn!RemoveAt
  <2> QED BY <2>3, Listed
<1> QED BY <1>2 DEF Conn!Removed

(* A worker's task is a record; the copy of one that adds an account which *)
(* inherits hides all that was hidden when it looked, and is in the        *)
(* snapshot it is about to save or to publish.                             *)
IsTask(t) == {"op", "stage", "seen", "snap"} \subseteq DOMAIN t /\ IsList(t.snap)

BearsMasks(t) ==
    t.op = "inherit" =>
        /\ "conn" \in DOMAIN t /\ {"enabled", "hidden", "provider"} \subseteq DOMAIN t.conn
        /\ t.conn.enabled = TRUE /\ t.stage \notin {"begin", "asked"}
        /\ t.stage \in {"apply", "snapshot", "save", "publish"} => t.seen \subseteq t.conn.hidden
        /\ t.stage \in {"save", "publish"} => t.conn \in Conn!ToSet(t.snap)

SoundTask(t) == IsTask(t) /\ BearsMasks(t)

ConnInv ==
    /\ IsList(stored) /\ IsList(filed)
    /\ DOMAIN work = ConnWorkers /\ \A w \in ConnWorkers : SoundTask(work[w])

LEMMA IdleIsSound == SoundTask(Conn!Idle)
<1>1. IsList(<<>>)
  <2>1. <<>> \in Seq({})
    OBVIOUS
  <2> QED BY <2>1, Listed
<1> QED BY <1>1 DEF SoundTask, IsTask, BearsMasks, Conn!Idle

LEMMA TaskIsSound ==
    ASSUME NEW op, NEW at, NEW c,
           op = "inherit" =>
               /\ at \in {"look", "refresh"}
               /\ {"enabled", "hidden", "provider"} \subseteq DOMAIN c /\ c.enabled = TRUE
    PROVE  SoundTask(Conn!Task(op, at, c))
<1>1. IsList(<<>>)
  <2>1. <<>> \in Seq({})
    OBVIOUS
  <2> QED BY <2>1, Listed
<1> QED BY <1>1 DEF SoundTask, IsTask, BearsMasks, Conn!Task

(* One worker goes on and the others stay: that its task is sound is all    *)
(* there is to show of it.                                                  *)
LEMMA OneGoes ==
    ASSUME ConnInv, NEW w \in ConnWorkers, NEW t, Conn!Goes(w, t), SoundTask(t),
           IsList(stored'), IsList(filed')
    PROVE  ConnInv'
<1>1. DOMAIN work' = ConnWorkers /\ \A v \in ConnWorkers : work'[v] = IF v = w THEN t ELSE work[v]
  BY DEF ConnInv, Conn!Goes
<1> QED BY <1>1 DEF ConnInv, SoundTask, IsTask, BearsMasks, IsList

LEMMA CallsKeep ==
    ASSUME ConnInv, NEW w \in ConnWorkers, Conn!Calls(w)
    PROVE  ConnInv'
<1>1. UNCHANGED <<stored, filed>>
  BY DEF Conn!Calls, Conn!Create, Conn!Update, Conn!Delete, Conn!DeleteModel, Conn!AskModels
<1>2. IsList(stored') /\ IsList(filed')
  BY <1>1 DEF ConnInv, IsList
<1>3. ASSUME Conn!Create(w)
      PROVE  \E t : Conn!Goes(w, t) /\ SoundTask(t)
  <2>1. PICK b : /\ {"enabled", "hidden", "provider"} \subseteq DOMAIN b /\ b.enabled = TRUE
                 /\ \/ Conn!Goes(w, Conn!Task("inherit", "look", b))
                    \/ Conn!Goes(w, Conn!Task("create", "apply", b))
    <3>1. PICK id \in ConnIds, p \in Conn!Providers, ask \in {"absent", "m"} :
            Conn!Goes(w, IF ask = "absent" /\ ~ Conn!Has(id)
                 THEN Conn!Task("inherit", "look",
                        [id |-> id, provider |-> p, key |-> "k1", enabled |-> TRUE,
                         manual |-> {"m"}, synced |-> {}, listed |-> FALSE,
                         hidden |-> IF ask = "m" THEN {"m"} ELSE {}])
                 ELSE Conn!Task("create", "apply",
                        [id |-> id, provider |-> p, key |-> "k1", enabled |-> TRUE,
                         manual |-> {"m"}, synced |-> {}, listed |-> FALSE,
                         hidden |-> IF ask = "m" THEN {"m"} ELSE {}]))
      BY <1>3 DEF Conn!Create
    <3> DEFINE made == [id |-> id, provider |-> p, key |-> "k1", enabled |-> TRUE,
                        manual |-> {"m"}, synced |-> {}, listed |-> FALSE,
                        hidden |-> IF ask = "m" THEN {"m"} ELSE {}]
    <3>2. {"enabled", "hidden", "provider"} \subseteq DOMAIN made /\ made.enabled = TRUE
      OBVIOUS
    <3>3. \/ Conn!Goes(w, Conn!Task("inherit", "look", made))
          \/ Conn!Goes(w, Conn!Task("create", "apply", made))
      BY <3>1
    <3> HIDE DEF made
    <3> QED BY <3>2, <3>3
  <2>2. SoundTask(Conn!Task("inherit", "look", b)) /\ SoundTask(Conn!Task("create", "apply", b))
    BY <2>1, TaskIsSound
  <2> QED BY <2>1, <2>2
<1>4. ASSUME Conn!Update(w) \/ Conn!Delete(w) \/ Conn!DeleteModel(w) \/ Conn!AskModels(w)
      PROVE  \E t : Conn!Goes(w, t) /\ SoundTask(t)
  <2>1. \E op, at, c : op # "inherit" /\ Conn!Goes(w, Conn!Task(op, at, c))
    BY <1>4 DEF Conn!Update, Conn!Delete, Conn!DeleteModel, Conn!AskModels
  <2> QED BY <2>1, TaskIsSound
<1> QED BY <1>2, <1>3, <1>4, OneGoes DEF Conn!Calls

LEMMA SyncsKeep ==
    ASSUME ConnInv, NEW w \in ConnWorkers, Conn!Syncs(w)
    PROVE  ConnInv'
<1>1. UNCHANGED <<stored, filed>>
  BY DEF Conn!Syncs, Conn!NextOfRound, Conn!Begin, Conn!Answered, Conn!Unanswered
<1>2. IsList(stored') /\ IsList(filed') /\ SoundTask(work[w])
  BY <1>1 DEF ConnInv, IsList
<1>3. CASE Conn!NextOfRound(w)
  BY <1>2, <1>3, TaskIsSound, OneGoes DEF Conn!NextOfRound
<1>4. CASE Conn!Unanswered(w)
  BY <1>2, <1>4, IdleIsSound, OneGoes DEF Conn!Unanswered
<1>5. CASE Conn!Begin(w)
  <2> DEFINE then == [work[w] EXCEPT !.stage = "asked"]
  <2>1. work[w].op # "inherit"
    BY <1>2, <1>5 DEF Conn!Begin, Conn!At, SoundTask, BearsMasks
  <2>2. then.op = work[w].op /\ then.snap = work[w].snap /\ DOMAIN then = DOMAIN work[w]
    BY <1>2 DEF SoundTask, IsTask
  <2>3. Conn!Goes(w, then) \/ Conn!Goes(w, Conn!Idle)
    BY <1>5 DEF Conn!Begin
  <2> HIDE DEF then
  <2>4. SoundTask(then)
    BY <1>2, <2>1, <2>2 DEF SoundTask, IsTask, BearsMasks, IsList
  <2> QED BY <1>2, <2>3, <2>4, IdleIsSound, OneGoes
<1>6. CASE Conn!Answered(w)
  <2>1. PICK ms \in Conn!Answers :
          Conn!Goes(w, [work[w] EXCEPT !.conn.synced = ms, !.conn.listed = TRUE,
                          !.stage = IF work[w].op = "button" THEN "snapshot" ELSE "apply"])
    BY <1>6 DEF Conn!Answered
  <2> DEFINE then == [work[w] EXCEPT !.conn.synced = ms, !.conn.listed = TRUE,
                          !.stage = IF work[w].op = "button" THEN "snapshot" ELSE "apply"]
  <2>2. work[w].op # "inherit"
    BY <1>2, <1>6 DEF Conn!Answered, Conn!At, SoundTask, BearsMasks
  <2>3. then.op = work[w].op /\ then.snap = work[w].snap /\ DOMAIN then = DOMAIN work[w]
    BY <1>2 DEF SoundTask, IsTask
  <2>4. Conn!Goes(w, then)
    BY <2>1
  <2> HIDE DEF then
  <2>5. SoundTask(then)
    BY <1>2, <2>2, <2>3 DEF SoundTask, IsTask, BearsMasks, IsList
  <2> QED BY <1>2, <2>4, <2>5, OneGoes
<1> QED BY <1>3, <1>4, <1>5, <1>6 DEF Conn!Syncs

LEMMA WritesKeep ==
    ASSUME ConnInv, NEW w \in ConnWorkers, Conn!Writes(w)
    PROVE  ConnInv'
<1> DEFINE t == work[w]
<1>1. IsTask(t) /\ BearsMasks(t) /\ IsList(stored) /\ IsList(filed)
  BY DEF ConnInv, SoundTask
<1>2. ASSUME NEW next, Conn!Goes(w, next), SoundTask(next),
             stored' \in {stored, t.snap}, filed' \in {filed, t.snap}
      PROVE  ConnInv'
  <2>1. IsList(stored') /\ IsList(filed')
    BY <1>1, <1>2 DEF IsTask, IsList
  <2> QED BY <1>2, <2>1, OneGoes
<1> HIDE DEF t
<1>3. CASE Conn!Look(w)
  <2> DEFINE hid == Conn!HiddenBy(Conn!Siblings(t.conn))
             next == [t EXCEPT !.stage = "apply", !.conn.hidden = hid, !.seen = hid]
  <2>1. Conn!Goes(w, next) /\ UNCHANGED <<stored, filed>>
    BY <1>3 DEF Conn!Look, Conn!Masks, t
  <2> HIDE DEF hid
  <2>2. /\ next.op = t.op /\ next.snap = t.snap /\ DOMAIN next = DOMAIN t
        /\ next.stage = "apply" /\ next.seen = hid
        /\ "conn" \in DOMAIN t => next.conn = [t.conn EXCEPT !.hidden = hid]
    BY <1>1 DEF IsTask
  <2> HIDE DEF next
  <2>3. IsTask(next)
    BY <1>1, <2>2 DEF IsTask, IsList
  <2>4. BearsMasks(next)
    <3> SUFFICES ASSUME t.op = "inherit" PROVE BearsMasks(next)
      BY <2>2 DEF BearsMasks
    <3>1. next.conn = [t.conn EXCEPT !.hidden = hid] /\ "hidden" \in DOMAIN t.conn
      BY <1>1, <2>2 DEF BearsMasks
    <3>2. DOMAIN next.conn = DOMAIN t.conn /\ next.conn.hidden = hid
          /\ next.conn.enabled = t.conn.enabled
      BY <1>1, <3>1 DEF BearsMasks
    <3> QED BY <1>1, <2>2, <3>2 DEF BearsMasks
  <2> QED BY <1>2, <2>1, <2>3, <2>4 DEF SoundTask
<1>4. CASE Conn!Apply(w)
  <2>1. SoundTask([t EXCEPT !.stage = "snapshot"])
    <3>1. t.stage = "apply"
      BY <1>4 DEF Conn!Apply, Conn!At, t
    <3> QED BY <1>1, <3>1 DEF SoundTask, IsTask, BearsMasks, IsList
  <2> QED BY <1>2, <1>4, <2>1 DEF Conn!Apply, t
<1>5. CASE Conn!Snapshot(w)
  <2> DEFINE taken == IF t.op = "delete" THEN Conn!Removed(stored, t.conn.id)
                      ELSE Conn!Upserted(stored, t.conn)
             next == [t EXCEPT !.stage = "save", !.snap = taken]
  <2>1. Conn!Goes(w, next) /\ UNCHANGED <<stored, filed>> /\ t.stage = "snapshot"
    BY <1>5 DEF Conn!Snapshot, Conn!At, t
  <2>2. IsList(taken)
    BY <1>1, UpsertedIsList, RemovedIsList
  <2>3. t.op = "inherit" => t.conn \in Conn!ToSet(taken)
    BY <1>1, UpsertedHas
  <2> HIDE DEF taken
  <2>4. /\ next.op = t.op /\ next.snap = taken /\ DOMAIN next = DOMAIN t
        /\ next.stage = "save" /\ next.seen = t.seen
        /\ "conn" \in DOMAIN t => next.conn = t.conn
    BY <1>1 DEF IsTask
  <2> HIDE DEF next
  <2>5. IsTask(next)
    BY <1>1, <2>2, <2>4 DEF IsTask, IsList
  <2>6. BearsMasks(next)
    <3> SUFFICES ASSUME t.op = "inherit" PROVE BearsMasks(next)
      BY <2>4 DEF BearsMasks
    <3>1. next.conn = t.conn /\ t.seen \subseteq t.conn.hidden
      BY <1>1, <2>1, <2>4 DEF BearsMasks
    <3> QED BY <1>1, <2>3, <2>4, <3>1 DEF BearsMasks
  <2> QED BY <1>2, <2>1, <2>5, <2>6 DEF SoundTask
<1>6. CASE Conn!Save(w)
  <2>1. SoundTask([t EXCEPT !.stage = "publish"])
    <3>1. t.stage = "save"
      BY <1>6 DEF Conn!Save, Conn!At, t
    <3> QED BY <1>1, <3>1 DEF SoundTask, IsTask, BearsMasks, IsList
  <2> QED BY <1>2, <1>6, <2>1 DEF Conn!Save, t
<1>7. CASE Conn!Publish(w)
  <2>1. stored' = t.snap /\ filed' = filed /\ t.stage = "publish"
    BY <1>7 DEF Conn!Publish, Conn!At, t
  <2>2. \/ Conn!Goes(w, Conn!Idle)
        \/ t.op = "delete" /\ Conn!Goes(w, Conn!Task("delete", "unregister", t.conn))
        \/ Conn!Goes(w, Conn!Task(t.op, "refresh", t.conn))
    BY <1>7 DEF Conn!Publish, t
  <2>3. SoundTask(Conn!Task("delete", "unregister", t.conn))
    BY TaskIsSound
  <2>4. SoundTask(Conn!Task(t.op, "refresh", t.conn))
    BY <1>1, TaskIsSound DEF BearsMasks
  <2> QED BY <1>2, <2>1, <2>2, <2>3, <2>4, IdleIsSound
<1>8. CASE Conn!Unregister(w)
  <2>1. SoundTask([t EXCEPT !.stage = "refresh"])
    BY <1>1 DEF SoundTask, IsTask, BearsMasks, IsList
  <2> QED BY <1>2, <1>8, <2>1 DEF Conn!Unregister, t
<1>9. CASE Conn!Refresh(w)
  <2>1. SoundTask([t EXCEPT !.stage = "rotate", !.snap = stored])
    BY <1>1 DEF SoundTask, IsTask, BearsMasks, IsList
  <2> QED BY <1>2, <1>9, <2>1 DEF Conn!Refresh, t
<1>10. CASE Conn!Rotate(w)
  <2>1. SoundTask(Conn!Task("sync", "begin", t.conn))
    BY TaskIsSound
  <2> QED BY <1>2, <1>10, <2>1, IdleIsSound DEF Conn!Rotate, t
<1> QED BY <1>3, <1>4, <1>5, <1>6, <1>7, <1>8, <1>9, <1>10 DEF Conn!Writes

(* Only the publication takes a worker from "publish" to "refresh".        *)
LEMMA JoinPublishes ==
    ASSUME ConnInv, Conn!ConnNext, NEW w \in ConnWorkers, NEW p, Conn!Joins(w, p)
    PROVE  Conn!Publish(w)
<1>1. work[w].stage = "publish" /\ work'[w].stage = "refresh" /\ DOMAIN work = ConnWorkers
  BY DEF Conn!Joins, Conn!At, ConnInv
<1>2. ~ Conn!Restart /\ ~ Conn!StartRound
  BY <1>1 DEF Conn!Restart, Conn!StartRound, Conn!Idle
<1>3. PICK v \in ConnWorkers : Conn!Calls(v) \/ Conn!Syncs(v) \/ Conn!Writes(v)
  BY <1>2 DEF Conn!ConnNext
<1>4. \E t : Conn!Goes(v, t)
  BY <1>3 DEF Conn!Calls, Conn!Create, Conn!Update, Conn!Delete, Conn!DeleteModel,
              Conn!AskModels, Conn!Syncs, Conn!NextOfRound, Conn!Begin, Conn!Answered,
              Conn!Unanswered, Conn!Writes, Conn!Look, Conn!Apply, Conn!Snapshot, Conn!Save,
              Conn!Publish, Conn!Unregister, Conn!Refresh, Conn!Rotate
<1>5. v = w
  BY <1>1, <1>4 DEF Conn!Goes
<1> QED BY <1>1, <1>3, <1>5
        DEF Conn!Calls, Conn!Create, Conn!Update, Conn!Delete, Conn!DeleteModel, Conn!AskModels,
            Conn!Call, Conn!Syncs, Conn!NextOfRound, Conn!Begin, Conn!Answered, Conn!Unanswered,
            Conn!Writes, Conn!Look, Conn!Apply, Conn!Snapshot, Conn!Save, Conn!Unregister,
            Conn!Refresh, Conn!Rotate, Conn!At

LEMMA JoinMasks ==
    ASSUME ConnInv, Conn!ConnNext, NEW w \in ConnWorkers, NEW p, Conn!Joins(w, p)
    PROVE  Conn!Routable(p)' \cap work[w].seen = {}
<1> DEFINE c == work[w].conn
<1>1. stored' = work[w].snap
  BY JoinPublishes DEF Conn!Publish
<1>2. c \in Conn!ToSet(stored') /\ c.enabled = TRUE /\ c.provider = p
      /\ work[w].seen \subseteq c.hidden
  BY <1>1 DEF Conn!Joins, Conn!At, ConnInv, SoundTask, BearsMasks
<1> HIDE DEF c
<1>3. c \in Conn!Enabled(stored', p)
  BY <1>2 DEF Conn!Enabled, Conn!Of
<1>4. c.hidden \subseteq Conn!HiddenBy(Conn!Enabled(stored', p))
  BY <1>3 DEF Conn!HiddenBy
<1>5. Conn!Routable(p)' \cap Conn!HiddenBy(Conn!Enabled(stored', p)) = {}
  BY DEF Conn!Routable
<1> QED BY <1>2, <1>4, <1>5

(* Whatever else the operator, the syncs and the restarts write between,   *)
(* an account that is added with no list of hidden models of its own       *)
(* makes none routable that an account of its provider, in use or not, hid *)
(* when it was made: its own list goes with it into the snapshot that is   *)
(* published.                                                              *)
THEOREM AccountsStayHidden ==
    ASSUME ConnFiles \subseteq Seq(Conn!Connections)
    PROVE  Conn!ConnSpec => HiddenStaysHidden
<1>1. Conn!ConnInit => ConnInv
  <2> SUFFICES ASSUME Conn!ConnInit PROVE ConnInv
    OBVIOUS
  <2>1. filed \in Seq(Conn!Connections) /\ stored = filed
    BY DEF Conn!ConnInit
  <2>2. IsList(filed) /\ IsList(stored)
    BY <2>1, Listed
  <2>3. work = [w \in ConnWorkers |-> Conn!Idle]
    BY DEF Conn!ConnInit
  <2> QED BY <2>2, <2>3, IdleIsSound DEF ConnInv
<1>2. ConnInv /\ [Conn!ConnNext]_Conn!connVars => ConnInv'
  <2> SUFFICES ASSUME ConnInv, [Conn!ConnNext]_Conn!connVars PROVE ConnInv'
    OBVIOUS
  <2>1. CASE Conn!Restart
    <3>1. stored' = filed /\ filed' = filed /\ work' = [w \in ConnWorkers |-> Conn!Idle]
      BY <2>1 DEF Conn!Restart
    <3> QED BY <3>1, IdleIsSound DEF ConnInv, IsList
  <2>2. CASE UNCHANGED <<stored, filed, work>>
    BY <2>2 DEF ConnInv, IsList, SoundTask, IsTask, BearsMasks
  <2>3. CASE Conn!StartRound \/ UNCHANGED Conn!connVars
    BY <2>2, <2>3 DEF Conn!StartRound, Conn!connVars
  <2> QED BY <2>1, <2>3, CallsKeep, SyncsKeep, WritesKeep DEF Conn!ConnNext
<1>3. ConnInv /\ [Conn!ConnNext]_Conn!connVars => [Conn!JoinsMasked]_Conn!connVars
  <2> SUFFICES ASSUME ConnInv, Conn!ConnNext, NEW w \in ConnWorkers, NEW p \in Conn!Providers,
                      Conn!Joins(w, p)
               PROVE  Conn!Routable(p)' \cap work[w].seen = {}
    BY DEF Conn!JoinsMasked, Conn!connVars
  <2> QED BY JoinMasks
<1> QED BY <1>1, <1>2, <1>3, PTL
  DEF Conn!ConnSpec, HiddenStaysHidden, Conn!HiddenStaysHidden

-----------------------------------------------------------------------------
(* LaneShape: the shape of a request that is sent, and sent again.         *)

Fragments == {Lane!Official, "mine", "yours"}
Bodies == [stream : BOOLEAN, instructions : Seq(Fragments), tools : Seq(Lane!ToolNames),
           choice : {"auto", "required", "none"}]

LEMMA CappedIs ==
    ASSUME NEW tools \in Seq(Lane!ToolNames), NEW n \in Nat
    PROVE  /\ Lane!Capped(tools, n) \in Seq(Lane!ToolNames)
           /\ Len(Lane!Capped(tools, n)) <= n
           /\ Len(tools) <= n => Lane!Capped(tools, n) = tools
<1>1. Len(tools) \in Nat
  OBVIOUS
<1>2. CASE Len(tools) <= n
  <2>1. Lane!Capped(tools, n) = SubSeq(tools, 1, Len(tools))
    BY <1>1, <1>2 DEF Lane!Capped
  <2>2. SubSeq(tools, 1, Len(tools)) = tools
    BY SubSeqFull
  <2> QED BY <1>2, <2>1, <2>2
<1>3. CASE ~(Len(tools) <= n)
  <2>1. Lane!Capped(tools, n) = SubSeq(tools, 1, n)
    BY <1>1, <1>3 DEF Lane!Capped
  <2>2. SubSeq(tools, 1, n) \in Seq(Lane!ToolNames) /\ Len(SubSeq(tools, 1, n)) = n
    BY <1>1, <1>3
  <2> QED BY <1>3, <2>1, <2>2
<1> QED BY <1>2, <1>3

(* The lists that have the read tool within the cap are left as they are,   *)
(* and the others become such.                                              *)
LEMMA EquippedIs ==
    ASSUME MaxTools \in Nat \ {0}, NEW tools \in Seq(Lane!ToolNames),
           Lane!HasRead(tools) => Lane!HasRead(Lane!Capped(tools, MaxTools))
    PROVE  LET equipped == Lane!Equipped(tools) IN
           /\ equipped \in Seq(Lane!ToolNames) /\ Lane!HasRead(equipped)
           /\ Len(equipped) <= MaxTools
           /\ Len(tools) < MaxTools => IF Lane!HasRead(tools) THEN equipped = tools
                                       ELSE equipped = Append(tools, "read")
           /\ Lane!Equipped(equipped) = equipped
<1> DEFINE equipped == Lane!Equipped(tools)
<1>1. Len(tools) \in Nat
  OBVIOUS
<1>2. ASSUME NEW list \in Seq(Lane!ToolNames), Lane!HasRead(list), Len(list) <= MaxTools
      PROVE  Lane!Equipped(list) = list
  BY <1>2, CappedIs DEF Lane!Equipped
<1>3. CASE Lane!HasRead(tools)
  <2>1. equipped = Lane!Capped(tools, MaxTools)
    BY <1>3 DEF Lane!Equipped
  <2>2. equipped \in Seq(Lane!ToolNames) /\ Lane!HasRead(equipped) /\ Len(equipped) <= MaxTools
        /\ (Len(tools) < MaxTools => equipped = tools)
    BY <1>1, <1>3, <2>1, CappedIs
  <2> QED BY <1>2, <1>3, <2>2
<1>4. CASE ~Lane!HasRead(tools)
  <2> DEFINE kept == IF Len(tools) >= MaxTools THEN Lane!Capped(tools, MaxTools - 1) ELSE tools
             list == Append(kept, "read")
  <2>1. kept \in Seq(Lane!ToolNames) /\ Len(kept) < MaxTools
    <3>1. MaxTools - 1 \in Nat
      OBVIOUS
    <3>2. CASE Len(tools) >= MaxTools
      <4>1. Lane!Capped(tools, MaxTools - 1) \in Seq(Lane!ToolNames)
            /\ Len(Lane!Capped(tools, MaxTools - 1)) <= MaxTools - 1
        BY <3>1, CappedIs
      <4> DEFINE short == Lane!Capped(tools, MaxTools - 1)
      <4>2. short \in Seq(Lane!ToolNames) /\ Len(short) <= MaxTools - 1
        BY <4>1
      <4> HIDE DEF short
      <4>3. Len(short) \in Nat /\ Len(short) < MaxTools
        BY <4>2
      <4> QED BY <3>2, <4>2, <4>3 DEF short
    <3>3. CASE ~(Len(tools) >= MaxTools)
      BY <1>1, <3>3
    <3> QED BY <3>2, <3>3
  <2> HIDE DEF kept
  <2>2. list \in Seq(Lane!ToolNames) /\ Len(list) <= MaxTools /\ Lane!HasRead(list)
    <3>1. Len(kept) \in Nat /\ "read" \in Lane!ToolNames
      BY <2>1 DEF Lane!ToolNames, Lane!ReadNames
    <3>2. list \in Seq(Lane!ToolNames) /\ Len(list) = Len(kept) + 1 /\ list[Len(kept) + 1] = "read"
          /\ DOMAIN list = 1 .. Len(kept) + 1
      BY <2>1, <3>1
    <3>3. Lane!HasRead(list)
      BY <3>1, <3>2 DEF Lane!HasRead, Lane!ReadNames
    <3> QED BY <2>1, <3>1, <3>2, <3>3
  <2>3. equipped = Lane!Capped(list, MaxTools)
    BY <1>4 DEF Lane!Equipped, kept
  <2>4. equipped = list
    BY <2>2, <2>3, CappedIs
  <2>5. Len(tools) < MaxTools => list = Append(tools, "read")
    BY <1>1 DEF kept
  <2> HIDE DEF list
  <2>6. Lane!Equipped(list) = list
    BY <1>2, <2>2
  <2> QED BY <1>4, <2>2, <2>4, <2>5, <2>6
<1> QED BY <1>3, <1>4

LEMMA SuffixOf ==
    ASSUME NEW s \in Seq(Fragments), NEW x \in Fragments
    PROVE  Lane!IsSuffix(s, s) /\ Lane!IsSuffix(s, <<x>> \o s)
<1> DEFINE t == <<x>> \o s
           n == Len(s)
<1>1. /\ n \in Nat /\ t \in Seq(Fragments) /\ Len(t) = n + 1 /\ t[1] = x
      /\ \A i \in 1 .. n : t[i + 1] = s[i]
  OBVIOUS
<1> HIDE DEF t
<1> DEFINE rs == Lane!Reverse(s)
           rt == Lane!Reverse(t)
<1>2. /\ rs \in Seq(Fragments) /\ Len(rs) = n
      /\ \A i \in 1 .. n : rs[i] = s[n - i + 1]
  <2>1. rs = [i \in 1 .. n |-> s[(n - i) + 1]]
    BY DEF Lane!Reverse
  <2>2. \A i \in 1 .. n : s[(n - i) + 1] \in Fragments
    BY <1>1
  <2> HIDE DEF rs
  <2>3. rs \in [1 .. n -> Fragments]
    BY <2>1, <2>2
  <2> QED BY <1>1, <2>1, <2>3, SeqDef
<1>3. /\ rt \in Seq(Fragments) /\ Len(rt) = n + 1
      /\ \A i \in 1 .. n : rt[i] = s[n - i + 1]
  <2>1. rt = [i \in 1 .. n + 1 |-> t[(n + 1 - i) + 1]]
    BY <1>1 DEF Lane!Reverse
  <2>2. \A i \in 1 .. n + 1 : t[(n + 1 - i) + 1] \in Fragments
    BY <1>1
  <2>3. \A i \in 1 .. n : t[(n + 1 - i) + 1] = s[n - i + 1]
    <3> SUFFICES ASSUME NEW i \in 1 .. n PROVE t[(n + 1 - i) + 1] = s[n - i + 1]
      OBVIOUS
    <3>1. n - i + 1 \in 1 .. n /\ (n - i + 1) + 1 = (n + 1 - i) + 1
      BY <1>1
    <3> QED BY <1>1, <3>1
  <2> HIDE DEF rt
  <2>4. rt \in [1 .. n + 1 -> Fragments]
    BY <2>1, <2>2
  <2> QED BY <1>1, <2>1, <2>3, <2>4, SeqDef
<1> HIDE DEF rs, rt
<1>4. SubSeq(rs, 1, n) = SubSeq(rt, 1, n)
  <2> DEFINE a == SubSeq(rs, 1, n)
             b == SubSeq(rt, 1, n)
  <2>1. a \in Seq(Fragments) /\ b \in Seq(Fragments) /\ Len(a) = n /\ Len(b) = n
        /\ \A i \in 1 .. n : a[i] = rs[i] /\ b[i] = rt[i]
    BY <1>1, <1>2, <1>3
  <2> HIDE DEF a, b
  <2>2. a = b
    BY <1>2, <1>3, <2>1, SeqEqual
  <2> QED BY <2>2 DEF a, b
<1> QED BY <1>1, <1>2, <1>3, <1>4 DEF Lane!IsSuffix, Lane!IsPrefix, rs, rt, t

(* What a list of instructions becomes has the prompt, ends as it did and  *)
(* becomes nothing else.                                                   *)
LEMMA InstructedIs ==
    ASSUME NEW s \in Seq(Fragments)
    PROVE  LET instructed == Lane!Instructed(s) IN
           /\ instructed \in Seq(Fragments) /\ Lane!Contains(instructed, Lane!Official)
           /\ Lane!IsSuffix(s, instructed)
           /\ Lane!Instructed(instructed) = instructed
<1> DEFINE t == <<Lane!Official>> \o s
<1>1. t \in Seq(Fragments) /\ Lane!Contains(t, Lane!Official)
  <2>1. Lane!Official \in Fragments
    BY DEF Fragments
  <2>2. t \in Seq(Fragments) /\ Len(t) \in Nat /\ Len(t) >= 1 /\ t[1] = Lane!Official
    BY <2>1
  <2> HIDE DEF t
  <2> QED BY <2>2 DEF Lane!Contains
<1>2. Lane!IsSuffix(s, s) /\ Lane!IsSuffix(s, t)
  BY SuffixOf DEF Fragments
<1> HIDE DEF t
<1>3. CASE Lane!Contains(s, Lane!Official)
  <2>1. Lane!Instructed(s) = s
    BY <1>3 DEF Lane!Instructed
  <2> QED BY <1>2, <1>3, <2>1
<1>4. CASE ~Lane!Contains(s, Lane!Official)
  <2>1. Lane!Instructed(s) = t
    BY <1>4 DEF Lane!Instructed, t
  <2>2. Lane!Instructed(t) = t
    BY <1>1 DEF Lane!Instructed
  <2> QED BY <1>1, <1>2, <2>1, <2>2
<1> QED BY <1>3, <1>4

(* The client's own list stands in front when there was room for more.     *)
LEMMA PrefixOf ==
    ASSUME NEW s \in Seq(Lane!ToolNames), NEW x \in Lane!ToolNames
    PROVE  Lane!IsPrefix(s, s) /\ Lane!IsPrefix(s, Append(s, x))
<1> DEFINE t == Append(s, x)
           a == SubSeq(t, 1, Len(s))
<1>1. /\ t \in Seq(Lane!ToolNames) /\ Len(t) = Len(s) + 1 /\ Len(s) \in Nat
      /\ \A i \in 1 .. Len(s) : t[i] = s[i]
  OBVIOUS
<1> HIDE DEF t
<1>2. a \in Seq(Lane!ToolNames) /\ Len(a) = Len(s) /\ \A i \in 1 .. Len(s) : a[i] = t[i]
  BY <1>1
<1> HIDE DEF a
<1>3. s = a
  BY <1>1, <1>2, SeqEqual
<1>4. SubSeq(s, 1, Len(s)) = s
  BY SubSeqFull
<1> QED BY <1>1, <1>3, <1>4 DEF Lane!IsPrefix, a, t

(* Shaping a body a second time changes nothing.                           *)
LEMMA ShapedIs ==
    ASSUME MaxTools \in Nat \ {0}, NEW b \in Bodies,
           Lane!HasRead(b.tools) => Lane!HasRead(Lane!Capped(b.tools, MaxTools))
    PROVE  LET shaped == Lane!Shaped(b) IN
           /\ shaped \in Bodies /\ shaped.stream
           /\ Lane!HasRead(shaped.tools) /\ Len(shaped.tools) <= MaxTools
           /\ Lane!Contains(shaped.instructions, Lane!Official)
           /\ Lane!IsSuffix(b.instructions, shaped.instructions)
           /\ Len(b.tools) < MaxTools => Lane!IsPrefix(b.tools, shaped.tools)
           /\ (b.tools = <<>> /\ wire # "responses") => shaped.choice = "none"
           /\ Lane!Shaped(shaped) = shaped
<1> DEFINE equipped == Lane!Equipped(b.tools)
           instructed == Lane!Instructed(b.instructions)
           pinned == Lane!Pinned(b)
           shaped == [stream |-> TRUE, instructions |-> instructed, tools |-> equipped,
                      choice |-> pinned]
<1>1. /\ b.tools \in Seq(Lane!ToolNames) /\ b.instructions \in Seq(Fragments)
      /\ b.choice \in {"auto", "required", "none"}
  BY DEF Bodies
<1>2. /\ equipped \in Seq(Lane!ToolNames) /\ Lane!HasRead(equipped) /\ Len(equipped) <= MaxTools
      /\ Len(b.tools) < MaxTools => IF Lane!HasRead(b.tools) THEN equipped = b.tools
                                    ELSE equipped = Append(b.tools, "read")
      /\ Lane!Equipped(equipped) = equipped
  BY <1>1, EquippedIs
<1>3. /\ instructed \in Seq(Fragments) /\ Lane!Contains(instructed, Lane!Official)
      /\ Lane!IsSuffix(b.instructions, instructed)
      /\ Lane!Instructed(instructed) = instructed
  BY <1>1, InstructedIs
<1>4. pinned \in {"auto", "required", "none"}
      /\ ((b.tools = <<>> /\ wire # "responses") => pinned = "none")
  BY <1>1 DEF Lane!Pinned
<1>5. Len(b.tools) < MaxTools => Lane!IsPrefix(b.tools, equipped)
  <2>1. "read" \in Lane!ToolNames
    BY DEF Lane!ToolNames, Lane!ReadNames
  <2> QED BY <1>1, <1>2, <2>1, PrefixOf
<1>6. equipped # <<>>
  BY <1>2 DEF Lane!HasRead
<1>7. Lane!Shaped(b) = shaped
  BY DEF Lane!Shaped
<1> HIDE DEF equipped, instructed, pinned
<1>8. shaped \in Bodies
  BY <1>2, <1>3, <1>4 DEF Bodies
<1>9. Lane!Shaped(shaped) = shaped
  <2>1. Lane!Pinned(shaped) = pinned
    BY <1>6 DEF Lane!Pinned
  <2> QED BY <1>2, <1>3, <2>1 DEF Lane!Shaped
<1> QED BY <1>2, <1>3, <1>4, <1>5, <1>7, <1>8, <1>9

(* The client's body is as it came, and the one to be sent is that body    *)
(* shaped once however often it has been shaped, unless the read tool was  *)
(* cut off.                                                                *)
ShapeInv ==
    /\ asked \in Bodies /\ sent \in Bodies /\ shapings \in Nat
    /\ shapings = 0 => sent = asked
    /\ (shapings > 0 /\ ~Lane!ReadIsCutOff) => sent = Lane!Shaped(asked)

LEMMA ShapeStarts ==
    ASSUME MaxTools \in Nat \ {0}
    PROVE  Lane!ShapeInit => ShapeInv
<1> SUFFICES ASSUME Lane!ShapeInit PROVE ShapeInv
  OBVIOUS
<1>1. \A n, T : Lane!UpTo(n, T) \subseteq Seq(T)
  <2> SUFFICES ASSUME NEW n, NEW T, NEW s \in Lane!UpTo(n, T) PROVE s \in Seq(T)
    OBVIOUS
  <2>1. PICK k \in 0 .. n : s \in [1 .. k -> T]
    BY DEF Lane!UpTo
  <2> QED BY <2>1, SeqDef
<1>2. asked \in Bodies
  <2>1. /\ asked \in [stream : BOOLEAN, instructions : Seq(Fragments), tools : Seq(Lane!ToolNames),
                      choice : {"auto", "required"}]
    BY <1>1 DEF Lane!ShapeInit, Fragments
  <2> QED BY <2>1 DEF Bodies
<1> QED BY <1>2 DEF Lane!ShapeInit, ShapeInv

LEMMA ShapeStep ==
    ASSUME MaxTools \in Nat \ {0}
    PROVE  ShapeInv /\ [Lane!ShapeNext]_Lane!shapeVars => ShapeInv'
<1> SUFFICES ASSUME ShapeInv, [Lane!ShapeNext]_Lane!shapeVars PROVE ShapeInv'
  OBVIOUS
<1>1. CASE Lane!ApplyAgentShape
  <2>1. sent' = Lane!Shaped(sent) /\ shapings' = shapings + 1 /\ asked' = asked /\ wire' = wire
    BY <1>1 DEF Lane!ApplyAgentShape
  <2>2. sent' \in Bodies
    <3>1. /\ sent.tools \in Seq(Lane!ToolNames) /\ sent.instructions \in Seq(Fragments)
          /\ sent.choice \in {"auto", "required", "none"}
      BY DEF ShapeInv, Bodies
    <3>2. Lane!Equipped(sent.tools) \in Seq(Lane!ToolNames)
      <4> DEFINE short == Lane!Capped(sent.tools, MaxTools - 1)
                 list == IF Len(sent.tools) >= MaxTools THEN short ELSE sent.tools
                 whole == IF Lane!HasRead(sent.tools) THEN sent.tools ELSE Append(list, "read")
      <4>1. short \in Seq(Lane!ToolNames)
        <5>1. MaxTools - 1 \in Nat
          OBVIOUS
        <5> QED BY <3>1, <5>1, CappedIs
      <4> HIDE DEF short
      <4>2. list \in Seq(Lane!ToolNames)
        BY <3>1, <4>1
      <4> HIDE DEF list
      <4>3. whole \in Seq(Lane!ToolNames)
        BY <3>1, <4>2 DEF Lane!ToolNames, Lane!ReadNames
      <4>4. Lane!Equipped(sent.tools) = Lane!Capped(whole, MaxTools)
        BY DEF Lane!Equipped, short, list
      <4> HIDE DEF whole
      <4> QED BY <4>3, <4>4, CappedIs
    <3>3. Lane!Instructed(sent.instructions) \in Seq(Fragments)
      BY <3>1, InstructedIs
    <3>4. Lane!Pinned(sent) \in {"auto", "required", "none"}
      BY <3>1 DEF Lane!Pinned
    <3> QED BY <2>1, <3>2, <3>3, <3>4 DEF Lane!Shaped, Bodies
  <2>3. ASSUME ~Lane!ReadIsCutOff PROVE sent' = Lane!Shaped(asked)
    <3>1. asked \in Bodies
          /\ (Lane!HasRead(asked.tools) => Lane!HasRead(Lane!Capped(asked.tools, MaxTools)))
      BY <2>3 DEF ShapeInv, Lane!ReadIsCutOff
    <3>2. Lane!Shaped(Lane!Shaped(asked)) = Lane!Shaped(asked)
      BY <3>1, ShapedIs
    <3>3. sent = asked \/ sent = Lane!Shaped(asked)
      BY <2>3 DEF ShapeInv
    <3> QED BY <2>1, <3>2, <3>3
  <2>4. Lane!ReadIsCutOff' = Lane!ReadIsCutOff /\ Lane!Shaped(asked)' = Lane!Shaped(asked)
    BY <2>1 DEF Lane!ReadIsCutOff, Lane!HasRead, Lane!Capped, Lane!Shaped, Lane!Pinned,
                Lane!Instructed, Lane!Equipped
  <2> QED BY <2>1, <2>2, <2>3, <2>4 DEF ShapeInv
<1>2. CASE UNCHANGED Lane!shapeVars
  <2>1. asked' = asked /\ sent' = sent /\ shapings' = shapings /\ wire' = wire
    BY <1>2 DEF Lane!shapeVars
  <2>2. Lane!ReadIsCutOff' = Lane!ReadIsCutOff /\ Lane!Shaped(asked)' = Lane!Shaped(asked)
    BY <2>1 DEF Lane!ReadIsCutOff, Lane!HasRead, Lane!Capped, Lane!Shaped, Lane!Pinned,
                Lane!Instructed, Lane!Equipped
  <2> QED BY <2>1, <2>2 DEF ShapeInv
<1> QED BY <1>1, <1>2 DEF Lane!ShapeNext

(* What the lane's gate looks for is in every request that has been shaped, *)
(* the client's own instructions and tools are there as it listed them,    *)
(* and shaping it again changes nothing, whatever the cap and however long *)
(* the lists: unless the client named its read tool beyond the cap.        *)
THEOREM ShapeSettled ==
    ASSUME MaxTools \in Nat \ {0}
    PROVE  Lane!ShapeSpec => []ShapeIsSettled
<1>1. Lane!ShapeInit => ShapeInv
  BY ShapeStarts
<1>2. ShapeInv /\ [Lane!ShapeNext]_Lane!shapeVars => ShapeInv'
  BY ShapeStep
<1>3. ShapeInv => Lane!ShapeIsSettled
  <2> SUFFICES ASSUME ShapeInv, shapings > 0, ~Lane!ReadIsCutOff
               PROVE  Lane!ShapeIsSettled
    BY DEF Lane!ShapeIsSettled
  <2>1. sent = Lane!Shaped(asked) /\ asked \in Bodies
        /\ (Lane!HasRead(asked.tools) => Lane!HasRead(Lane!Capped(asked.tools, MaxTools)))
    BY DEF ShapeInv, Lane!ReadIsCutOff
  <2> DEFINE shaped == Lane!Shaped(asked)
  <2>2. /\ shaped \in Bodies /\ shaped.stream
        /\ Lane!HasRead(shaped.tools) /\ Len(shaped.tools) <= MaxTools
        /\ Lane!Contains(shaped.instructions, Lane!Official)
        /\ Lane!IsSuffix(asked.instructions, shaped.instructions)
        /\ Len(asked.tools) < MaxTools => Lane!IsPrefix(asked.tools, shaped.tools)
        /\ (asked.tools = <<>> /\ wire # "responses") => shaped.choice = "none"
        /\ Lane!Shaped(shaped) = shaped
    BY <2>1, ShapedIs
  <2> HIDE DEF shaped
  <2>3. sent = shaped
    BY <2>1 DEF shaped
  <2> QED BY <2>2, <2>3 DEF Lane!ShapeIsSettled
<1> QED BY <1>1, <1>2, <1>3, PTL DEF Lane!ShapeSpec, ShapeIsSettled

-----------------------------------------------------------------------------
(* ToolOutputFilter: what becomes of a historical tool result.             *)

(* What a result reports is what the gates look for.                       *)
LEMMA ReportedIs ==
    ASSUME NEW n \in Nat, block \in [1 .. n -> Sift!Kinds]
    PROVE  Sift!Reported = Sift!HardErrors(block)
<1>1. n = Len(block)
  <2>1. block \in Seq(Sift!Kinds)
    BY SeqDef
  <2> QED BY <2>1
<1>2. CASE form \in {"json", "ndjson"}
  BY <1>2 DEF Sift!Reported, Sift!HardErrors
<1>3. CASE form \notin {"json", "ndjson"}
  <2> DEFINE errors == {j \in 1 .. Len(block) : block[j] \in Sift!Hard}
             located == {h \in 1 .. Len(block) :
                            block[h] = "at" /\ \E i \in errors : i < h}
             hard == {j \in 1 .. Len(block) :
                        \/ block[j] \in Sift!Hard
                        \/ block[j] = "at" /\ \E h \in 1 .. (j - 1) : block[h] \in Sift!Hard}
  <2>1. hard = errors \union located
    <3> SUFFICES ASSUME NEW j \in 1 .. Len(block)
                 PROVE  (\E h \in 1 .. (j - 1) : block[h] \in Sift!Hard)
                        <=> \E i \in errors : i < j
      OBVIOUS
    <3>1. \A h \in 1 .. Len(block) : h \in 1 .. (j - 1) <=> h < j
      BY <1>1
    <3>2. \A h \in 1 .. (j - 1) : h \in 1 .. Len(block)
      BY <1>1
    <3> QED BY <3>1, <3>2
  <2>2. Sift!Reported = {block[j] : j \in errors} \union {block[j] : j \in located}
    BY <1>3, Zenon DEF Sift!Reported
  <2>3. Sift!HardErrors(block) = {block[j] : j \in hard}
    BY <1>3, Zenon DEF Sift!HardErrors
  <2> HIDE DEF errors, located, hard
  <2> QED BY <2>1, <2>2, <2>3
<1> QED BY <1>2, <1>3

(* A text is shipped shortened only through a gate.                        *)
LEMMA OnlyGated ==
    ASSUME form # "file", form \notin {"json", "ndjson"}, Sift!Filtered # <<>>
    PROVE  Sift!Survive(Sift!Filtered)
<1>1. \A text : Sift!Gated(text) # <<>> => Sift!Survive(Sift!Gated(text))
  BY DEF Sift!Gated
<1>2. Sift!Shortened # <<>> => Sift!Survive(Sift!Shortened)
  <2> DEFINE text == Sift!Windowed(Sift!Quiet(block), Sift!Selected(Sift!Quiet(block)))
  <2>1. Sift!Shortened = Sift!Gated(text) \/ Sift!Shortened = <<>>
    BY DEF Sift!Shortened
  <2> HIDE DEF text
  <2> QED BY <1>1, <2>1
<1> DEFINE quiet == Sift!Gated(Sift!Quiet(block))
<1>3. quiet # <<>> => Sift!Survive(quiet)
  BY <1>1
<1>4. Sift!Filtered \in {quiet, Sift!Shortened, <<>>}
  BY DEF Sift!Filtered
<1> HIDE DEF quiet
<1> QED BY <1>2, <1>3, <1>4

(* The result as it is reports what it reports.                            *)
LEMMA VerbatimReports ==
    ASSUME NEW n \in Nat, block \in [1 .. n -> Sift!Kinds], NEW k \in Sift!HardErrors(block)
    PROVE  Sift!Has([i \in 1 .. Len(block) |-> Sift!Line(block[i])], k)
<1> DEFINE verbatim == [i \in 1 .. Len(block) |-> Sift!Line(block[i])]
<1>1. n = Len(block)
  <2>1. block \in Seq(Sift!Kinds)
    BY SeqDef
  <2> QED BY <2>1
<1>2. PICK j \in 1 .. Len(block) : k = block[j]
  BY DEF Sift!HardErrors
<1>3. Len(verbatim) = n
  <2> DEFINE L == {Sift!Line(block[i]) : i \in 1 .. n}
  <2>1. verbatim \in [1 .. n -> L]
    BY <1>1
  <2> HIDE DEF verbatim, L
  <2>2. verbatim \in Seq(L)
    BY <2>1, SeqDef
  <2> QED BY <2>1, <2>2
<1>4. verbatim[j].kind = k
  BY <1>2 DEF Sift!Line
<1> HIDE DEF verbatim
<1> QED BY <1>1, <1>2, <1>3, <1>4 DEF Sift!Has, verbatim

(* What was reported reaches the model: whatever looked like noise, was    *)
(* counted, selected or cut, and whatever the budgets.                     *)
THEOREM ReportsReachTheModel == Sift!FilterSpec => []DiagnosticsSurvive
<1> DEFINE IsBlock == \E n \in Nat : block \in [1 .. n -> Sift!Kinds]
           Inv == IsBlock /\ Sift!DiagnosticsSurvive
<1>1. Sift!FilterInit => Inv
  BY DEF Sift!FilterInit, Sift!Blocks, Sift!DiagnosticsSurvive, Sift!Ran
<1>2. Inv /\ [Sift!FilterNext]_Sift!filterVars => Inv'
  <2> SUFFICES ASSUME Inv, [Sift!FilterNext]_Sift!filterVars PROVE Inv'
    OBVIOUS
  <2>1. block' = block /\ form' = form
    BY DEF Sift!FilterNext, Sift!Filter, Sift!filterVars
  <2>2. IsBlock' /\ Sift!Reported' = Sift!Reported
    BY <2>1 DEF Sift!Reported
  <2>3. CASE UNCHANGED Sift!filterVars
    <3>1. shipped' = shipped
      BY <2>3 DEF Sift!filterVars
    <3> QED BY <2>1, <2>2, <3>1 DEF Sift!DiagnosticsSurvive, Sift!Ran, Sift!Has
  <2>4. CASE Sift!Filter
    <3> SUFFICES ASSUME form # "file", NEW k \in Sift!Reported PROVE Sift!Has(shipped', k)
      BY <2>1, <2>2 DEF Sift!DiagnosticsSurvive, Sift!Has
    <3>1. PICK n \in Nat : block \in [1 .. n -> Sift!Kinds]
      OBVIOUS
    <3>2. k \in Sift!HardErrors(block)
      BY <3>1, ReportedIs
    <3>3. CASE Sift!Filtered = <<>>
      <4>1. shipped' = [i \in 1 .. Len(block) |-> Sift!Line(block[i])]
        BY <2>4, <3>3 DEF Sift!Filter
      <4> QED BY <3>1, <3>2, <4>1, VerbatimReports
    <3>4. CASE Sift!Filtered # <<>>
      <4>1. shipped' = Sift!Filtered
        BY <2>4, <3>4 DEF Sift!Filter
      <4>2. form \notin {"json", "ndjson"}
        BY DEF Sift!Reported
      <4>3. Sift!Survive(Sift!Filtered)
        BY <3>4, <4>2, OnlyGated
      <4> QED BY <3>2, <4>1, <4>3 DEF Sift!Survive
    <3> QED BY <3>3, <3>4
  <2> QED BY <2>3, <2>4 DEF Sift!FilterNext
<1> QED BY <1>1, <1>2, PTL DEF Sift!FilterSpec, DiagnosticsSurvive

-----------------------------------------------------------------------------
(* OutputCaps: what a request may generate, from its client to its lane.   *)

LEMMA GreatestIs ==
    ASSUME NEW T \in SUBSET Nat, NEW m \in T, \A y \in T : y <= m
    PROVE  Caps!Max(T) = m
<1>1. \A x \in T : (\A y \in T : x >= y) => x = m
  <2> SUFFICES ASSUME NEW x \in T, \A y \in T : x >= y PROVE x = m
    OBVIOUS
  <2> QED OBVIOUS
<1>2. \A y \in T : m >= y
  OBVIOUS
<1> QED BY <1>1, <1>2 DEF Caps!Max

LEMMA MinIs == \A a, b \in Nat : Caps!Min({a, b}) = IF a <= b THEN a ELSE b
<1> SUFFICES ASSUME NEW a \in Nat, NEW b \in Nat
             PROVE  Caps!Min({a, b}) = IF a <= b THEN a ELSE b
  OBVIOUS
<1> DEFINE m == IF a <= b THEN a ELSE b
<1>1. m \in {a, b} /\ \A y \in {a, b} : m =< y
  OBVIOUS
<1>2. \A x \in {a, b} : (\A y \in {a, b} : x =< y) => x = m
  OBVIOUS
<1> HIDE DEF m
<1>3. Caps!Min({a, b}) = m
  BY <1>1, <1>2 DEF Caps!Min
<1> QED BY <1>3 DEF m

LEMMA MaxIs == \A a, b \in Nat : Caps!Max({a, b}) = IF a <= b THEN b ELSE a
  BY GreatestIs

(* Bodies: functions from some option names to numbers.                    *)
IsBody(b) == b \in [DOMAIN b -> Nat]

LEMMA OverIs ==
    ASSUME NEW b, NEW c, IsBody(b), IsBody(c)
    PROVE  LET both == Caps!Over(b, c) IN
           IsBody(both) /\ DOMAIN both = DOMAIN b \union DOMAIN c
BY DEF IsBody, Caps!Over, Caps!Has

LEMMA OverAbove ==
    ASSUME NEW b, NEW c, NEW n \in DOMAIN b
    PROVE  Caps!Over(b, c)[n] = b[n]
BY DEF Caps!Over, Caps!Has

LEMMA OverBelow ==
    ASSUME NEW b, NEW c, NEW n \in DOMAIN c, n \notin DOMAIN b
    PROVE  Caps!Over(b, c)[n] = c[n]
BY DEF Caps!Over, Caps!Has

LEMMA OnlyIs ==
    ASSUME NEW name, NEW value \in Nat
    PROVE  LET only == Caps!Only(name, value) IN
           IsBody(only) /\ DOMAIN only = {name} /\ only[name] = value
BY DEF IsBody, Caps!Only

LEMMA NoneIs == IsBody(Caps!None) /\ DOMAIN Caps!None = {}
BY DEF IsBody, Caps!None

LEMMA RestrictIs ==
    ASSUME NEW b, IsBody(b), NEW names, names \subseteq DOMAIN b
    PROVE  LET part == Caps!Restrict(b, names) IN
           IsBody(part) /\ DOMAIN part = names /\ \A n \in names : part[n] = b[n]
BY DEF IsBody, Caps!Restrict

LEMMA KeepIs ==
    ASSUME NEW b, IsBody(b), NEW names
    PROVE  /\ LET kept == Caps!Keep(b, names) IN
              /\ IsBody(kept) /\ DOMAIN kept = names \intersect DOMAIN b
              /\ \A n \in DOMAIN kept : kept[n] = b[n]
           /\ LET kept == Caps!Without(b, names) IN
              /\ IsBody(kept) /\ DOMAIN kept = DOMAIN b \ names
              /\ \A n \in DOMAIN kept : kept[n] = b[n]
<1>1. names \intersect DOMAIN b \subseteq DOMAIN b /\ DOMAIN b \ names \subseteq DOMAIN b
  OBVIOUS
<1> QED BY <1>1, RestrictIs DEF Caps!Keep, Caps!Without

LEMMA RenamedIs ==
    ASSUME NEW b, IsBody(b), NEW old, NEW new
    PROVE  LET renamed == Caps!Renamed(b, old, new) IN
           /\ IsBody(renamed)
           /\ DOMAIN renamed = IF old \in DOMAIN b THEN {new} ELSE {}
           /\ old \in DOMAIN b => renamed[new] = b[old]
<1>1. old \in DOMAIN b => b[old] \in Nat
  BY DEF IsBody
<1> QED BY <1>1, OnlyIs, NoneIs DEF Caps!Renamed, Caps!Has

LEMMA OrIs ==
    ASSUME NEW b, IsBody(b), NEW name, NEW default \in Nat
    PROVE  /\ Caps!Or(b, name, default) \in Nat
           /\ Caps!Or(b, name, default) = IF name \in DOMAIN b THEN b[name] ELSE default
BY DEF IsBody, Caps!Or, Caps!Has

(* Limits, budgets and ceilings are numbers of tokens.                     *)
Numbers ==
    /\ Values \subseteq Nat /\ Efforts \subseteq Nat /\ Ceilings \subseteq Nat
    /\ PolicyBudget \in Nat /\ MediumEffort \in Nat /\ DefaultOutput \in Nat /\ DefaultBudget \in Nat

CapsIn(b) == Caps!CapNames \intersect DOMAIN b
Thought == "thinking.budget_tokens"

(* A body that has not met the wire: what the dialect allows, no budget of *)
(* the Claude wire yet.                                                    *)
Unthought(b) == IsBody(b) /\ Thought \notin DOMAIN b

(* The one cap of a body is v.                                             *)
OneCap(b, v) == \E c \in Caps!CapNames : CapsIn(b) = {c} /\ b[c] = v

(* A thinking budget fits its body's cap, and does until a ceiling lowers  *)
(* the cap.                                                                *)
Fits(b) ==
    Thought \in DOMAIN b =>
        "max_tokens" \in DOMAIN b /\ b[Thought] <= Caps!Max({b["max_tokens"], 1})
FitsUnder(b, ceiling) ==
    Thought \in DOMAIN b =>
        /\ "max_tokens" \in DOMAIN b
        /\ b[Thought] <= Caps!Max({b["max_tokens"], 1}) \/ b["max_tokens"] = ceiling

LEMMA UnderPolicyIs ==
    ASSUME Numbers, lane.policy \in Caps!Policies, NEW b, Unthought(b)
    PROVE  LET under == Caps!UnderPolicy(b) IN
           /\ Unthought(under) /\ CapsIn(under) = CapsIn(b)
           /\ \A n \in CapsIn(b) : under[n] = b[n]
<1> DEFINE under == Caps!UnderPolicy(b)
<1>1. IsBody(b) /\ Thought \notin DOMAIN b
  BY DEF Unthought
<1>2. CASE lane.policy = "passthrough"
  <2>1. under = b
    BY <1>2 DEF Caps!UnderPolicy
  <2> QED BY <2>1
<1>3. CASE lane.policy = "auto"
  <2> DEFINE gone == Caps!ReasoningNames \union {"reasoning_effort", "thinking"}
  <2>1. under = Caps!Without(b, gone)
    BY <1>3 DEF Caps!UnderPolicy
  <2>2. gone \intersect Caps!CapNames = {}
    BY DEF Caps!ReasoningNames, Caps!CapNames
  <2> HIDE DEF gone, under
  <2>3. /\ IsBody(under) /\ DOMAIN under = DOMAIN b \ gone
        /\ \A n \in DOMAIN under : under[n] = b[n]
    BY <1>1, <2>1, KeepIs
  <2> QED BY <1>1, <2>2, <2>3 DEF Unthought, CapsIn, under
<1>4. CASE lane.policy = "custom"
  <2> DEFINE budget == Caps!Only("reasoning_budget", PolicyBudget)
             effort == Caps!Only("reasoning_effort", MediumEffort)
             inner == Caps!Over(b, effort)
  <2>1. under = Caps!Over(budget, inner)
    BY <1>4 DEF Caps!UnderPolicy
  <2>2. /\ IsBody(budget) /\ DOMAIN budget = {"reasoning_budget"}
        /\ IsBody(effort) /\ DOMAIN effort = {"reasoning_effort"}
    BY OnlyIs DEF Numbers
  <2> HIDE DEF budget, effort
  <2>3. /\ IsBody(inner) /\ DOMAIN inner = DOMAIN b \union {"reasoning_effort"}
        /\ \A n \in DOMAIN b : inner[n] = b[n]
    <3>1. IsBody(b) /\ IsBody(effort)
      BY <1>1, <2>2
    <3>2. DOMAIN inner = DOMAIN b \union DOMAIN effort
      BY <3>1, OverIs, OverAbove
    <3> QED BY <2>2, <3>1, <3>2, OverIs, OverAbove
  <2> HIDE DEF inner, under
  <2>4. /\ IsBody(under) /\ DOMAIN under = {"reasoning_budget"} \union DOMAIN inner
        /\ \A n \in DOMAIN inner \ {"reasoning_budget"} : under[n] = inner[n]
    <3>1. DOMAIN under = DOMAIN budget \union DOMAIN inner
      BY <2>1, <2>2, <2>3, OverIs, OverAbove
    <3>2. \A n \in DOMAIN inner \ DOMAIN budget : under[n] = inner[n]
      BY <2>1, OverBelow
    <3>3. IsBody(under)
      BY <2>1, <2>2, <2>3, OverIs, OverAbove
    <3> QED BY <2>2, <3>1, <3>2, <3>3
  <2>5. Thought \notin DOMAIN under
    BY <1>1, <2>3, <2>4 DEF Thought
  <2>6. CapsIn(under) = CapsIn(b)
    BY <2>3, <2>4 DEF CapsIn, Caps!CapNames
  <2>7. \A n \in CapsIn(b) : under[n] = b[n]
    BY <2>2, <2>3, <2>4 DEF CapsIn, Caps!CapNames
  <2> QED BY <2>4, <2>5, <2>6, <2>7 DEF Unthought, under
<1> QED BY <1>2, <1>3, <1>4 DEF Caps!Policies

(* In chat form the client's own cap is max_tokens.                        *)
LEMMA ToChatIs ==
    ASSUME Numbers, client \in Caps!Clients, NEW b, Unthought(b),
           CapsIn(b) \subseteq Caps!CapsOf(client)
    PROVE  LET chat == Caps!ToChat(b) IN
           /\ Unthought(chat)
           /\ CapsIn(chat) \subseteq {"max_tokens", "max_completion_tokens"}
           /\ CapsIn(b) = {Caps!OwnCap(client)} =>
                /\ CapsIn(chat) = {"max_tokens"}
                /\ chat["max_tokens"] = b[Caps!OwnCap(client)]
<1> DEFINE chat == Caps!ToChat(b)
<1>1. IsBody(b) /\ Thought \notin DOMAIN b
  BY DEF Unthought
<1>2. CASE client = "openai"
  <2>1. chat = b /\ Caps!OwnCap(client) = "max_tokens"
        /\ Caps!CapsOf(client) = {"max_tokens", "max_completion_tokens"}
    BY <1>2 DEF Caps!ToChat, Caps!OwnCap, Caps!CapsOf
  <2> QED BY <1>1, <2>1 DEF Unthought, CapsIn
<1>3. CASE client = "claude"
  <2> DEFINE deep == Caps!Or(b, "max_completion_tokens", DefaultOutput)
             cap == Caps!Or(b, "max_tokens", deep)
             top == Caps!Only("max_tokens", cap)
             on == IF Caps!Has(b, "thinking") THEN Caps!Only("reasoning", 1) ELSE Caps!None
             budget == Caps!Renamed(b, "thinking", "reasoning.max_tokens")
             rest == Caps!Over(on, budget)
  <2>1. chat = Caps!Over(top, rest) /\ Caps!OwnCap(client) = "max_tokens"
    BY <1>3 DEF Caps!ToChat, Caps!FromClaude, Caps!OwnCap
  <2>2. deep \in Nat
    BY <1>1, OrIs DEF Numbers
  <2> HIDE DEF deep
  <2>3. cap \in Nat /\ cap = IF "max_tokens" \in DOMAIN b THEN b["max_tokens"] ELSE deep
    BY <1>1, <2>2, OrIs
  <2> HIDE DEF cap
  <2>4. IsBody(top) /\ DOMAIN top = {"max_tokens"} /\ top["max_tokens"] = cap
    BY <2>3, OnlyIs
  <2>5. IsBody(on) /\ DOMAIN on \subseteq {"reasoning"}
    BY OnlyIs, NoneIs
  <2>6. IsBody(budget) /\ DOMAIN budget \subseteq {"reasoning.max_tokens"}
    BY <1>1, RenamedIs
  <2> HIDE DEF top, on, budget
  <2>7. IsBody(rest) /\ DOMAIN rest \subseteq {"reasoning", "reasoning.max_tokens"}
    <3>1. IsBody(rest) /\ DOMAIN rest = DOMAIN on \union DOMAIN budget
      BY <2>5, <2>6, OverIs, OverAbove
    <3> QED BY <2>5, <2>6, <3>1
  <2> HIDE DEF rest, chat
  <2>8. /\ IsBody(chat) /\ DOMAIN chat = {"max_tokens"} \union DOMAIN rest
        /\ chat["max_tokens"] = cap
    BY <2>1, <2>4, <2>7, OverIs, OverAbove
  <2>9. Thought \notin DOMAIN chat
    BY <2>7, <2>8 DEF Thought
  <2>10. CapsIn(chat) = {"max_tokens"}
    BY <2>7, <2>8 DEF CapsIn, Caps!CapNames
  <2>11. CapsIn(b) = {"max_tokens"} => cap = b["max_tokens"]
    BY <2>3 DEF CapsIn
  <2> QED BY <2>1, <2>8, <2>9, <2>10, <2>11 DEF Unthought, chat
<1>4. CASE client = "responses"
  <2> DEFINE top == Caps!Renamed(b, "max_output_tokens", "max_tokens")
             kept == Caps!Keep(b, Caps!ReasoningNames)
             effort == Caps!Renamed(b, "reasoning.effort", "reasoning_effort")
             rest == Caps!Over(kept, effort)
  <2>1. chat = Caps!Over(top, rest) /\ Caps!OwnCap(client) = "max_output_tokens"
    BY <1>4 DEF Caps!ToChat, Caps!FromResponses, Caps!OwnCap
  <2>2. /\ IsBody(top)
        /\ DOMAIN top = IF "max_output_tokens" \in DOMAIN b THEN {"max_tokens"} ELSE {}
        /\ "max_output_tokens" \in DOMAIN b => top["max_tokens"] = b["max_output_tokens"]
    BY <1>1, RenamedIs
  <2>3. IsBody(kept) /\ DOMAIN kept \subseteq Caps!ReasoningNames
    <3>1. IsBody(kept) /\ DOMAIN kept = Caps!ReasoningNames \intersect DOMAIN b
      BY <1>1, KeepIs
    <3> QED BY <3>1
  <2>4. IsBody(effort) /\ DOMAIN effort \subseteq {"reasoning_effort"}
    BY <1>1, RenamedIs
  <2> HIDE DEF top, kept, effort
  <2>5. IsBody(rest) /\ DOMAIN rest \subseteq Caps!ReasoningNames \union {"reasoning_effort"}
    BY <2>3, <2>4, OverIs, OverAbove
  <2> HIDE DEF rest, chat
  <2>6. /\ IsBody(chat) /\ DOMAIN chat = DOMAIN top \union DOMAIN rest
        /\ \A n \in DOMAIN top : chat[n] = top[n]
    BY <2>1, <2>2, <2>5, OverIs, OverAbove
  <2>7. Thought \notin DOMAIN chat
    BY <2>2, <2>5, <2>6 DEF Thought, Caps!ReasoningNames
  <2>8. CapsIn(chat) = DOMAIN top
    BY <2>2, <2>5, <2>6 DEF CapsIn, Caps!CapNames, Caps!ReasoningNames
  <2>9. CapsIn(b) = {"max_output_tokens"} => "max_output_tokens" \in DOMAIN b
    BY DEF CapsIn
  <2> QED BY <2>1, <2>2, <2>6, <2>7, <2>8, <2>9 DEF Unthought, chat
<1> QED BY <1>2, <1>3, <1>4 DEF Caps!Clients

LEMMA BudgetIs ==
    ASSUME Numbers, NEW b, IsBody(b)
    PROVE  Caps!Budget(b) \in Nat
<1> DEFINE o1 == Caps!Or(b, "max_completion_tokens", DefaultBudget)
           o2 == Caps!Or(b, "reasoning.effort", o1)
           o3 == Caps!Or(b, "reasoning_budget", o2)
           o4 == Caps!Or(b, "reasoning.max_tokens", o3)
           o5 == Caps!Or(b, "reasoning_effort", DefaultBudget)
           o6 == Caps!Or(b, "reasoning_budget", o5)
<1>1. o1 \in Nat /\ o5 \in Nat
  BY OrIs DEF Numbers
<1> HIDE DEF o1, o5
<1>2. o2 \in Nat /\ o6 \in Nat
  BY <1>1, OrIs
<1> HIDE DEF o2
<1>3. o3 \in Nat
  BY <1>2, OrIs
<1> HIDE DEF o3
<1>4. o4 \in Nat
  BY <1>3, OrIs
<1>5. Caps!Budget(b) \in {o4, o6}
  BY DEF Caps!Budget, o1, o2, o3, o5
<1> QED BY <1>2, <1>4, <1>5

(* The wire takes the one cap over, and what it adds to it fits.           *)
LEMMA ToWireIs ==
    ASSUME Numbers, lane.wire \in Caps!Wires, NEW b, Unthought(b)
    PROVE  LET wired == Caps!ToWire(b) IN
           /\ IsBody(wired) /\ Fits(wired)
           /\ CapsIn(b) = {"max_tokens"} => OneCap(wired, b["max_tokens"])
           /\ lane.wire = "go" => wired = b
<1> DEFINE wired == Caps!ToWire(b)
<1>1. IsBody(b) /\ Thought \notin DOMAIN b
  BY DEF Unthought
<1>2. CASE lane.wire \in {"openai", "go"}
  <2>1. wired = b
    BY <1>2 DEF Caps!ToWire
  <2> QED BY <1>1, <2>1 DEF Fits, OneCap, Caps!CapNames
<1>3. CASE lane.wire = "claude"
  <2> DEFINE cap == Caps!Or(b, "max_tokens", DefaultOutput)
             most == Caps!Max({cap, 1})
             least == Caps!Min({Caps!Budget(b), most})
             top == Caps!Only("max_tokens", cap)
             rest == IF Caps!Thinks(b) THEN Caps!Only(Thought, least) ELSE Caps!None
  <2>1. wired = Caps!Over(top, rest)
    BY <1>3 DEF Caps!ToWire, Caps!ToClaude, Thought
  <2>2. cap \in Nat /\ cap = IF "max_tokens" \in DOMAIN b THEN b["max_tokens"] ELSE DefaultOutput
    BY <1>1, OrIs DEF Numbers
  <2> HIDE DEF cap
  <2>3. most \in Nat
    BY <2>2, MaxIs
  <2> HIDE DEF most
  <2>4. least \in Nat /\ least <= most
    BY <1>1, <2>3, BudgetIs, MinIs
  <2> HIDE DEF least
  <2>5. IsBody(top) /\ DOMAIN top = {"max_tokens"} /\ top["max_tokens"] = cap
    BY <2>2, OnlyIs
  <2>6. IsBody(rest) /\ DOMAIN rest \subseteq {Thought}
        /\ (Thought \in DOMAIN rest => rest[Thought] = least)
    BY <2>4, OnlyIs, NoneIs
  <2> HIDE DEF top, rest, wired
  <2>7. /\ IsBody(wired) /\ DOMAIN wired = DOMAIN top \union DOMAIN rest
        /\ \A n \in DOMAIN top : wired[n] = top[n]
        /\ \A n \in DOMAIN rest \ DOMAIN top : wired[n] = rest[n]
    <3>1. \A n \in DOMAIN top : wired[n] = top[n]
      BY <2>1, OverAbove
    <3>2. \A n \in DOMAIN rest \ DOMAIN top : wired[n] = rest[n]
      BY <2>1, OverBelow
    <3>3. IsBody(wired) /\ DOMAIN wired = DOMAIN top \union DOMAIN rest
      BY <2>1, <2>5, <2>6, OverIs, OverAbove
    <3> QED BY <3>1, <3>2, <3>3
  <2>8. CapsIn(wired) = {"max_tokens"} /\ wired["max_tokens"] = cap
    BY <2>5, <2>6, <2>7 DEF CapsIn, Caps!CapNames, Thought
  <2>9. Thought \in DOMAIN wired => wired[Thought] <= Caps!Max({cap, 1})
    BY <2>4, <2>5, <2>6, <2>7 DEF most, Thought
  <2>10. Fits(wired)
    BY <2>5, <2>7, <2>8, <2>9 DEF Fits
  <2>11. CapsIn(b) = {"max_tokens"} => cap = b["max_tokens"]
    BY <2>2 DEF CapsIn
  <2>12. CapsIn(b) = {"max_tokens"} => OneCap(wired, b["max_tokens"])
    BY <2>8, <2>11 DEF OneCap, Caps!CapNames
  <2> QED BY <1>3, <2>7, <2>10, <2>12 DEF wired
<1>4. CASE lane.wire = "gemini"
  <2> DEFINE deep == "generationConfig.maxOutputTokens"
             top == Caps!Renamed(b, "max_tokens", deep)
             rest == IF /\ Caps!Thinks(b)
                        /\ Caps!Has(b, "reasoning") =>
                             \E n \in {"reasoning.max_tokens", "reasoning_budget",
                                       "reasoning.effort"} : Caps!Has(b, n)
                     THEN Caps!Only("thinkingConfig.thinkingBudget", Caps!Budget(b)) ELSE Caps!None
  <2>1. wired = Caps!Over(top, rest)
    BY <1>4 DEF Caps!ToWire, Caps!ToGemini
  <2>2. /\ IsBody(top) /\ DOMAIN top = IF "max_tokens" \in DOMAIN b THEN {deep} ELSE {}
        /\ "max_tokens" \in DOMAIN b => top[deep] = b["max_tokens"]
    BY <1>1, RenamedIs
  <2>3. IsBody(rest) /\ DOMAIN rest \subseteq {"thinkingConfig.thinkingBudget"}
    BY <1>1, BudgetIs, OnlyIs, NoneIs
  <2> HIDE DEF top, rest, wired
  <2>4. /\ IsBody(wired) /\ DOMAIN wired = DOMAIN top \union DOMAIN rest
        /\ \A n \in DOMAIN top : wired[n] = top[n]
    BY <2>1, <2>2, <2>3, OverIs, OverAbove
  <2>5. Thought \notin DOMAIN wired /\ CapsIn(wired) = DOMAIN top
    BY <2>2, <2>3, <2>4 DEF CapsIn, Caps!CapNames, Thought
  <2>6. CapsIn(b) = {"max_tokens"} => OneCap(wired, b["max_tokens"])
    <3> SUFFICES ASSUME CapsIn(b) = {"max_tokens"} PROVE OneCap(wired, b["max_tokens"])
      OBVIOUS
    <3>1. "max_tokens" \in DOMAIN b
      BY DEF CapsIn
    <3>2. CapsIn(wired) = {deep} /\ wired[deep] = b["max_tokens"] /\ deep \in Caps!CapNames
      BY <2>2, <2>4, <2>5, <3>1 DEF Caps!CapNames
    <3> QED BY <3>2 DEF OneCap
  <2> QED BY <1>4, <2>4, <2>5, <2>6 DEF Fits, wired
<1>5. CASE lane.wire = "responses"
  <2> DEFINE top == Caps!Renamed(b, "max_tokens", "max_output_tokens")
             kept == Caps!Keep(b, Caps!ReasoningNames)
             effort == Caps!Renamed(b, "reasoning_effort", "reasoning.effort")
             rest == IF Caps!Has(b, "reasoning") THEN kept ELSE effort
  <2>1. wired = Caps!Over(top, rest)
    BY <1>5 DEF Caps!ToWire, Caps!ToResponses
  <2>2. /\ IsBody(top)
        /\ DOMAIN top = IF "max_tokens" \in DOMAIN b THEN {"max_output_tokens"} ELSE {}
        /\ "max_tokens" \in DOMAIN b => top["max_output_tokens"] = b["max_tokens"]
    BY <1>1, RenamedIs
  <2>3. IsBody(kept) /\ DOMAIN kept = Caps!ReasoningNames \intersect DOMAIN b
    BY <1>1, KeepIs
  <2>4. IsBody(effort) /\ DOMAIN effort \subseteq {"reasoning.effort"}
    BY <1>1, RenamedIs
  <2> HIDE DEF top, kept, effort
  <2>5. IsBody(rest) /\ DOMAIN rest \subseteq Caps!ReasoningNames
    BY <2>3, <2>4 DEF Caps!ReasoningNames
  <2> HIDE DEF rest, wired
  <2>6. /\ IsBody(wired) /\ DOMAIN wired = DOMAIN top \union DOMAIN rest
        /\ \A n \in DOMAIN top : wired[n] = top[n]
    BY <2>1, <2>2, <2>5, OverIs, OverAbove
  <2>7. Thought \notin DOMAIN wired /\ CapsIn(wired) = DOMAIN top
    BY <2>2, <2>5, <2>6 DEF CapsIn, Caps!CapNames, Caps!ReasoningNames, Thought
  <2>8. CapsIn(b) = {"max_tokens"} => OneCap(wired, b["max_tokens"])
    <3> SUFFICES ASSUME CapsIn(b) = {"max_tokens"} PROVE OneCap(wired, b["max_tokens"])
      OBVIOUS
    <3>1. "max_tokens" \in DOMAIN b
      BY DEF CapsIn
    <3>2. /\ CapsIn(wired) = {"max_output_tokens"}
          /\ wired["max_output_tokens"] = b["max_tokens"]
      BY <2>2, <2>6, <2>7, <3>1
    <3> QED BY <3>2 DEF OneCap, Caps!CapNames
  <2> QED BY <1>5, <2>6, <2>7, <2>8 DEF Fits, wired
<1> QED BY <1>2, <1>3, <1>4, <1>5 DEF Caps!Wires

(* The clamp keeps the caps and lowers what is above the ceiling.          *)
LEMMA ClampedIs ==
    ASSUME lane.ceiling \in Nat, NEW b, IsBody(b)
    PROVE  LET clamped == Caps!Clamped(b) IN
           /\ IsBody(clamped) /\ CapsIn(clamped) = CapsIn(b)
           /\ \A n \in CapsIn(clamped) : clamped[n] <= lane.ceiling
           /\ \A v \in Nat : OneCap(b, v) => OneCap(clamped, Caps!Min({v, lane.ceiling}))
           /\ Fits(b) => FitsUnder(clamped, lane.ceiling)
<1> DEFINE clamped == Caps!Clamped(b)
<1>1. \A n \in DOMAIN b : b[n] \in Nat
  BY DEF IsBody
<1>2. \A n \in DOMAIN b : Caps!Min({b[n], lane.ceiling}) =
        IF b[n] <= lane.ceiling THEN b[n] ELSE lane.ceiling
  BY <1>1, MinIs
<1>3. /\ clamped = [n \in DOMAIN b |-> IF n \in Caps!CapNames
                                       THEN Caps!Min({b[n], lane.ceiling}) ELSE b[n]]
  BY DEF Caps!Clamped
<1> HIDE DEF clamped
<1>4. /\ DOMAIN clamped = DOMAIN b
      /\ \A n \in DOMAIN b : clamped[n] = IF n \in Caps!CapNames
                                          THEN Caps!Min({b[n], lane.ceiling}) ELSE b[n]
  BY <1>3
<1>5. IsBody(clamped)
  <2>1. \A n \in DOMAIN b : clamped[n] \in Nat
    BY <1>1, <1>2, <1>4
  <2>2. clamped \in [DOMAIN b -> Nat]
    BY <1>3, <1>4, <2>1
  <2> QED BY <1>4, <2>2 DEF IsBody
<1>6. CapsIn(clamped) = CapsIn(b) /\ \A n \in CapsIn(clamped) : clamped[n] <= lane.ceiling
  <2>1. CapsIn(clamped) = CapsIn(b)
    BY <1>4 DEF CapsIn
  <2> SUFFICES ASSUME NEW n \in CapsIn(b) PROVE clamped[n] <= lane.ceiling
    BY <2>1
  <2>2. n \in DOMAIN b /\ n \in Caps!CapNames /\ b[n] \in Nat
    BY <1>1 DEF CapsIn
  <2>3. clamped[n] = Caps!Min({b[n], lane.ceiling})
    BY <1>4, <2>2
  <2>4. Caps!Min({b[n], lane.ceiling}) <= lane.ceiling
    BY <1>2, <2>2
  <2> QED BY <2>3, <2>4
<1>7. ASSUME NEW v \in Nat, OneCap(b, v) PROVE OneCap(clamped, Caps!Min({v, lane.ceiling}))
  BY <1>4, <1>6, <1>7 DEF OneCap, CapsIn
<1>8. ASSUME Fits(b) PROVE FitsUnder(clamped, lane.ceiling)
  <2> SUFFICES ASSUME Thought \in DOMAIN clamped
               PROVE  /\ "max_tokens" \in DOMAIN clamped
                      /\ \/ clamped[Thought] <= Caps!Max({clamped["max_tokens"], 1})
                         \/ clamped["max_tokens"] = lane.ceiling
    BY DEF FitsUnder
  <2>1. "max_tokens" \in DOMAIN b /\ b[Thought] <= Caps!Max({b["max_tokens"], 1})
    BY <1>4, <1>8 DEF Fits
  <2>2. clamped[Thought] = b[Thought]
    BY <1>4 DEF Thought, Caps!CapNames
  <2>3. clamped["max_tokens"] = b["max_tokens"] \/ clamped["max_tokens"] = lane.ceiling
    BY <1>2, <1>4, <2>1 DEF Caps!CapNames
  <2> QED BY <1>4, <2>1, <2>2, <2>3
<1> QED BY <1>5, <1>6, <1>7, <1>8 DEF clamped

(* The Go tier's body has the chat caps above zero, and no other option's  *)
(* budget.                                                                 *)
LEMMA ForGoIs ==
    ASSUME NEW b, IsBody(b), CapsIn(b) \subseteq {"max_tokens", "max_completion_tokens"}
    PROVE  LET go == Caps!ForGo(b) IN
           /\ Unthought(go) /\ CapsIn(go) \subseteq CapsIn(b)
           /\ \A n \in CapsIn(go) : go[n] = b[n]
           /\ \A v \in Nat : OneCap(b, v) => OneCap(go, v) \/ (CapsIn(go) = {} /\ v = 0)
<1> DEFINE known == {"max_tokens", "max_completion_tokens", "reasoning_effort"}
           kept == Caps!Keep(b, known)
           effort == Caps!Renamed(b, "reasoning.effort", "reasoning_effort")
           flat == Caps!Over(kept, effort)
           refused == {n \in CapsIn(flat) : flat[n] < 1}
           go == Caps!Without(flat, refused)
<1>1. Caps!ForGo(b) = go
  BY DEF Caps!ForGo, CapsIn
<1>2. /\ IsBody(kept) /\ DOMAIN kept = known \intersect DOMAIN b
      /\ \A n \in DOMAIN kept : kept[n] = b[n]
  BY KeepIs
<1>3. IsBody(effort) /\ DOMAIN effort \subseteq {"reasoning_effort"}
  BY RenamedIs
<1> HIDE DEF kept, effort
<1>4. /\ IsBody(flat) /\ DOMAIN flat = DOMAIN kept \union DOMAIN effort
      /\ \A n \in DOMAIN kept : flat[n] = kept[n]
  BY <1>2, <1>3, OverIs, OverAbove
<1> HIDE DEF flat
<1>5. /\ IsBody(go) /\ DOMAIN go = DOMAIN flat \ refused
      /\ \A n \in DOMAIN go : go[n] = flat[n]
  BY <1>4, KeepIs
<1>6. CapsIn(flat) = CapsIn(b) /\ \A n \in CapsIn(b) : flat[n] = b[n] /\ b[n] \in Nat
  <2>1. CapsIn(flat) = CapsIn(b)
    BY <1>2, <1>3, <1>4 DEF CapsIn, Caps!CapNames
  <2>2. \A n \in CapsIn(b) : n \in DOMAIN kept
    BY <1>2 DEF CapsIn
  <2> QED BY <1>2, <1>4, <2>1, <2>2 DEF IsBody, CapsIn
<1>7. \A n \in CapsIn(b) : n \in refused <=> b[n] < 1
  BY <1>6
<1>8. refused \subseteq CapsIn(b)
  BY <1>6
<1> HIDE DEF refused, go
<1>9. CapsIn(go) = CapsIn(b) \ refused
  BY <1>5, <1>6 DEF CapsIn
<1>10. \A n \in CapsIn(go) : go[n] = b[n]
  BY <1>5, <1>6, <1>9 DEF CapsIn
<1>11. Thought \notin DOMAIN go
  BY <1>2, <1>3, <1>4, <1>5 DEF Thought
<1>12. ASSUME NEW v \in Nat, OneCap(b, v)
       PROVE  OneCap(go, v) \/ (CapsIn(go) = {} /\ v = 0)
  <2>1. PICK c \in Caps!CapNames : CapsIn(b) = {c} /\ b[c] = v
    BY <1>12 DEF OneCap
  <2>2. CASE c \in refused
    BY <1>7, <1>9, <2>1, <2>2
  <2>3. CASE c \notin refused
    BY <1>9, <1>10, <2>1, <2>3 DEF OneCap
  <2> QED BY <2>2, <2>3
<1> QED BY <1>1, <1>5, <1>9, <1>10, <1>11, <1>12 DEF Unthought

(* What is reserved is a cap of the body, or nothing.                      *)
LEMMA ReservedIs ==
    ASSUME IsBody(body)
    PROVE  /\ Caps!Reserved = 0 \/ \E n \in CapsIn(body) : Caps!Reserved = body[n]
           /\ \A v \in Nat : OneCap(body, v) => Caps!Reserved = v
           /\ CapsIn(body) = {} => Caps!Reserved = 0
<1> DEFINE T == {0} \union {body[n] : n \in CapsIn(body)}
<1>1. Caps!Reserved = Caps!Max(T)
  BY DEF Caps!Reserved, CapsIn
<1>2. \A n \in CapsIn(body) : body[n] \in Nat
  BY DEF IsBody, CapsIn
<1>3. T \in SUBSET Nat
  BY <1>2
<1>4. \E m \in T : \A y \in T : y <= m
  <2> DEFINE size(n) == IF n \in CapsIn(body) THEN body[n] ELSE 0
             s1 == size("max_tokens")
             s2 == size("max_completion_tokens")
             s3 == size("max_output_tokens")
             s4 == size("generationConfig.maxOutputTokens")
  <2>1. s1 \in Nat /\ s2 \in Nat /\ s3 \in Nat /\ s4 \in Nat
    BY <1>2
  <2>2. /\ s1 \in T /\ s2 \in T /\ s3 \in T /\ s4 \in T /\ 0 \in T
    OBVIOUS
  <2>3. \A y \in T : y \in {0, s1, s2, s3, s4}
    BY DEF CapsIn, Caps!CapNames
  <2> HIDE DEF s1, s2, s3, s4, T
  <2>4. \E m \in {0, s1, s2, s3, s4} : 0 <= m /\ s1 <= m /\ s2 <= m /\ s3 <= m /\ s4 <= m
    <3> DEFINE a == IF s1 <= s2 THEN s2 ELSE s1
               c == IF s3 <= s4 THEN s4 ELSE s3
               m == IF a <= c THEN c ELSE a
    <3>1. m \in {0, s1, s2, s3, s4} /\ 0 <= m /\ s1 <= m /\ s2 <= m /\ s3 <= m /\ s4 <= m
      BY <2>1
    <3> QED BY <3>1
  <2> QED BY <2>2, <2>3, <2>4
<1>5. Caps!Max(T) \in T
  <2>1. PICK m \in T : \A y \in T : y <= m
    BY <1>4
  <2> HIDE DEF T
  <2>2. Caps!Max(T) = m
    BY <1>3, <2>1, GreatestIs
  <2> QED BY <2>2
<1>6. ASSUME NEW v \in Nat, OneCap(body, v) PROVE Caps!Reserved = v
  <2>1. T = {0, v}
    BY <1>6 DEF OneCap
  <2> HIDE DEF T
  <2>2. Caps!Max({0, v}) = v
    BY MaxIs
  <2> QED BY <1>1, <2>1, <2>2
<1>7. ASSUME CapsIn(body) = {} PROVE Caps!Reserved = 0
  BY <1>1, <1>5, <1>7
<1> QED BY <1>1, <1>5, <1>6, <1>7

(* A client's options, and the options its dialect has.                    *)
LEMMA ReasoningsAre ==
    ASSUME Numbers, NEW dialect \in Caps!Clients, NEW thought \in Caps!Reasonings(dialect)
    PROVE  Unthought(thought) /\ CapsIn(thought) = {}
<1> DEFINE names == {"reasoning_effort", "reasoning", "reasoning.effort",
                     "reasoning.max_tokens", "thinking"}
<1>1. ASSUME NEW on \in {0, 1}, NEW name \in names, NEW value \in Nat
      PROVE  LET both == Caps!Over(Caps!Only("reasoning", on), Caps!Only(name, value)) IN
             IsBody(both) /\ DOMAIN both \subseteq names
  <2> DEFINE a == Caps!Only("reasoning", on)
             b == Caps!Only(name, value)
             both == Caps!Over(a, b)
  <2>1. IsBody(a) /\ DOMAIN a = {"reasoning"} /\ IsBody(b) /\ DOMAIN b = {name}
    <3>1. on \in Nat
      OBVIOUS
    <3> QED BY <3>1, OnlyIs
  <2> HIDE DEF a, b
  <2>2. IsBody(both) /\ DOMAIN both = DOMAIN a \union DOMAIN b
    BY <2>1, OverIs
  <2> QED BY <2>1, <2>2 DEF a, b
<1>2. \/ thought = Caps!None
      \/ \E name \in names, value \in Nat : thought = Caps!Only(name, value)
      \/ \E on \in {0, 1}, name \in names, value \in Nat :
            thought = Caps!Over(Caps!Only("reasoning", on), Caps!Only(name, value))
  BY DEF Numbers, Caps!Reasonings, Caps!Clients
<1>3. IsBody(thought) /\ DOMAIN thought \subseteq names
  <2>1. CASE thought = Caps!None
    BY <2>1, NoneIs
  <2>2. CASE \E name \in names, value \in Nat : thought = Caps!Only(name, value)
    <3>1. PICK name \in names, value \in Nat : thought = Caps!Only(name, value)
      BY <2>2
    <3>2. IsBody(thought) /\ DOMAIN thought = {name}
      BY <3>1, OnlyIs
    <3> QED BY <3>2
  <2>3. CASE \E on \in {0, 1}, name \in names, value \in Nat :
                thought = Caps!Over(Caps!Only("reasoning", on), Caps!Only(name, value))
    BY <1>1, <2>3
  <2> QED BY <1>2, <2>1, <2>2, <2>3
<1> QED BY <1>3 DEF Unthought, CapsIn, Caps!CapNames, Thought

LEMMA AskedIs ==
    ASSUME Numbers, Caps!CapsInit
    PROVE  Unthought(options) /\ CapsIn(options) \subseteq Caps!CapsOf(client)
<1>1. client \in Caps!Clients
  BY DEF Caps!CapsInit
<1>2. PICK limit \in Caps!Limits(client), thought \in Caps!Reasonings(client) :
        options = Caps!Over(limit, thought)
  BY DEF Caps!CapsInit
<1>3. PICK names \in SUBSET Caps!CapsOf(client) : limit \in [names -> Values]
  BY DEF Caps!Limits
<1>4. IsBody(limit) /\ DOMAIN limit \subseteq Caps!CapsOf(client)
  BY <1>3 DEF IsBody, Numbers
<1>5. Unthought(thought) /\ CapsIn(thought) = {} /\ IsBody(thought)
  BY <1>1, ReasoningsAre DEF Unthought
<1>6. IsBody(options) /\ DOMAIN options = DOMAIN limit \union DOMAIN thought
  BY <1>2, <1>4, <1>5, OverIs
<1>7. Caps!CapsOf(client) \subseteq Caps!CapNames /\ Thought \notin Caps!CapsOf(client)
  BY <1>1 DEF Caps!CapsOf, Caps!OwnCap, Caps!Clients, Caps!CapNames, Thought
<1> QED BY <1>4, <1>5, <1>6, <1>7 DEF Unthought, CapsIn

(* The client names its cap in its own dialect's way.                      *)
Named == CapsIn(options) = {Caps!OwnCap(client)}
Limit == options[Caps!OwnCap(client)]

(* Until it is translated the body has the client's caps; from then on it  *)
(* has the one the client named, whatever its name has become, lowered to  *)
(* the ceiling by the clamp, and left out only where the Go tier refuses   *)
(* it and nothing was asked for.                                           *)
CapsInv ==
    /\ client \in Caps!Clients
    /\ lane.wire \in Caps!Wires /\ lane.policy \in Caps!Policies /\ lane.ceiling \in Nat
    /\ Unthought(options) /\ CapsIn(options) \subseteq Caps!CapsOf(client)
    /\ IsBody(body)
    /\ step \in {"asked", "judged"} =>
        /\ Unthought(body) /\ CapsIn(body) = CapsIn(options)
        /\ \A n \in CapsIn(body) : body[n] = options[n]
    /\ step \in {"translated", "clamped"} /\ lane.wire = "go" =>
            CapsIn(body) \subseteq {"max_tokens", "max_completion_tokens"}
    /\ step = "translated" => Fits(body) /\ (Named => OneCap(body, Limit))
    /\ step \in {"clamped", "sent"} =>
        /\ FitsUnder(body, lane.ceiling)
        /\ \A n \in CapsIn(body) : body[n] <= lane.ceiling
    /\ step = "clamped" /\ Named => OneCap(body, Caps!Min({Limit, lane.ceiling}))
    /\ step = "sent" /\ Named =>
        \/ OneCap(body, Caps!Min({Limit, lane.ceiling}))
        \/ CapsIn(body) = {} /\ Caps!Min({Limit, lane.ceiling}) = 0

LEMMA CapsStart == ASSUME Numbers, Caps!CapsInit PROVE CapsInv
<1>1. Unthought(options) /\ CapsIn(options) \subseteq Caps!CapsOf(client)
  BY AskedIs
<1>2. /\ client \in Caps!Clients /\ body = options /\ step = "asked"
      /\ lane.wire \in Caps!Wires /\ lane.policy \in Caps!Policies /\ lane.ceiling \in Nat
  <2>1. lane \in [wire : Caps!Wires, ceiling : Ceilings, policy : Caps!Policies]
    BY DEF Caps!CapsInit
  <2>2. lane.wire \in Caps!Wires /\ lane.policy \in Caps!Policies /\ lane.ceiling \in Ceilings
    BY <2>1
  <2>3. lane.ceiling \in Nat
    BY <2>2 DEF Numbers
  <2>4. client \in Caps!Clients /\ body = options /\ step = "asked"
    BY DEF Caps!CapsInit
  <2> QED BY <2>2, <2>3, <2>4
<1> QED BY <1>1, <1>2 DEF CapsInv, Unthought

LEMMA LimitIs ==
    ASSUME CapsInv, Named
    PROVE  Limit \in Nat /\ Caps!Judged = Caps!Min({Limit, lane.ceiling})
<1> DEFINE own == Caps!OwnCap(client)
<1>1. own \in {"max_tokens", "max_output_tokens"} /\ own \in Caps!CapNames
  BY DEF Caps!OwnCap, Caps!CapNames
<1>2. own \in DOMAIN options /\ \A n \in Caps!CapNames \ {own} : n \notin DOMAIN options
  BY <1>1 DEF Named, CapsIn
<1>3. Limit \in Nat
  BY <1>2 DEF CapsInv, Unthought, IsBody, Limit
<1> HIDE DEF own
<1>4. Caps!RequestOutputTokens(options) = options[own]
  BY <1>1, <1>2 DEF Caps!RequestOutputTokens, Caps!Or, Caps!Has, Caps!CapNames
<1> QED BY <1>3, <1>4 DEF Caps!Judged, Limit, own

LEMMA CapsStep ==
    ASSUME Numbers, CapsInv, [Caps!CapsNext]_Caps!capsVars
    PROVE  CapsInv'
<1>1. client' = client /\ lane' = lane /\ options' = options
  BY DEF Caps!CapsNext, Caps!ApplyThinkingPolicy, Caps!TranslateRequestBody,
         Caps!ClampOutputTokens, Caps!Send, Caps!capsVars
<1>2. /\ client' \in Caps!Clients
      /\ lane'.wire \in Caps!Wires /\ lane'.policy \in Caps!Policies /\ lane'.ceiling \in Nat
      /\ Unthought(options') /\ CapsIn(options') \subseteq Caps!CapsOf(client')
      /\ Named' = Named /\ Limit' = Limit
  BY <1>1 DEF CapsInv, Named, Limit
<1>3. CASE UNCHANGED Caps!capsVars
  <2>1. body' = body /\ step' = step
    BY <1>3 DEF Caps!capsVars
  <2> QED BY <1>1, <1>2, <2>1 DEF CapsInv
<1>4. CASE Caps!ApplyThinkingPolicy
  <2>1. body' = Caps!UnderPolicy(body) /\ step' = "judged" /\ step = "asked"
    BY <1>4 DEF Caps!ApplyThinkingPolicy
  <2>2. Unthought(body) /\ CapsIn(body) = CapsIn(options) /\ lane.policy \in Caps!Policies
        /\ \A n \in CapsIn(body) : body[n] = options[n]
    BY <2>1 DEF CapsInv
  <2>3. Unthought(body') /\ CapsIn(body') = CapsIn(body) /\ \A n \in CapsIn(body) : body'[n] = body[n]
    BY <2>1, <2>2, UnderPolicyIs
  <2>4. IsBody(body')
    BY <2>3 DEF Unthought
  <2> QED BY <1>1, <1>2, <2>1, <2>2, <2>3, <2>4 DEF CapsInv
<1>5. CASE Caps!TranslateRequestBody
  <2> DEFINE chat == Caps!ToChat(body)
             wired == Caps!ToWire(chat)
  <2>1. body' = wired /\ step' = "translated" /\ step = "judged"
    BY <1>5 DEF Caps!TranslateRequestBody
  <2>2. /\ Unthought(body) /\ CapsIn(body) = CapsIn(options)
        /\ CapsIn(body) \subseteq Caps!CapsOf(client)
        /\ \A n \in CapsIn(body) : body[n] = options[n]
        /\ client \in Caps!Clients /\ lane.wire \in Caps!Wires
    BY <2>1 DEF CapsInv
  <2>3. /\ Unthought(chat) /\ CapsIn(chat) \subseteq {"max_tokens", "max_completion_tokens"}
        /\ Named => CapsIn(chat) = {"max_tokens"} /\ chat["max_tokens"] = body[Caps!OwnCap(client)]
    BY <2>2, ToChatIs DEF Named
  <2>4. Named => body[Caps!OwnCap(client)] = Limit
    BY <2>2 DEF Named, Limit
  <2> HIDE DEF chat
  <2>5. /\ IsBody(wired) /\ Fits(wired)
        /\ CapsIn(chat) = {"max_tokens"} => OneCap(wired, chat["max_tokens"])
        /\ lane.wire = "go" => wired = chat
    BY <2>2, <2>3, ToWireIs
  <2> HIDE DEF wired
  <2>6. Named => OneCap(wired, Limit)
    BY <2>3, <2>4, <2>5
  <2>7. lane.wire = "go" => CapsIn(wired) \subseteq {"max_tokens", "max_completion_tokens"}
    BY <2>3, <2>5
  <2> QED BY <1>1, <1>2, <2>1, <2>5, <2>6, <2>7 DEF CapsInv
<1>6. CASE Caps!ClampOutputTokens
  <2> DEFINE clamped == Caps!Clamped(body)
  <2>1. body' = clamped /\ step' = "clamped" /\ step = "translated"
    BY <1>6 DEF Caps!ClampOutputTokens
  <2>2. /\ IsBody(body) /\ Fits(body) /\ (Named => OneCap(body, Limit)) /\ lane.ceiling \in Nat
        /\ lane.wire = "go" => CapsIn(body) \subseteq {"max_tokens", "max_completion_tokens"}
    BY <2>1 DEF CapsInv
  <2>3. /\ IsBody(clamped) /\ CapsIn(clamped) = CapsIn(body)
        /\ \A n \in CapsIn(clamped) : clamped[n] <= lane.ceiling
        /\ \A v \in Nat : OneCap(body, v) => OneCap(clamped, Caps!Min({v, lane.ceiling}))
        /\ FitsUnder(clamped, lane.ceiling)
    BY <2>2, ClampedIs
  <2> HIDE DEF clamped
  <2>4. Named => OneCap(clamped, Caps!Min({Limit, lane.ceiling}))
    BY <2>2, <2>3, LimitIs
  <2> QED BY <1>1, <1>2, <2>1, <2>2, <2>3, <2>4 DEF CapsInv
<1>7. CASE Caps!Send
  <2> DEFINE least == Caps!Min({Limit, lane.ceiling})
  <2>1. /\ step' = "sent" /\ step = "clamped"
        /\ body' = IF lane.wire = "go" THEN Caps!ForGo(body) ELSE body
    BY <1>7 DEF Caps!Send
  <2>2. /\ IsBody(body) /\ FitsUnder(body, lane.ceiling)
        /\ \A n \in CapsIn(body) : body[n] <= lane.ceiling
        /\ Named => OneCap(body, least)
        /\ lane.wire = "go" => CapsIn(body) \subseteq {"max_tokens", "max_completion_tokens"}
    BY <2>1 DEF CapsInv
  <2>3. Named => least \in Nat
    BY LimitIs, MinIs DEF CapsInv
  <2> HIDE DEF least
  <2>4. /\ IsBody(body') /\ FitsUnder(body', lane.ceiling)
        /\ \A n \in CapsIn(body') : body'[n] <= lane.ceiling
        /\ Named => OneCap(body', least) \/ (CapsIn(body') = {} /\ least = 0)
    <3>1. CASE lane.wire # "go"
      BY <2>1, <2>2, <3>1
    <3>2. CASE lane.wire = "go"
      <4> DEFINE go == Caps!ForGo(body)
      <4>1. /\ Unthought(go) /\ CapsIn(go) \subseteq CapsIn(body)
            /\ \A n \in CapsIn(go) : go[n] = body[n]
            /\ \A v \in Nat : OneCap(body, v) => OneCap(go, v) \/ (CapsIn(go) = {} /\ v = 0)
        BY <2>2, <3>2, ForGoIs
      <4> HIDE DEF go
      <4>2. body' = go
        BY <2>1, <3>2 DEF go
      <4>3. IsBody(go) /\ FitsUnder(go, lane.ceiling)
        BY <4>1 DEF Unthought, FitsUnder
      <4>4. \A n \in CapsIn(go) : go[n] <= lane.ceiling
        BY <2>2, <4>1
      <4>5. Named => OneCap(go, least) \/ (CapsIn(go) = {} /\ least = 0)
        BY <2>2, <2>3, <4>1
      <4> QED BY <4>2, <4>3, <4>4, <4>5
    <3> QED BY <3>1, <3>2
  <2> QED BY <1>1, <1>2, <2>1, <2>4 DEF CapsInv, least
<1> QED BY <1>3, <1>4, <1>5, <1>6, <1>7 DEF Caps!CapsNext

(* No lane is asked for more than its model gives, the cap the client      *)
(* named is the one that is judged and asked for, and a thinking budget    *)
(* fits its body's cap, for every limit, effort, budget and ceiling.       *)
THEOREM CapsFollow == ASSUME Numbers PROVE Caps!CapsSpec => []CapsFollowTheClient
<1>1. Caps!CapsInit => CapsInv
  BY CapsStart
<1>2. CapsInv /\ [Caps!CapsNext]_Caps!capsVars => CapsInv'
  BY CapsStep
<1>3. CapsInv => Caps!CapsFollowTheClient
  <2> SUFFICES ASSUME CapsInv, step = "sent" PROVE Caps!CapsFollowTheClient
    BY DEF Caps!CapsFollowTheClient
  <2>1. IsBody(body) /\ lane.ceiling \in Nat
        /\ \A n \in CapsIn(body) : body[n] <= lane.ceiling
    BY DEF CapsInv
  <2>2. Caps!Reserved <= lane.ceiling
    BY <2>1, ReservedIs
  <2>3. ASSUME DOMAIN options \intersect Caps!CapNames = {Caps!OwnCap(client)}
        PROVE  Caps!Reserved = Caps!Judged
    <3> DEFINE least == Caps!Min({Limit, lane.ceiling})
    <3>1. Named
      BY <2>3 DEF Named, CapsIn
    <3>2. least \in Nat /\ Caps!Judged = least
      BY <2>1, <3>1, LimitIs, MinIs
    <3>3. OneCap(body, least) \/ (CapsIn(body) = {} /\ least = 0)
      BY <3>1 DEF CapsInv
    <3> HIDE DEF least
    <3> QED BY <2>1, <3>2, <3>3, ReservedIs
  <2>4. ASSUME Caps!Has(body, Thought)
        PROVE  \/ body[Thought] <= Caps!Max({body["max_tokens"], 1})
               \/ body["max_tokens"] = lane.ceiling
    BY <2>4 DEF CapsInv, FitsUnder, Caps!Has
  <2> QED BY <2>2, <2>3, <2>4 DEF Caps!CapsFollowTheClient, Thought
<1> QED BY <1>1, <1>2, <1>3, PTL DEF Caps!CapsSpec, CapsFollowTheClient

-----------------------------------------------------------------------------
(* LanePlan: the credentials of a request, in the order it gets to them.   *)

(* A loop over the first n places has a value wherever it has got to, when *)
(* each turn of it maps values to values.                                  *)
Turns(V, n) == [(1 .. n) \X V -> V]
Loops(V, n, first, turn) ==
    \E f \in [0 .. n -> V] :
        f[0] = first /\ \A i \in 1 .. n : f[i] = turn[<<i, f[i - 1]>>]

LEMMA LoopRuns ==
    ASSUME NEW V, NEW n \in Nat, NEW first \in V, NEW turn \in Turns(V, n)
    PROVE  Loops(V, n, first, turn)
<1>0. turn \in [(1 .. n) \X V -> V]
  BY DEF Turns
<1> DEFINE Runs(k) == \E f \in [0 .. k -> V] :
                        f = [i \in 0 .. k |-> IF i = 0 THEN first ELSE turn[<<i, f[i - 1]>>]]
           Bad == {k \in 0 .. n : ~Runs(k)}
<1>1. Runs(0)
  <2> DEFINE f == [i \in 0 .. 0 |-> first]
  <2>1. f \in [0 .. 0 -> V]
    OBVIOUS
  <2>2. f = [i \in 0 .. 0 |-> IF i = 0 THEN first ELSE turn[<<i, f[i - 1]>>]]
    OBVIOUS
  <2> QED BY <2>1, <2>2
<1>2. ASSUME NEW k \in 1 .. n, Runs(k - 1) PROVE Runs(k)
  <2>1. PICK f \in [0 .. k - 1 -> V] :
          f = [i \in 0 .. k - 1 |-> IF i = 0 THEN first ELSE turn[<<i, f[i - 1]>>]]
    BY <1>2
  <2> DEFINE v == turn[<<k, f[k - 1]>>]
             g == [i \in 0 .. k |-> IF i = k THEN v ELSE f[i]]
  <2>2. v \in V
    BY <1>0
  <2> HIDE DEF v
  <2>3. g \in [0 .. k -> V]
    BY <2>2
  <2>4. ASSUME NEW i \in 0 .. k
        PROVE  g[i] = IF i = 0 THEN first ELSE turn[<<i, g[i - 1]>>]
    <3>1. CASE i = k
      <4>1. g[i] = v /\ g[i - 1] = f[k - 1] /\ i # 0
        BY <3>1
      <4> QED BY <3>1, <4>1 DEF v
    <3>2. CASE i # k
      <4>1. i \in 0 .. k - 1 /\ g[i] = f[i]
        BY <3>2
      <4>2. f[i] = IF i = 0 THEN first ELSE turn[<<i, f[i - 1]>>]
        BY <2>1, <4>1
      <4>3. i # 0 => g[i - 1] = f[i - 1]
        BY <4>1
      <4> QED BY <4>1, <4>2, <4>3
    <3> QED BY <3>1, <3>2
  <2> HIDE DEF g
  <2>5. DOMAIN g = 0 .. k
    BY <2>3
  <2>6. g = [i \in 0 .. k |-> IF i = 0 THEN first ELSE turn[<<i, g[i - 1]>>]]
    BY <2>3, <2>4
  <2> QED BY <2>3, <2>6
<1> HIDE DEF Runs
<1>3. Bad = {}
  <2> SUFFICES ASSUME Bad # {} PROVE FALSE
    OBVIOUS
  <2>1. Bad \in SUBSET Nat
    OBVIOUS
  <2> HIDE DEF Bad
  <2>2. PICK k \in Bad : \A y \in Bad : k <= y
    BY <2>1, Least
  <2>3. k \in 0 .. n /\ ~Runs(k)
    BY <2>2 DEF Bad
  <2>4. k \in 1 .. n
    BY <1>1, <2>3
  <2>5. k - 1 \in 0 .. n /\ k - 1 \notin Bad
    BY <2>2, <2>4
  <2>6. Runs(k - 1)
    BY <2>5 DEF Bad
  <2> QED BY <1>2, <2>3, <2>4, <2>6
<1>4. Runs(n)
  BY <1>3
<1>5. PICK f \in [0 .. n -> V] :
        f = [i \in 0 .. n |-> IF i = 0 THEN first ELSE turn[<<i, f[i - 1]>>]]
  BY <1>4 DEF Runs
<1>6. f[0] = first
  BY <1>5
<1>7. ASSUME NEW i \in 1 .. n PROVE f[i] = turn[<<i, f[i - 1]>>]
  <2>1. i \in 0 .. n /\ i # 0
    OBVIOUS
  <2> QED BY <1>5, <2>1
<1> QED BY <1>6, <1>7 DEF Loops

(* What holds first and is kept by every turn holds at the end.            *)
LEMMA LoopKeeps ==
    ASSUME NEW n \in Nat, NEW Q, 0 \in Q, \A i \in 1 .. n : i - 1 \in Q => i \in Q
    PROVE  \A i \in 0 .. n : i \in Q
<1> DEFINE Bad == (0 .. n) \ Q
<1> SUFFICES ASSUME Bad # {} PROVE FALSE
  OBVIOUS
<1>1. Bad \in SUBSET Nat
  OBVIOUS
<1> HIDE DEF Bad
<1>2. PICK k \in Bad : \A y \in Bad : k <= y
  BY <1>1, Least
<1>3. k \in 0 .. n /\ k \notin Q
  BY <1>2 DEF Bad
<1>4. k \in 1 .. n
  BY <1>3
<1>5. k - 1 \in 0 .. n /\ k - 1 \notin Bad
  BY <1>2, <1>4
<1> QED BY <1>3, <1>4, <1>5 DEF Bad

(* What is parsed from a pool are lines of it.                             *)
LEMMA ParsedIs ==
    ASSUME NEW A, NEW lines \in Seq(A)
    PROVE  Plan!ParsedPool(lines) \in Seq(A)
<1> DEFINE n == Len(lines)
           Drops(list, i) == lines[i] = "typo" \/ Plan!Contains(list, lines[i])
           Is(f) == f = [i \in 0 .. n |-> IF i = 0 THEN <<>>
                                          ELSE IF Drops(f[i - 1], i)
                                               THEN f[i - 1] ELSE Append(f[i - 1], lines[i])]
           parsed == CHOOSE f : Is(f)
           turn == [p \in (1 .. n) \X Seq(A) |->
                      IF Drops(p[2], p[1]) THEN p[2] ELSE Append(p[2], lines[p[1]])]
<1>1. n \in Nat /\ \A i \in 1 .. n : lines[i] \in A
  OBVIOUS
<1> HIDE DEF n
<1>2. turn \in [(1 .. n) \X Seq(A) -> Seq(A)]
  BY <1>1
<1>3. \A i \in 1 .. n, list \in Seq(A) :
        turn[<<i, list>>] = IF Drops(list, i) THEN list ELSE Append(list, lines[i])
  OBVIOUS
<1> HIDE DEF turn, Drops
<1>4. \E f : Is(f)
  <2>1. <<>> \in Seq(A)
    OBVIOUS
  <2>2. PICK f \in [0 .. n -> Seq(A)] :
          f[0] = <<>> /\ \A i \in 1 .. n : f[i] = turn[<<i, f[i - 1]>>]
    <3> DEFINE V == Seq(A)
               first == <<>>
    <3>1. first \in V /\ turn \in [(1 .. n) \X V -> V]
      BY <1>2, <2>1
    <3>2. first = <<>> /\ V = Seq(A)
      OBVIOUS
    <3> HIDE DEF V, first
    <3>3. Loops(V, n, first, turn)
      <4>1. n \in Nat
        BY <1>1
      <4>2. first \in V
        BY <3>1
      <4>3. turn \in Turns(V, n)
        BY <3>1 DEF Turns
      <4> QED BY <4>1, <4>2, <4>3, LoopRuns, Zenon
    <3> QED BY <3>2, <3>3, Zenon DEF Loops
  <2>3. ASSUME NEW i \in 0 .. n
        PROVE  f[i] = IF i = 0 THEN <<>>
                      ELSE IF Drops(f[i - 1], i) THEN f[i - 1] ELSE Append(f[i - 1], lines[i])
    <3>1. CASE i = 0
      BY <2>2, <3>1
    <3>2. CASE i # 0
      <4>1. i \in 1 .. n /\ i - 1 \in 0 .. n
        BY <1>1, <3>2
      <4>2. f[i - 1] \in Seq(A) /\ f[i] = turn[<<i, f[i - 1]>>]
        BY <2>2, <3>2, <4>1
      <4> QED BY <1>3, <3>2, <4>1, <4>2
    <3> QED BY <3>1, <3>2
  <2> QED BY <2>2, <2>3
<1>5. Is(parsed)
  BY <1>4
<1> HIDE DEF parsed
<1>6. parsed[0] = <<>> /\ parsed[0] \in Seq(A)
  BY <1>1, <1>5
<1>7. ASSUME NEW i \in 1 .. n, parsed[i - 1] \in Seq(A) PROVE parsed[i] \in Seq(A)
  <2>1. i \in 0 .. n /\ i # 0
    BY <1>1
  <2>2. parsed[i] = IF Drops(parsed[i - 1], i) THEN parsed[i - 1] ELSE Append(parsed[i - 1], lines[i])
    BY <1>5, <2>1
  <2>3. Append(parsed[i - 1], lines[i]) \in Seq(A)
    BY <1>1, <1>7
  <2> QED BY <1>7, <2>2, <2>3
<1> DEFINE W == Seq(A)
           Q == {i \in 0 .. n : parsed[i] \in W}
<1>8. \A i \in 0 .. n : parsed[i] \in Seq(A)
  <2>1. parsed[0] \in W /\ \A i \in 1 .. n : parsed[i - 1] \in W => parsed[i] \in W
    BY <1>6, <1>7
  <2> HIDE DEF W
  <2>2. 0 \in Q
    BY <1>1, <2>1
  <2>3. \A i \in 1 .. n : i - 1 \in Q => i \in Q
    BY <1>1, <2>1
  <2>4. \A i \in 0 .. n : i \in Q
    <3> HIDE DEF Q
    <3> QED BY <1>1, <2>2, <2>3, LoopKeeps
  <2> QED BY <2>4 DEF W
<1>9. Plan!ParsedPool(lines) = parsed[n]
  BY Zenon DEF Plan!ParsedPool, parsed, n, Drops
<1> QED BY <1>1, <1>8, <1>9

(* What FlattenSeq is, in the module of any part.                          *)
Flat(ss) ==
    IF Len(ss) = 0 THEN ss
    ELSE LET flatten[i \in 1 .. Len(ss)] == IF i = 1 THEN ss[i] ELSE flatten[i - 1] \o ss[i]
         IN  flatten[Len(ss)]

(* It is what a loop over the sequences has at the end.                    *)
Gathers(A, ss, n, acc) ==
    /\ acc \in [0 .. n -> Seq(A)]
    /\ acc[0] = <<>>
    /\ \A i \in 1 .. n : acc[i] = acc[i - 1] \o ss[i]

LEMMA FlatIs ==
    ASSUME NEW A, NEW n \in Nat, NEW ss \in [1 .. n -> Seq(A)]
    PROVE  \E acc : Gathers(A, ss, n, acc) /\ Flat(ss) = acc[n]
<1>1. Len(ss) = n /\ DOMAIN ss = 1 .. n
  <2>1. ss \in Seq(Seq(A))
    BY SeqDef
  <2> QED BY <2>1
<1> DEFINE V == Seq(A)
           first == <<>>
           turn == [p \in (1 .. n) \X V |-> p[2] \o ss[p[1]]]
<1>2. first \in V /\ turn \in Turns(V, n)
  BY DEF Turns
<1>3. \A i \in 1 .. n, list \in V : turn[<<i, list>>] = list \o ss[i]
  OBVIOUS
<1>4. first = <<>> /\ V = Seq(A)
  OBVIOUS
<1> HIDE DEF V, first, turn
<1>5. Loops(V, n, first, turn)
  BY <1>2, LoopRuns, Zenon
<1>6. PICK acc \in [0 .. n -> V] :
        acc[0] = first /\ \A i \in 1 .. n : acc[i] = turn[<<i, acc[i - 1]>>]
  BY <1>5, Zenon DEF Loops
<1>7. ASSUME NEW i \in 1 .. n PROVE acc[i] = acc[i - 1] \o ss[i]
  <2>1. i - 1 \in 0 .. n
    OBVIOUS
  <2>2. acc[i - 1] \in V
    BY <1>6, <2>1
  <2> QED BY <1>3, <1>6, <2>2
<1>8. Gathers(A, ss, n, acc)
  BY <1>4, <1>6, <1>7 DEF Gathers
<1>9. Flat(ss) = acc[n]
  <2>1. CASE n = 0
    <3>1. ss = <<>>
      BY <1>1, <2>1
    <3> QED BY <1>1, <1>4, <1>6, <2>1, <3>1 DEF Flat
  <2>2. CASE n # 0
    <3> DEFINE Is(f) == f = [i \in 1 .. n |-> IF i = 1 THEN ss[i] ELSE f[i - 1] \o ss[i]]
               flat == CHOOSE f : Is(f)
               g == [i \in 1 .. n |-> acc[i]]
    <3>1. ASSUME NEW i \in 1 .. n PROVE g[i] = IF i = 1 THEN ss[i] ELSE g[i - 1] \o ss[i]
      <4>1. CASE i = 1
        <5>1. acc[i] = acc[i - 1] \o ss[i]
          BY <1>7
        <5>2. i - 1 = 0 /\ acc[0] = <<>> /\ ss[i] \in Seq(A)
          BY <1>4, <1>6, <4>1
        <5>3. acc[i] = <<>> \o ss[i] /\ <<>> \o ss[i] = ss[i]
          BY <5>1, <5>2
        <5> QED BY <4>1, <5>3
      <4>2. CASE i # 1
        <5>1. i - 1 \in 1 .. n
          BY <4>2
        <5>2. g[i - 1] = acc[i - 1] /\ g[i] = acc[i]
          BY <5>1
        <5> QED BY <1>7, <4>2, <5>2
      <4> QED BY <4>1, <4>2
    <3>2. g = [i \in 1 .. n |-> g[i]]
      OBVIOUS
    <3> HIDE DEF g
    <3>3. Is(g)
      BY <3>1, <3>2
    <3>4. Is(flat)
      BY <3>3
    <3> HIDE DEF flat
    <3> DEFINE Q == {i \in 0 .. n : i = 0 \/ flat[i] = acc[i]}
    <3>5. ASSUME NEW i \in 1 .. n, i - 1 \in Q PROVE i \in Q
      <4>1. flat[i] = IF i = 1 THEN ss[i] ELSE flat[i - 1] \o ss[i]
        BY <3>4
      <4>2. g[i] = acc[i] /\ g[i] = IF i = 1 THEN ss[i] ELSE g[i - 1] \o ss[i]
        BY <3>1 DEF g
      <4>3. CASE i = 1
        <5>1. flat[i] = acc[i]
          BY <4>1, <4>2, <4>3
        <5> QED BY <5>1
      <4>4. CASE i # 1
        <5>1. flat[i - 1] = acc[i - 1] /\ g[i - 1] = acc[i - 1]
          BY <3>5, <4>4 DEF g
        <5>2. flat[i] = acc[i]
          BY <4>1, <4>2, <4>4, <5>1
        <5> QED BY <5>2
      <4> QED BY <4>3, <4>4
    <3>6. 0 \in Q
      OBVIOUS
    <3>7. \A i \in 0 .. n : i \in Q
      <4> HIDE DEF Q
      <4> QED BY <3>5, <3>6, LoopKeeps
    <3>8. flat[n] = acc[n]
      BY <2>2, <3>7
    <3>9. Flat(ss) = flat[n]
      BY <1>1, <2>2 DEF Flat, flat
    <3> QED BY <3>8, <3>9
  <2> QED BY <2>1, <2>2
<1> QED BY <1>8, <1>9

(* The concatenation of sequences over a set is a sequence over it.        *)
LEMMA FlattenedIs ==
    ASSUME NEW A, NEW n \in Nat, NEW ss \in [1 .. n -> Seq(A)]
    PROVE  Plan!FlattenSeq(ss) \in Seq(A)
<1>1. PICK acc : Gathers(A, ss, n, acc) /\ Flat(ss) = acc[n]
  BY FlatIs
<1>2. acc[n] \in Seq(A)
  BY <1>1 DEF Gathers
<1>3. Plan!FlattenSeq(ss) = Flat(ss)
  BY Zenon DEF Plan!FlattenSeq, Flat
<1> QED BY <1>1, <1>2, <1>3

(* The credentials of a plan: an account's, the configured one, or the     *)
(* anonymous one, by an address of the pool, directly or by its own proxy. *)
Credentials(addresses) == [of : Nat, via : addresses \cup {"direct", "own"}]

(* An entry that may stand before the last: it is not the bare one, and an *)
(* account with a proxy of its own is sent by that.                        *)
Stands(e, owned) ==
    /\ e # Plan!Entry(0, "direct")
    /\ e.of \in Accounts /\ owned[e.of] = "proxied" => e.via = "own"
Standing(addresses, owned) == {e \in Credentials(addresses) : Stands(e, owned)}

(* Accounts are numbered, and no line of the pool is the word for none.    *)
Numbered(addresses) ==
    /\ \E n \in Nat : Accounts = 1 .. n
    /\ MaxExits \in Nat
    /\ "direct" \notin addresses
    /\ PoolLines \subseteq Seq(addresses)

PlanSetups == [mode : {"auto", "key", "public"}, consent : BOOLEAN, key : BOOLEAN,
               accounts : [Accounts -> Plan!Kinds], pool : PoolLines, seed : 0 .. 1]

(* What of a plan does not change once it is made: its last entry is the   *)
(* bare anonymous one, and every other one stands before it.               *)
Ordered(p, addresses, owned) ==
    /\ p \in Seq(Credentials(addresses))
    /\ p # <<>> => /\ p[Len(p)] = Plan!Entry(0, "direct")
                   /\ \A i \in 1 .. Len(p) - 1 : Stands(p[i], owned)

PlanInv(addresses) ==
    /\ setup \in PlanSetups
    /\ tried \in Seq(Credentials(addresses))
    /\ Ordered(plan, addresses, setup.accounts)

LEMMA ExitsAre ==
    ASSUME NEW A, Numbered(A), setup \in PlanSetups
    PROVE  /\ DOMAIN Plan!OrderedPool \in SUBSET Nat
           /\ Plan!OrderedPool \in Seq(A)
<1> DEFINE exits == Plan!ParsedPool(setup.pool)
           taken == IF MaxExits < Len(exits) THEN MaxExits ELSE Len(exits)
<1>1. setup.pool \in Seq(A) /\ setup.seed \in Nat /\ MaxExits \in Nat
  BY DEF Numbered, PlanSetups
<1>2. exits \in Seq(A)
  BY <1>1, ParsedIs
<1> HIDE DEF exits
<1>3. Len(exits) \in Nat /\ \A i \in 1 .. Len(exits) : exits[i] \in A
  BY <1>2
<1>4. taken \in Nat /\ taken <= Len(exits)
  BY <1>1, <1>3
<1> HIDE DEF taken
<1>5. ASSUME NEW i \in 1 .. taken
      PROVE  exits[((setup.seed + i - 1) % Len(exits)) + 1] \in A
  <2>1. Len(exits) > 0 /\ setup.seed + i - 1 \in Nat
    BY <1>1, <1>3, <1>4
  <2> DEFINE k == (setup.seed + i - 1) % Len(exits)
  <2>2. k \in 0 .. Len(exits) - 1
    BY <1>3, <2>1
  <2> HIDE DEF k
  <2>3. k + 1 \in 1 .. Len(exits)
    BY <1>3, <2>2
  <2> QED BY <1>3, <2>3 DEF k
<1> DEFINE f == [i \in 1 .. taken |-> exits[((setup.seed + i - 1) % Len(exits)) + 1]]
<1>6. f \in [1 .. taken -> A]
  BY <1>5
<1>7. Plan!OrderedPool = f
  BY Zenon DEF Plan!OrderedPool, exits, taken
<1> HIDE DEF f
<1>8. f \in Seq(A) /\ DOMAIN f = 1 .. taken
  BY <1>4, <1>6, SeqDef
<1> QED BY <1>4, <1>7, <1>8

(* Whatever is sent by the exits of the pool is a sequence over its own.   *)
LEMMA ByExitsIs ==
    ASSUME NEW A, Numbered(A), setup \in PlanSetups, NEW E, NEW a,
           \A via \in A : Plan!Entry(a, via) \in E
    PROVE  [i \in DOMAIN Plan!OrderedPool |-> Plan!Entry(a, Plan!OrderedPool[i])] \in Seq(E)
<1> DEFINE exits == Plan!OrderedPool
           f == [i \in DOMAIN exits |-> Plan!Entry(a, exits[i])]
<1>1. exits \in Seq(A)
  BY ExitsAre
<1> HIDE DEF exits
<1>2. DOMAIN exits = 1 .. Len(exits) /\ Len(exits) \in Nat
  BY <1>1
<1>3. f \in [1 .. Len(exits) -> E]
  BY <1>1, <1>2
<1> HIDE DEF f
<1>4. f \in Seq(E)
  BY <1>2, <1>3, SeqDef
<1> QED BY <1>4 DEF f, exits

LEMMA OneIs == ASSUME NEW E, NEW e \in E PROVE <<e>> \in Seq(E)
OBVIOUS

LEMMA NothingIs == ASSUME NEW E PROVE <<>> \in Seq(E)
OBVIOUS

LEMMA BothAre == ASSUME NEW E, NEW s \in Seq(E), NEW t \in Seq(E) PROVE s \o t \in Seq(E)
OBVIOUS

LEMMA CountIs == ASSUME NEW T PROVE Plan!Cardinality(T) = Cardinality(T)
BY Zenon DEF Cardinality, Plan!Cardinality

LEMMA CredentialsAre ==
    ASSUME NEW A, Numbered(A), setup \in PlanSetups
    PROVE  /\ Plan!AccountsProxied \in Seq(Standing(A, setup.accounts))
           /\ Plan!AccountsDirect \in Seq(Standing(A, setup.accounts))
<1> DEFINE E == Standing(A, setup.accounts)
<1>1. PICK n \in Nat : Accounts = 1 .. n
  BY DEF Numbered
<1>2. setup.accounts \in [Accounts -> Plan!Kinds]
  BY DEF PlanSetups
<1>3. <<>> \in Seq(E)
  BY NothingIs
<1>4. ASSUME NEW a \in Accounts PROVE Plan!ByProxy(a) \in Seq(E)
  <2>1. a \in Nat /\ a # 0
    BY <1>1
  <2>2. CASE setup.accounts[a] = "direct"
    <3>1. \A via \in A : Plan!Entry(a, via) \in E
      BY <2>1, <2>2 DEF Plan!Entry, Standing, Stands, Credentials
    <3> HIDE DEF E
    <3>2. [i \in DOMAIN Plan!OrderedPool |-> Plan!Entry(a, Plan!OrderedPool[i])] \in Seq(E)
      BY <3>1, ByExitsIs
    <3> QED BY <2>2, <3>2, Zenon DEF Plan!ByProxy
  <2>3. CASE setup.accounts[a] = "proxied"
    <3>1. Plan!Entry(a, "own") \in E
      BY <2>1 DEF Plan!Entry, Standing, Stands, Credentials
    <3> HIDE DEF E
    <3>2. <<Plan!Entry(a, "own")>> \in Seq(E)
      BY <3>1, OneIs
    <3>3. Plan!ByProxy(a) = <<Plan!Entry(a, "own")>>
      BY <2>3 DEF Plan!ByProxy
    <3> QED BY <3>2, <3>3
  <2>4. CASE setup.accounts[a] \notin {"direct", "proxied"}
    <3>1. Plan!ByProxy(a) = <<>>
      BY <2>4 DEF Plan!ByProxy
    <3> HIDE DEF E
    <3> QED BY <1>3, <3>1
  <2> QED BY <2>2, <2>3, <2>4
<1>5. ASSUME NEW a \in Accounts PROVE Plan!Directly(a) \in Seq(E)
  <2>1. a \in Nat /\ a # 0
    BY <1>1
  <2>2. CASE setup.accounts[a] = "direct"
    <3>1. Plan!Entry(a, "direct") \in E
      BY <2>1, <2>2 DEF Plan!Entry, Standing, Stands, Credentials
    <3> HIDE DEF E
    <3>2. <<Plan!Entry(a, "direct")>> \in Seq(E)
      BY <3>1, OneIs
    <3>3. Plan!Directly(a) = <<Plan!Entry(a, "direct")>>
      BY <2>2 DEF Plan!Directly, Plan!Direct
    <3> QED BY <3>2, <3>3
  <2>3. CASE setup.accounts[a] # "direct"
    <3>1. Plan!Directly(a) = <<>>
      BY <2>3 DEF Plan!Directly
    <3> HIDE DEF E
    <3> QED BY <1>3, <3>1
  <2> QED BY <2>2, <2>3
<1>6. Plan!Entry(Plan!Configured, "direct") \in E
  <2>1. IsFiniteSet(Accounts) /\ Plan!Configured \in Nat /\ Plan!Configured \notin Accounts
        /\ Plan!Configured # 0
    <3>1. IsFiniteSet(Accounts) /\ Cardinality(Accounts) = n
      BY <1>1, FS_Interval
    <3>2. Plan!Configured = n + 1
      BY <3>1, CountIs DEF Plan!Configured
    <3> QED BY <1>1, <3>1, <3>2
  <2> QED BY <2>1 DEF Plan!Entry, Standing, Stands, Credentials
<1> HIDE DEF E
<1>7. Plan!FlattenSeq([a \in Accounts |-> Plan!ByProxy(a)]) \in Seq(E)
  <2> DEFINE ss == [a \in Accounts |-> Plan!ByProxy(a)]
  <2>1. ss \in [1 .. n -> Seq(E)]
    BY <1>1, <1>4
  <2> HIDE DEF ss
  <2>2. Plan!FlattenSeq(ss) \in Seq(E)
    BY <2>1, FlattenedIs
  <2> QED BY <2>2 DEF ss
<1>8. Plan!FlattenSeq([a \in Accounts |-> Plan!Directly(a)]) \in Seq(E)
  <2> DEFINE ss == [a \in Accounts |-> Plan!Directly(a)]
  <2>1. ss \in [1 .. n -> Seq(E)]
    BY <1>1, <1>5
  <2> HIDE DEF ss
  <2>2. Plan!FlattenSeq(ss) \in Seq(E)
    BY <2>1, FlattenedIs
  <2> QED BY <2>2 DEF ss
<1>9. <<Plan!Entry(Plan!Configured, "direct")>> \in Seq(E)
  BY <1>6, OneIs
<1>10. Plan!AccountsProxied \in Seq(E)
  <2>1. CASE Plan!Keyed
    BY <1>7, <2>1, Zenon DEF Plan!AccountsProxied
  <2>2. CASE ~Plan!Keyed
    BY <1>3, <2>2, Zenon DEF Plan!AccountsProxied
  <2> QED BY <2>1, <2>2
<1>11. Plan!AccountsDirect \in Seq(E)
  <2> DEFINE none == \A a \in Accounts : setup.accounts[a] = "unusable"
             stands == setup.mode = "key" /\ setup.key
             bare == <<Plan!Entry(Plan!Configured, "direct")>>
             flat == Plan!FlattenSeq([a \in Accounts |-> Plan!Directly(a)])
  <2>1. Plan!AccountsDirect = IF ~Plan!Keyed THEN <<>>
                              ELSE IF none THEN IF stands THEN bare ELSE <<>> ELSE flat
    BY Zenon DEF Plan!AccountsDirect, Plan!Direct
  <2>2. bare \in Seq(E) /\ flat \in Seq(E)
    BY <1>8, <1>9
  <2> HIDE DEF none, stands, bare, flat
  <2> QED BY <1>3, <2>1, <2>2
<1> QED BY <1>10, <1>11 DEF E

LEMMA PlanMade ==
    ASSUME NEW A, Numbered(A), setup \in PlanSetups
    PROVE  Ordered(Plan!LaneCredentials, A, setup.accounts)
<1> DEFINE E == Standing(A, setup.accounts)
           bare == Plan!Entry(0, "direct")
           byExits == [i \in DOMAIN Plan!OrderedPool |-> Plan!Entry(0, Plan!OrderedPool[i])]
           front == Plan!AccountsProxied \o byExits \o Plan!AccountsDirect
<1>1. 0 \notin Accounts
  BY DEF Numbered
<1>2. \A via \in A : Plan!Entry(0, via) \in E
  BY <1>1 DEF Plan!Entry, Standing, Stands, Credentials, Numbered
<1>3. bare \in Credentials(A)
  BY DEF Plan!Entry, Credentials
<1>4. \A e \in E : e \in Credentials(A) /\ Stands(e, setup.accounts)
  BY DEF Standing
<1>5. Plan!AccountsProxied \in Seq(E) /\ Plan!AccountsDirect \in Seq(E)
  BY CredentialsAre
<1> HIDE DEF E
<1>6. byExits \in Seq(E)
  BY <1>2, ByExitsIs
<1>7. Plan!LaneCredentials = front \o <<bare>>
  BY Zenon DEF Plan!LaneCredentials, Plan!Anonymous, Plan!Direct
<1> HIDE DEF byExits, bare
<1>8. front \in Seq(E)
  BY <1>5, <1>6, BothAre
<1> HIDE DEF front
<1> DEFINE p == front \o <<bare>>
<1>9. /\ Len(p) = Len(front) + 1 /\ Len(front) \in Nat
      /\ p[Len(p)] = bare
      /\ \A i \in 1 .. Len(front) : p[i] = front[i] /\ front[i] \in E
  BY <1>8
<1>10. p \in Seq(Credentials(A))
  <2>1. front \in Seq(Credentials(A))
    BY <1>4, <1>8
  <2> QED BY <1>3, <2>1
<1> HIDE DEF p
<1>11. Ordered(p, A, setup.accounts)
  BY <1>4, <1>9, <1>10 DEF Ordered, bare
<1> QED BY <1>7, <1>11 DEF p

(* Where the accounts stand in the plan, an attempt gets to each of them   *)
(* before it gets to any anonymous one.                                    *)
LEMMA AccountsFirst ==
    ASSUME NEW A, plan \in Seq(Credentials(A)), NEW cursor \in Int,
           NEW i \in DOMAIN plan, NEW j \in DOMAIN plan,
           Plan!IsAnonymous(plan[i]), ~Plan!IsAnonymous(plan[j])
    PROVE  Plan!Turn(j, cursor) < Plan!Turn(i, cursor)
<1> DEFINE mine == Plan!OfAccounts
           before == {x \in mine : x < j}
           k == Cardinality(mine)
           b == Cardinality(before)
<1>1. DOMAIN plan = 1 .. Len(plan) /\ Len(plan) \in Nat
  OBVIOUS
<1>2. j \in mine /\ mine \in SUBSET (1 .. Len(plan))
  BY <1>1 DEF Plan!OfAccounts
<1>3. IsFiniteSet(1 .. Len(plan)) /\ Cardinality(1 .. Len(plan)) = Len(plan)
  <2>1. 1 \in Int /\ Len(plan) \in Int
    BY <1>1
  <2>2. /\ IsFiniteSet(1 .. Len(plan))
        /\ Cardinality(1 .. Len(plan)) = IF 1 > Len(plan) THEN 0 ELSE Len(plan) - 1 + 1
    BY <2>1, FS_Interval
  <2> QED BY <1>1, <2>2
<1>4. IsFiniteSet(mine) /\ k <= Len(plan)
  BY <1>2, <1>3, FS_Subset
<1>5. k \in Nat /\ k # 0
  BY <1>2, <1>4, FS_CardinalityType, FS_EmptySet
<1>6. b \in Nat
  <2>1. before \in SUBSET mine
    OBVIOUS
  <2> QED BY <1>4, <2>1, FS_Subset, FS_CardinalityType
<1>7. Plan!Turn(j, cursor) = (b - cursor) % k /\ Plan!Turn(i, cursor) = Len(plan) + i
  BY CountIs DEF Plan!Turn
<1> HIDE DEF k, b, mine, before
<1>8. b - cursor \in Int /\ k > 0
  BY <1>5, <1>6
<1>9. (b - cursor) % k \in 0 .. k - 1
  BY <1>5, <1>8
<1> QED BY <1>1, <1>4, <1>5, <1>7, <1>9

LEMMA PlanStart == ASSUME NEW A, Numbered(A), Plan!PlanInit PROVE PlanInv(A)
<1>1. setup \in PlanSetups /\ plan = <<>> /\ tried = <<>>
  BY DEF Plan!PlanInit, PlanSetups
<1>2. plan \in Seq(Credentials(A)) /\ tried \in Seq(Credentials(A))
  BY <1>1, NothingIs
<1> QED BY <1>1, <1>2 DEF PlanInv, Ordered

LEMMA PlanStep ==
    ASSUME NEW A, Numbered(A), PlanInv(A), [Plan!PlanNext]_Plan!planVars
    PROVE  PlanInv(A)'
<1> USE DEF PlanInv
<1>1. CASE Plan!MakePlan
  <2>1. Ordered(plan', A, setup.accounts)
    BY <1>1, PlanMade DEF Plan!MakePlan
  <2> QED BY <1>1, <2>1 DEF Plan!MakePlan
<1>2. CASE Plan!Attempt
  <2>1. PICK i \in DOMAIN plan : tried' = Append(tried, plan[i])
    BY <1>2 DEF Plan!Attempt
  <2>2. plan[i] \in Credentials(A)
    BY DEF Ordered
  <2>3. tried' \in Seq(Credentials(A))
    BY <2>1, <2>2
  <2>4. setup' = setup /\ plan' = plan
    BY <1>2 DEF Plan!Attempt
  <2> QED BY <2>3, <2>4
<1>3. CASE UNCHANGED Plan!planVars
  BY <1>3 DEF Plan!planVars
<1> QED BY <1>1, <1>2, <1>3 DEF Plan!PlanNext

(* An attempt is anonymous only when every account left was closed to it,  *)
(* and bare only when everything left was; none is sent twice by one exit. *)
LEMMA AttemptTakes ==
    ASSUME NEW A, Numbered(A), PlanInv(A), Plan!Attempt
    PROVE  Plan!TakesAnonymousLast
<1> DEFINE untried == {x \in DOMAIN plan : ~Plan!Contains(tried, plan[x])}
<1>1. PICK cursor \in 0 .. (Len(plan) - 1), i \in untried :
        /\ tried' = Append(tried, plan[i])
        /\ passed' = {plan[x] : x \in {y \in untried : Plan!Turn(y, cursor) < Plan!Turn(i, cursor)}}
  BY DEF Plan!Attempt
<1>2. /\ plan \in Seq(Credentials(A)) /\ tried \in Seq(Credentials(A)) /\ plan # <<>>
      /\ DOMAIN plan = 1 .. Len(plan) /\ Len(plan) \in Nat
      /\ \A x \in DOMAIN plan : plan[x] \in Credentials(A)
      /\ plan[Len(plan)] = Plan!Entry(0, "direct")
      /\ \A x \in 1 .. Len(plan) - 1 : Stands(plan[x], setup.accounts)
  BY DEF PlanInv, Ordered, Plan!Attempt
<1> DEFINE got == Plan!Last(tried')
           left == Plan!ToSet(plan) \ (Plan!ToSet(tried) \cup passed' \cup {got})
<1>3. i \in DOMAIN plan /\ got = plan[i]
  BY <1>1, <1>2 DEF Plan!Last
<1>4. ~Plan!Contains(tried, got)
  BY <1>1, <1>3
<1>5. ASSUME NEW e \in left
      PROVE  \E j \in DOMAIN plan : /\ e = plan[j] /\ e # plan[i]
                                    /\ ~(Plan!Turn(j, cursor) < Plan!Turn(i, cursor))
  <2>1. PICK j \in DOMAIN plan : e = plan[j]
    BY DEF Plan!ToSet
  <2>2. e # plan[i] /\ e \notin passed' /\ e \notin Plan!ToSet(tried)
    BY <1>3
  <2>3. ~Plan!Contains(tried, plan[j])
    BY <1>2, <2>1, <2>2 DEF Plan!ToSet, Plan!Contains
  <2>4. ~(Plan!Turn(j, cursor) < Plan!Turn(i, cursor))
    BY <1>1, <2>1, <2>2, <2>3
  <2> QED BY <2>1, <2>2, <2>4
<1> HIDE DEF left, got
<1>6. Plan!IsAnonymous(got) => \A e \in left : Plan!IsAnonymous(e)
  <2> SUFFICES ASSUME Plan!IsAnonymous(got), NEW e \in left PROVE Plan!IsAnonymous(e)
    OBVIOUS
  <2>1. PICK j \in DOMAIN plan : e = plan[j] /\ ~(Plan!Turn(j, cursor) < Plan!Turn(i, cursor))
    BY <1>5
  <2>2. cursor \in Int /\ Plan!IsAnonymous(plan[i])
    BY <1>2, <1>3
  <2> QED BY <1>2, <1>3, <2>1, <2>2, AccountsFirst
<1>7. got = Plan!Entry(0, "direct") => left = {}
  <2> SUFFICES ASSUME got = Plan!Entry(0, "direct"), NEW e \in left PROVE FALSE
    OBVIOUS
  <2>1. Plan!IsAnonymous(got)
    BY DEF Plan!IsAnonymous, Plan!Entry, Plan!Anonymous
  <2>2. PICK j \in DOMAIN plan : /\ e = plan[j] /\ e # plan[i]
                                 /\ ~(Plan!Turn(j, cursor) < Plan!Turn(i, cursor))
    BY <1>5
  <2>3. i = Len(plan)
    BY <1>2, <1>3 DEF Stands
  <2>4. Plan!Turn(j, cursor) = Len(plan) + j /\ Plan!Turn(i, cursor) = Len(plan) + i
    BY <1>3, <1>6, <2>1, <2>2 DEF Plan!Turn
  <2>5. j = i
    BY <1>2, <2>2, <2>3, <2>4
  <2> QED BY <2>2, <2>5
<1>8. got.of \in Accounts /\ setup.accounts[got.of] = "proxied" => got.via = "own"
  <2>1. CASE i = Len(plan)
    <3>1. got.of = 0
      BY <1>2, <1>3, <2>1 DEF Plan!Entry
    <3>2. 0 \notin Accounts
      BY DEF Numbered
    <3> QED BY <3>1, <3>2
  <2>2. CASE i # Len(plan)
    BY <1>2, <1>3, <2>2 DEF Stands
  <2> QED BY <2>1, <2>2
<1> QED BY <1>4, <1>6, <1>7, <1>8 DEF Plan!TakesAnonymousLast, got, left, Plan!Anonymous, Plan!Direct

(* AnonymousIsLast, whatever the accounts, the pool's lines and where      *)
(* other requests have moved the cursor: the anonymous credential is a     *)
(* fallback and never a starting point.                                    *)
THEOREM AnonymousLast ==
    ASSUME NEW A, Numbered(A)
    PROVE  Plan!PlanSpec => AnonymousIsLast
<1>1. Plan!PlanInit => PlanInv(A)
  BY PlanStart
<1>2. PlanInv(A) /\ [Plan!PlanNext]_Plan!planVars => PlanInv(A)'
  BY PlanStep
<1>3. PlanInv(A) /\ [Plan!PlanNext]_Plan!planVars => [Plan!TakesAnonymousLast]_Plan!planVars
  <2>1. ASSUME PlanInv(A), [Plan!PlanNext]_Plan!planVars
        PROVE  [Plan!TakesAnonymousLast]_Plan!planVars
    <3>1. CASE Plan!MakePlan
      BY <3>1 DEF Plan!MakePlan, Plan!TakesAnonymousLast
    <3>2. CASE Plan!Attempt
      BY <2>1, <3>2, AttemptTakes
    <3>3. CASE UNCHANGED Plan!planVars
      BY <3>3
    <3> QED BY <2>1, <3>1, <3>2, <3>3 DEF Plan!PlanNext
  <2> QED BY <2>1
<1> QED BY <1>1, <1>2, <1>3, PTL DEF Plan!PlanSpec, AnonymousIsLast, Plan!AnonymousIsLast

-----------------------------------------------------------------------------
(* CompressionModes: what the engines do to the messages.                  *)

Engines == {"rules", "pruned", "filtered", "cut", "summary"}
Written == [role : Modes!Roles, text : Modes!Texts, by : SUBSET Engines]

(* The last user message of the first n, and what of it has to stay.       *)
Lives(s, n, m) ==
    \E i \in 1 .. n : /\ s[i] = m /\ m.role = "user"
                      /\ \A j \in i + 1 .. n : s[j].role # "user"
Same(m, k) == k.by = {} /\ Modes!Trimmed(k.text) = Modes!Trimmed(m.text)

(* An untouched live instruction of s is the live instruction of u.        *)
Keeps(s, u) ==
    /\ u \in Seq(Written)
    /\ \A m \in Written : Lives(s, Len(s), m) /\ m.by = {} =>
           \E k \in Written : Lives(u, Len(u), k) /\ Same(m, k)

LEMMA TouchedIs ==
    ASSUME NEW m \in Written, NEW engine \in Engines
    PROVE  /\ Modes!Touched(m, engine) \in Written
           /\ Modes!Touched(m, engine).role = m.role
BY DEF Modes!Touched, Written

LEMMA TrimmedIs ==
    ASSUME NEW t \in Modes!Texts
    PROVE  Modes!Trimmed(t) \in Modes!Texts /\ Modes!Trimmed(Modes!Trimmed(t)) = Modes!Trimmed(t)
BY DEF Modes!Trimmed, Modes!Texts

LEMMA KeepsOn ==
    ASSUME NEW s, NEW u, NEW v, Keeps(s, u), Keeps(u, v)
    PROVE  Keeps(s, v)
BY DEF Keeps, Same

LEMMA LastUserIs ==
    ASSUME NEW s \in Seq(Written)
    PROVE  /\ Modes!LastUser(s) \in 0 .. Len(s)
           /\ \A m : Lives(s, Len(s), m) <=>
                       (Modes!UsersOf(s) # {} /\ m = s[Modes!LastUser(s)])
           /\ Modes!UsersOf(s) # {} =>
                 /\ Modes!LastUser(s) = Modes!Max(Modes!UsersOf(s))
                 /\ Modes!LastUser(s) \in 1 .. Len(s)
                 /\ s[Modes!LastUser(s)].role = "user"
<1> DEFINE U == Modes!UsersOf(s)
<1>1. /\ U \in SUBSET (1 .. Len(s)) /\ Len(s) \in Nat
      /\ \A i \in 1 .. Len(s) : i \in U <=> s[i].role = "user"
  BY DEF Modes!UsersOf
<1> HIDE DEF U
<1>2. CASE U = {}
  <2>1. Modes!LastUser(s) = 0
    BY <1>2 DEF Modes!LastUser, U
  <2>2. ASSUME NEW m PROVE ~Lives(s, Len(s), m)
    BY <1>1, <1>2 DEF Lives
  <2> QED BY <1>1, <1>2, <2>1, <2>2 DEF U
<1>3. CASE U # {}
  <2>1. PICK g \in U : \A y \in U : y <= g
    <3> DEFINE T == {Len(s) - i : i \in U}
    <3>0. T # {}
      BY <1>3
    <3>1. T \in SUBSET Nat
      <4>1. ASSUME NEW i \in U PROVE Len(s) - i \in Nat
        <5>1. i \in 1 .. Len(s)
          BY <1>1
        <5> QED BY <1>1, <5>1
      <4> QED BY <4>1
    <3>2. PICK x \in T : \A y \in T : x <= y
      <4> HIDE DEF T
      <4> QED BY <3>0, <3>1, Least
    <3>3. PICK g \in U : x = Len(s) - g
      OBVIOUS
    <3>4. ASSUME NEW y \in U PROVE y <= g
      <4>1. Len(s) - y \in T
        OBVIOUS
      <4>2. Len(s) - g <= Len(s) - y
        BY <3>2, <3>3, <4>1
      <4> QED BY <1>1, <4>2
    <3> QED BY <3>4
  <2>2. Modes!Max(U) = g
    <3>1. \A x \in U : (\A y \in U : x >= y) => x = g
      BY <1>1, <2>1
    <3>2. \A y \in U : g >= y
      BY <1>1, <2>1
    <3> QED BY <2>1, <3>1, <3>2 DEF Modes!Max
  <2>3. Modes!LastUser(s) = g
    BY <1>3, <2>2 DEF Modes!LastUser, U
  <2>4. ASSUME NEW m PROVE Lives(s, Len(s), m) <=> m = s[g]
    <3>1. ASSUME Lives(s, Len(s), m) PROVE m = s[g]
      <4>1. PICK i \in 1 .. Len(s) : /\ s[i] = m /\ m.role = "user"
                                     /\ \A j \in i + 1 .. Len(s) : s[j].role # "user"
        BY <3>1 DEF Lives
      <4>2. i \in U /\ i <= g
        BY <1>1, <2>1, <4>1
      <4>3. ~(g > i)
        BY <1>1, <2>1, <4>1
      <4> QED BY <1>1, <2>1, <4>1, <4>2, <4>3
    <3>2. Lives(s, Len(s), s[g])
      <4>1. g \in 1 .. Len(s) /\ s[g].role = "user"
        BY <1>1, <2>1
      <4>2. ASSUME NEW j \in g + 1 .. Len(s) PROVE s[j].role # "user"
        BY <1>1, <2>1, <4>1
      <4> QED BY <4>1, <4>2 DEF Lives
    <3> QED BY <3>1, <3>2
  <2>5. g \in 1 .. Len(s) /\ s[g].role = "user"
    BY <1>1, <2>1
  <2> QED BY <1>1, <1>3, <2>2, <2>3, <2>4, <2>5 DEF U
<1> QED BY <1>2, <1>3

(* An engine that works in place keeps the live instruction when it        *)
(* changes no role, and of the last user message white space at most.      *)
LEMMA InPlace ==
    ASSUME NEW s \in Seq(Written), NEW f \in [1 .. Len(s) -> Written],
           \A i \in 1 .. Len(s) : f[i].role = s[i].role,
           \A i \in 1 .. Len(s) : i = Modes!LastUser(s) /\ s[i].role = "user" =>
               /\ f[i].by = s[i].by /\ Modes!Trimmed(f[i].text) = Modes!Trimmed(s[i].text)
    PROVE  f \in Seq(Written) /\ Len(f) = Len(s) /\ Keeps(s, f) /\ Modes!LastUser(f) = Modes!LastUser(s)
<1>1. Len(s) \in Nat
  OBVIOUS
<1>2. f \in Seq(Written) /\ Len(f) = Len(s)
  BY <1>1, SeqDef
<1>3. Modes!UsersOf(f) = Modes!UsersOf(s)
  BY <1>2 DEF Modes!UsersOf
<1>4. Modes!LastUser(f) = Modes!LastUser(s)
  BY <1>3 DEF Modes!LastUser
<1>5. ASSUME NEW m \in Written, Lives(s, Len(s), m), m.by = {}
      PROVE  \E k \in Written : Lives(f, Len(f), k) /\ Same(m, k)
  <2> DEFINE g == Modes!LastUser(s)
  <2>1. Modes!UsersOf(s) # {} /\ m = s[g]
    BY <1>5, LastUserIs
  <2>2. g \in 1 .. Len(s) /\ s[g].role = "user"
    BY <2>1, LastUserIs
  <2>3. Lives(f, Len(f), f[g])
    BY <1>2, <1>3, <1>4, <2>1, LastUserIs
  <2> HIDE DEF g
  <2>4. f[g] \in Written /\ f[g].by = s[g].by
        /\ Modes!Trimmed(f[g].text) = Modes!Trimmed(s[g].text)
    BY <2>2 DEF g
  <2> QED BY <1>5, <2>1, <2>3, <2>4 DEF Same
<1> QED BY <1>2, <1>4, <1>5 DEF Keeps

(* One more message changes who speaks last, if a user wrote it.           *)
LEMMA LivesOn ==
    ASSUME NEW s \in Seq(Written), NEW i \in 1 .. Len(s), NEW m, Lives(s, i, m)
    PROVE  IF s[i].role = "user" THEN m = s[i] ELSE Lives(s, i - 1, m)
<1>1. PICK j \in 1 .. i : /\ s[j] = m /\ m.role = "user"
                          /\ \A k \in j + 1 .. i : s[k].role # "user"
  BY DEF Lives
<1>2. CASE j = i
  BY <1>1, <1>2
<1>3. CASE j # i
  <2>1. j \in 1 .. i - 1 /\ i \in j + 1 .. i
    BY <1>3
  <2>2. \A k \in j + 1 .. i - 1 : s[k].role # "user"
    BY <1>1
  <2> QED BY <1>1, <2>1, <2>2 DEF Lives
<1> QED BY <1>2, <1>3

LEMMA LivesAppended ==
    ASSUME NEW s \in Seq(Written), NEW x \in Written, NEW m
    PROVE  /\ x.role = "user" => Lives(Append(s, x), Len(Append(s, x)), x)
           /\ x.role # "user" /\ Lives(s, Len(s), m) => Lives(Append(s, x), Len(Append(s, x)), m)
<1> DEFINE t == Append(s, x)
           n == Len(s)
<1>1. /\ n \in Nat /\ Len(t) = n + 1 /\ t[n + 1] = x
      /\ \A j \in 1 .. n : t[j] = s[j]
  OBVIOUS
<1> HIDE DEF t
<1>2. x.role = "user" => Lives(t, n + 1, x)
  <2>1. n + 1 \in 1 .. n + 1 /\ \A j \in (n + 1) + 1 .. n + 1 : FALSE
    BY <1>1
  <2> QED BY <1>1, <2>1 DEF Lives
<1>3. ASSUME x.role # "user", Lives(s, n, m) PROVE Lives(t, n + 1, m)
  <2>1. PICK i \in 1 .. n : /\ s[i] = m /\ m.role = "user"
                            /\ \A j \in i + 1 .. n : s[j].role # "user"
    BY <1>3 DEF Lives
  <2>2. i \in 1 .. n + 1 /\ t[i] = m
    BY <1>1, <2>1
  <2>3. ASSUME NEW j \in i + 1 .. n + 1 PROVE t[j].role # "user"
    <3>1. CASE j = n + 1
      BY <1>1, <1>3, <3>1
    <3>2. CASE j # n + 1
      <4>1. j \in 1 .. n /\ j \in i + 1 .. n
        BY <1>1, <3>2
      <4> QED BY <1>1, <2>1, <4>1
    <3> QED BY <3>1, <3>2
  <2> QED BY <2>1, <2>2, <2>3 DEF Lives
<1> QED BY <1>1, <1>2, <1>3 DEF t

(* A message that is left out was not a user's, or repeats the one before. *)
LEMMA ThoseKeep ==
    ASSUME NEW s \in Seq(Written), NEW stay,
           \A i \in 1 .. Len(s) : i \in stay \/ s[i].role # "user" \/ (i # 1 /\ s[i - 1] = s[i])
    PROVE  Keeps(s, Modes!Those(s, stay))
<1> DEFINE n == Len(s)
           Onto(list, i) == IF i \in stay THEN Append(list, s[i]) ELSE list
           Is(f) == f = [i \in 0 .. n |-> IF i = 0 THEN <<>> ELSE Onto(f[i - 1], i)]
           taken == CHOOSE f : Is(f)
           turn == [p \in (1 .. n) \X Seq(Written) |-> Onto(p[2], p[1])]
<1>1. n \in Nat /\ \A i \in 1 .. n : s[i] \in Written
  OBVIOUS
<1> HIDE DEF n
<1>2. turn \in [(1 .. n) \X Seq(Written) -> Seq(Written)]
  BY <1>1
<1>3. \A i \in 1 .. n, list \in Seq(Written) :
        turn[<<i, list>>] = Onto(list, i)
  OBVIOUS
<1>31. \A i \in 1 .. n, list \in Seq(Written) : Onto(list, i) \in Seq(Written)
  BY <1>1
<1> HIDE DEF turn, Onto
<1>4. \E f : Is(f)
  <2> DEFINE V == Seq(Written)
             first == <<>>
  <2>1. first \in V /\ turn \in Turns(V, n)
    BY <1>2 DEF Turns
  <2>2. first = <<>> /\ V = Seq(Written)
    OBVIOUS
  <2> HIDE DEF V, first
  <2>3. Loops(V, n, first, turn)
    BY <1>1, <2>1, LoopRuns, Zenon
  <2>4. PICK f \in [0 .. n -> Seq(Written)] :
          f[0] = <<>> /\ \A i \in 1 .. n : f[i] = turn[<<i, f[i - 1]>>]
    BY <2>2, <2>3, Zenon DEF Loops
  <2>5. ASSUME NEW i \in 0 .. n
        PROVE  f[i] = IF i = 0 THEN <<>> ELSE Onto(f[i - 1], i)
    <3>1. CASE i = 0
      BY <2>4, <3>1
    <3>2. CASE i # 0
      <4>1. i \in 1 .. n /\ i - 1 \in 0 .. n
        BY <1>1, <3>2
      <4>2. f[i - 1] \in Seq(Written) /\ f[i] = turn[<<i, f[i - 1]>>]
        BY <2>4, <4>1
      <4> QED BY <1>3, <3>2, <4>1, <4>2
    <3> QED BY <3>1, <3>2
  <2>6. DOMAIN f = 0 .. n /\ f = [i \in DOMAIN f |-> f[i]]
    BY <2>4
  <2>7. Is(f)
    <3> HIDE DEF V, first
    <3> QED BY <2>5, <2>6
  <2> QED BY <2>7
<1>5. Is(taken)
  BY <1>4
<1> HIDE DEF taken
<1>6. taken[0] = <<>>
  BY <1>1, <1>5
<1>7. ASSUME NEW i \in 1 .. n
      PROVE  taken[i] = Onto(taken[i - 1], i)
  <2>1. i \in 0 .. n /\ i # 0
    BY <1>1
  <2> QED BY <1>5, <2>1
<1> DEFINE Good(i) == /\ taken[i] \in Seq(Written)
                      /\ \A m : Lives(s, i, m) => Lives(taken[i], Len(taken[i]), m)
           Q == {i \in 0 .. n : Good(i)}
<1>8. Good(0)
  BY <1>6 DEF Lives
<1>9. ASSUME NEW i \in 1 .. n, Good(i - 1) PROVE Good(i)
  <2>1. i \in 1 .. Len(s) /\ i - 1 \in 0 .. n /\ s[i] \in Written
    BY <1>1 DEF n
  <2>2. taken[i] \in Seq(Written) /\ taken[i - 1] \in Seq(Written)
    BY <1>7, <1>9, <1>31 DEF Good
  <2>3. ASSUME NEW m, Lives(s, i, m) PROVE Lives(taken[i], Len(taken[i]), m)
    <3>1. IF s[i].role = "user" THEN m = s[i] ELSE Lives(s, i - 1, m)
      BY <2>1, <2>3, LivesOn
    <3>2. CASE i \in stay
      <4>1. taken[i] = Append(taken[i - 1], s[i]) /\ taken[i - 1] \in Seq(Written)
        BY <1>7, <2>2, <3>2 DEF Onto
      <4>2. CASE s[i].role = "user"
        BY <2>1, <3>1, <4>1, <4>2, LivesAppended
      <4>3. CASE s[i].role # "user"
        <5>1. Lives(taken[i - 1], Len(taken[i - 1]), m)
          BY <1>9, <3>1, <4>3
        <5> QED BY <2>1, <4>1, <4>3, <5>1, LivesAppended
      <4> QED BY <4>2, <4>3
    <3>3. CASE i \notin stay
      <4>1. taken[i] = taken[i - 1]
        BY <1>7, <3>3 DEF Onto
      <4>2. Lives(s, i - 1, m)
        <5>1. CASE s[i].role # "user"
          BY <3>1, <5>1
        <5>2. CASE s[i].role = "user"
          <6>1. i # 1 /\ s[i - 1] = s[i] /\ m = s[i]
            BY <2>1, <3>1, <3>3, <5>2
          <6>2. i - 1 \in 1 .. i - 1 /\ \A j \in (i - 1) + 1 .. i - 1 : FALSE
            BY <1>1, <6>1
          <6> QED BY <5>2, <6>1, <6>2 DEF Lives
        <5> QED BY <5>1, <5>2
      <4> QED BY <1>9, <4>1, <4>2
    <3> QED BY <3>2, <3>3
  <2> QED BY <2>2, <2>3
<1> HIDE DEF Good
<1>10. \A i \in 0 .. n : i \in Q
  <2>1. 0 \in Q
    BY <1>1, <1>8
  <2>2. \A i \in 1 .. n : i - 1 \in Q => i \in Q
    BY <1>1, <1>9
  <2> HIDE DEF Q
  <2> QED BY <1>1, <2>1, <2>2, LoopKeeps
<1>11. Good(n)
  BY <1>1, <1>10
<1>12. Modes!Those(s, stay) = taken[n]
  BY Zenon DEF Modes!Those, taken, n, Onto
<1>13. ASSUME NEW m \in Written, Lives(s, n, m), m.by = {}
       PROVE  Lives(taken[n], Len(taken[n]), m) /\ Same(m, m)
  BY <1>11, <1>13 DEF Good, Same
<1> QED BY <1>11, <1>12, <1>13 DEF Keeps, Good, n

LEMMA KeepsItself ==
    ASSUME NEW s \in Seq(Written)
    PROVE  Keeps(s, s)
BY DEF Keeps, Same

(* The engines that work in place.  What they touch is not the last user   *)
(* message; white space alone is taken out of it.                          *)
LEMMA SpacedKeeps ==
    ASSUME NEW s \in Seq(Written)
    PROVE  Keeps(s, Modes!Spaced(s))
<1> DEFINE f == Modes!Spaced(s)
<1>1. ASSUME NEW i \in 1 .. Len(s)
      PROVE  /\ f[i] \in Written /\ f[i].role = s[i].role /\ f[i].by = s[i].by
             /\ Modes!Trimmed(f[i].text) = Modes!Trimmed(s[i].text)
  <2>1. s[i] \in Written
    OBVIOUS
  <2>2. f[i] = IF Modes!Kept(s[i]) THEN s[i] ELSE [s[i] EXCEPT !.text = Modes!Trimmed(@)]
    BY DEF Modes!Spaced
  <2> HIDE DEF f
  <2>3. CASE Modes!Kept(s[i])
    BY <2>1, <2>2, <2>3
  <2>4. CASE ~Modes!Kept(s[i])
    <3>1. f[i] = [s[i] EXCEPT !.text = Modes!Trimmed(s[i].text)]
      BY <2>2, <2>4
    <3>2. s[i].text \in Modes!Texts
      BY <2>1 DEF Written
    <3> QED BY <2>1, <3>1, <3>2, TrimmedIs DEF Written
  <2> QED BY <2>3, <2>4
<1>2. f = [i \in 1 .. Len(s) |-> f[i]]
  BY DEF Modes!Spaced
<1> HIDE DEF f
<1>3. f \in [1 .. Len(s) -> Written]
  BY <1>1, <1>2
<1>4. Keeps(s, f)
  BY <1>1, <1>3, InPlace
<1> QED BY <1>4 DEF f

(* A message that an engine works on is touched or left.                   *)
LEMMA TouchesKeep ==
    ASSUME NEW s \in Seq(Written), NEW f, NEW E \in SUBSET Engines,
           f = [i \in 1 .. Len(s) |-> f[i]],
           \A i \in 1 .. Len(s) :
              f[i] = s[i] \/ \E engine \in E : f[i] = Modes!Touched(s[i], engine),
           \A i \in 1 .. Len(s) : i = Modes!LastUser(s) /\ s[i].role = "user" => f[i] = s[i]
    PROVE  f \in Seq(Written) /\ Len(f) = Len(s) /\ Keeps(s, f) /\ Modes!LastUser(f) = Modes!LastUser(s)
<1>1. ASSUME NEW i \in 1 .. Len(s) PROVE f[i] \in Written /\ f[i].role = s[i].role
  <2>1. s[i] \in Written
    OBVIOUS
  <2> QED BY <2>1, TouchedIs
<1>2. f \in [1 .. Len(s) -> Written]
  BY <1>1
<1> QED BY <1>1, <1>2, InPlace

LEMMA RulesKeep ==
    ASSUME NEW s \in Seq(Written), NEW roles
    PROVE  /\ Modes!Rules(s, roles) \in Seq(Written) /\ Len(Modes!Rules(s, roles)) = Len(s)
           /\ Keeps(s, Modes!Rules(s, roles))
           /\ Modes!LastUser(Modes!Rules(s, roles)) = Modes!LastUser(s)
<1> DEFINE f == Modes!Rules(s, roles)
<1>1. f = [i \in 1 .. Len(s) |-> f[i]]
  BY DEF Modes!Rules
<1>2. \A i \in 1 .. Len(s) :
        f[i] = IF s[i].role \in roles /\ i # Modes!LastUser(s)
               THEN Modes!Touched(s[i], "rules") ELSE s[i]
  BY DEF Modes!Rules
<1>3. {"rules"} \in SUBSET Engines
  BY DEF Engines
<1> HIDE DEF f
<1>4. f \in Seq(Written) /\ Len(f) = Len(s) /\ Keeps(s, f) /\ Modes!LastUser(f) = Modes!LastUser(s)
  BY <1>1, <1>2, <1>3, TouchesKeep
<1> QED BY <1>4 DEF f

LEMMA SummarisedKeeps ==
    ASSUME NEW s \in Seq(Written)
    PROVE  /\ Modes!Summarised(s) \in Seq(Written) /\ Len(Modes!Summarised(s)) = Len(s)
           /\ Keeps(s, Modes!Summarised(s))
           /\ Modes!LastUser(Modes!Summarised(s)) = Modes!LastUser(s)
<1> DEFINE f == Modes!Summarised(s)
<1>1. f = [i \in 1 .. Len(s) |-> f[i]]
  BY DEF Modes!Summarised
<1>2. \A i \in 1 .. Len(s) :
        f[i] = IF Modes!Kept(s[i]) THEN s[i]
               ELSE IF s[i].role = "tool" THEN Modes!Touched(s[i], "cut")
               ELSE IF i = Modes!LastUser(s) THEN s[i] ELSE Modes!Touched(s[i], "summary")
  BY DEF Modes!Summarised
<1>3. {"cut", "summary"} \in SUBSET Engines
  BY DEF Engines
<1> HIDE DEF f
<1>4. f \in Seq(Written) /\ Len(f) = Len(s) /\ Keeps(s, f) /\ Modes!LastUser(f) = Modes!LastUser(s)
  BY <1>1, <1>2, <1>3, TouchesKeep
<1> QED BY <1>4 DEF f

LEMMA UltraKeeps ==
    ASSUME NEW s \in Seq(Written)
    PROVE  Keeps(s, Modes!Ultra(s))
<1> DEFINE f == Modes!Ultra(s)
<1>1. f = [i \in 1 .. Len(s) |-> f[i]]
  BY DEF Modes!Ultra
<1>2. \A i \in 1 .. Len(s) :
        f[i] = IF Modes!Kept(s[i]) \/ i = Modes!LastUser(s) THEN s[i]
               ELSE Modes!Touched(s[i], "pruned")
  BY DEF Modes!Ultra
<1>3. {"pruned"} \in SUBSET Engines
  BY DEF Engines
<1> HIDE DEF f
<1>4. Keeps(s, f)
  BY <1>1, <1>2, <1>3, TouchesKeep
<1> QED BY <1>4 DEF f

LEMMA RtkKeeps ==
    ASSUME NEW s \in Seq(Written)
    PROVE  Keeps(s, Modes!Rtk(s))
<1> DEFINE f == Modes!Rtk(s)
<1>1. f = [i \in 1 .. Len(s) |-> f[i]]
  BY DEF Modes!Rtk
<1>2. \A i \in 1 .. Len(s) :
        f[i] = IF s[i].role = "tool" THEN Modes!Touched(s[i], "filtered") ELSE s[i]
  BY DEF Modes!Rtk
<1>3. {"filtered"} \in SUBSET Engines
  BY DEF Engines
<1> HIDE DEF f
<1>4. Keeps(s, f)
  BY <1>1, <1>2, <1>3, TouchesKeep
<1> QED BY <1>4 DEF f

LEMMA CutKeeps ==
    ASSUME NEW s \in Seq(Written)
    PROVE  Keeps(s, Modes!Cut(s))
<1> DEFINE f == Modes!Cut(s)
<1>1. f = [i \in 1 .. Len(s) |-> f[i]]
  BY DEF Modes!Cut
<1>2. \A i \in 1 .. Len(s) :
        f[i] = IF s[i].role = "tool" THEN Modes!Touched(s[i], "cut") ELSE s[i]
  BY DEF Modes!Cut
<1>3. {"cut"} \in SUBSET Engines
  BY DEF Engines
<1> HIDE DEF f
<1>4. Keeps(s, f)
  BY <1>1, <1>2, <1>3, TouchesKeep
<1> QED BY <1>4 DEF f

LEMMA LiteKeeps ==
    ASSUME NEW s \in Seq(Written), NEW results \in BOOLEAN
    PROVE  Keeps(s, Modes!Lite(s, results))
<1> DEFINE spaced == Modes!Spaced(s)
           single == Modes!Those(spaced, Modes!Single(spaced))
           cut == IF results THEN Modes!Cut(single) ELSE single
           fresh == Modes!Those(cut, Modes!Fresh(cut))
<1>1. Keeps(s, spaced) /\ spaced \in Seq(Written)
  BY SpacedKeeps DEF Keeps
<1> HIDE DEF spaced
<1>2. Keeps(spaced, single) /\ single \in Seq(Written)
  <2>1. \A i \in 1 .. Len(spaced) : i \in Modes!Single(spaced) \/ spaced[i].role # "user"
    BY DEF Modes!Single
  <2>2. Keeps(spaced, single)
    BY <1>1, <2>1, ThoseKeep
  <2> QED BY <2>2 DEF Keeps
<1> HIDE DEF single
<1>3. Keeps(single, cut) /\ cut \in Seq(Written)
  BY <1>2, CutKeeps, KeepsItself DEF Keeps
<1> HIDE DEF cut
<1>4. Keeps(cut, fresh)
  <2>1. ASSUME NEW i \in 1 .. Len(cut)
        PROVE  i \in Modes!Fresh(cut) \/ (i # 1 /\ cut[i - 1] = cut[i])
    BY DEF Modes!Fresh
  <2> QED BY <1>3, <2>1, ThoseKeep
<1>5. Modes!Lite(s, results) = fresh
  BY DEF Modes!Lite, spaced, single, cut
<1> HIDE DEF fresh
<1>6. Keeps(s, fresh)
  BY <1>1, <1>2, <1>3, <1>4, KeepsOn
<1> QED BY <1>5, <1>6

(* Putting back the last user message of the summaries changes nothing:    *)
(* the rules have counted the same messages and left it alone.             *)
LEMMA AggressiveKeeps ==
    ASSUME NEW s \in Seq(Written), NEW t \in Modes!Aggressive(s)
    PROVE  Keeps(s, t)
<1> DEFINE summed == Modes!Summarised(s)
           ruled == Modes!Rules(summed, {"user", "assistant", "system"})
           last == Modes!LastUser(s)
           restored == IF last = 0 THEN ruled ELSE [ruled EXCEPT ![last] = summed[last]]
<1>1. t \in {summed, restored, Modes!Lite(summed, FALSE), Modes!Lite(restored, FALSE)}
  BY DEF Modes!Aggressive
<1>2. /\ summed \in Seq(Written) /\ Keeps(s, summed)
      /\ Modes!LastUser(summed) = last
  BY SummarisedKeeps
<1> HIDE DEF summed, last
<1>3. ruled \in Seq(Written) /\ Len(ruled) = Len(summed) /\ Keeps(summed, ruled)
  BY <1>2, RulesKeep
<1>4. \A i \in 1 .. Len(summed) : i = last => ruled[i] = summed[i]
  BY <1>2 DEF Modes!Rules
<1> HIDE DEF ruled
<1>5. restored = ruled
  <2>1. CASE last = 0
    BY <2>1
  <2>2. CASE last # 0
    <3>1. last \in 1 .. Len(summed)
      BY <1>2, <2>2, LastUserIs
    <3>2. ruled[last] = summed[last] /\ ruled = [i \in 1 .. Len(summed) |-> ruled[i]]
      BY <1>3, <1>4, <3>1
    <3> QED BY <2>2, <3>1, <3>2
  <2> QED BY <2>1, <2>2
<1> HIDE DEF restored
<1>6. Keeps(s, ruled)
  BY <1>2, <1>3, KeepsOn
<1>7. Keeps(summed, Modes!Lite(summed, FALSE)) /\ Keeps(ruled, Modes!Lite(ruled, FALSE))
  BY <1>2, <1>3, LiteKeeps
<1>8. Keeps(s, Modes!Lite(summed, FALSE)) /\ Keeps(s, Modes!Lite(ruled, FALSE))
  BY <1>2, <1>6, <1>7, KeepsOn
<1> QED BY <1>1, <1>2, <1>5, <1>6, <1>8

LEMMA EngineKeeps ==
    ASSUME NEW s \in Seq(Written), NEW t \in Modes!Engine(s)
    PROVE  Keeps(s, t)
<1>1. CASE chosen = "lite"
  BY <1>1, LiteKeeps DEF Modes!Engine
<1>2. CASE chosen = "standard"
  BY <1>2, RulesKeep DEF Modes!Engine, Modes!Standard
<1>3. CASE chosen = "ultra"
  BY <1>3, UltraKeeps DEF Modes!Engine
<1>4. CASE chosen = "rtk"
  BY <1>4, RtkKeeps DEF Modes!Engine
<1>5. CASE chosen = "aggressive"
  BY <1>5, AggressiveKeeps DEF Modes!Engine
<1>6. CASE chosen \notin {"lite", "standard", "ultra", "rtk", "aggressive"}
  BY <1>6, KeepsItself DEF Modes!Engine
<1> QED BY <1>1, <1>2, <1>3, <1>4, <1>5, <1>6

(* What goes on carries on what the client's untouched messages live by.   *)
Carries(g, a) ==
    /\ g \in Seq(Written) /\ \A i \in 1 .. Len(g) : g[i].by = {}
    /\ Keeps(g, a)
ModesInv == given = <<>> \/ Carries(given, answered)

LEMMA KeptLives ==
    ASSUME ModesInv
    PROVE  Modes!LiveInstructionKept
<1> SUFFICES ASSUME given # <<>>, Modes!UsersOf(given) # {}
             PROVE  /\ Modes!UsersOf(answered) # {}
                    /\ LET live == answered[Modes!Max(Modes!UsersOf(answered))]
                       IN  /\ Modes!Trimmed(live.text)
                                = Modes!Trimmed(given[Modes!Max(Modes!UsersOf(given))].text)
                           /\ live.by = {}
  BY DEF Modes!LiveInstructionKept
<1> DEFINE g == Modes!LastUser(given)
           h == Modes!LastUser(answered)
<1>1. /\ given \in Seq(Written) /\ \A i \in 1 .. Len(given) : given[i].by = {}
      /\ Keeps(given, answered) /\ answered \in Seq(Written)
  BY DEF ModesInv, Carries, Keeps
<1>2. /\ g = Modes!Max(Modes!UsersOf(given)) /\ g \in 1 .. Len(given)
      /\ Lives(given, Len(given), given[g])
  BY <1>1, LastUserIs
<1> HIDE DEF g
<1>3. given[g] \in Written /\ given[g].by = {}
  BY <1>1, <1>2
<1>4. PICK k \in Written : Lives(answered, Len(answered), k) /\ Same(given[g], k)
  BY <1>1, <1>2, <1>3 DEF Keeps
<1>5. Modes!UsersOf(answered) # {} /\ k = answered[h] /\ h = Modes!Max(Modes!UsersOf(answered))
  BY <1>1, <1>4, LastUserIs
<1> HIDE DEF h
<1> QED BY <1>2, <1>4, <1>5 DEF Same

(* LiveInstructionKept, for requests of any number of messages: in every   *)
(* mode and down every fallback the last user message goes on as the       *)
(* client wrote it, to the white space.                                    *)
THEOREM LiveKept == Modes!ModesSpec => []LiveInstructionKept
<1>1. Modes!ModesInit => ModesInv
  BY DEF Modes!ModesInit, ModesInv
<1>2. ModesInv /\ [Modes!ModesNext]_Modes!modeVars => ModesInv'
  <2> SUFFICES ASSUME ModesInv, [Modes!ModesNext]_Modes!modeVars
               PROVE  ModesInv'
    OBVIOUS
  <2>1. CASE UNCHANGED <<given, answered>>
    BY <2>1 DEF ModesInv
  <2>2. CASE Modes!Compress
    <3>0. PICK n \in 1 .. MaxMessages : \E ms \in [1 .. n -> Modes!Messages] :
            given' = ms /\ answered' \in Modes!Engine(ms)
      BY <2>2 DEF Modes!Compress
    <3>1. PICK ms \in [1 .. n -> Modes!Messages] :
            given' = ms /\ answered' \in Modes!Engine(ms)
      BY <3>0
    <3>2. ms \in Seq(Written) /\ \A i \in 1 .. Len(ms) : ms[i].by = {}
      <4>1. \A m \in Modes!Messages : m \in Written /\ m.by = {}
        BY DEF Modes!Messages, Written
      <4>2. n \in Nat /\ ms \in [1 .. n -> Written] /\ DOMAIN ms = 1 .. n
        BY <4>1
      <4>3. ms \in Seq(Written) /\ Len(ms) = n
        BY <4>2, SeqDef
      <4> QED BY <4>1, <4>3
    <3>3. Keeps(ms, answered')
      BY <3>1, <3>2, EngineKeeps
    <3>4. Carries(ms, answered')
      BY <3>2, <3>3 DEF Carries
    <3> QED BY <3>1, <3>4 DEF ModesInv
  <2>3. CASE Modes!Resolve
    BY <2>1, <2>3 DEF Modes!Resolve
  <2> QED BY <2>1, <2>2, <2>3 DEF Modes!ModesNext, Modes!modeVars
<1>3. ModesInv => LiveInstructionKept
  BY KeptLives DEF LiveInstructionKept
<1> QED BY <1>1, <1>2, <1>3, PTL DEF Modes!ModesSpec

=============================================================================
