--------------------------- MODULE Dialects_proofs ---------------------------
(***************************************************************************)
(* Proofs about what becomes of a request on its way from the client's     *)
(* dialect to the upstream's: its conversation.                            *)
(***************************************************************************)
EXTENDS Parts_proofs, Places

-----------------------------------------------------------------------------
(* Where the sequences of a concatenation are in it: the i-th begins after *)
(* off[i - 1] places.                                                      *)
Spread(ss, n, off, F) ==
    /\ off \in [0 .. n -> Nat]
    /\ off[0] = 0 /\ Len(F) = off[n]
    /\ \A i \in 1 .. n : off[i] = off[i - 1] + Len(ss[i])
    /\ \A i \in 1 .. n : \A k \in 1 .. Len(ss[i]) : F[off[i - 1] + k] = ss[i][k]
    /\ \A i, j \in 0 .. n : i <= j => off[i] <= off[j]
    /\ \A p \in 1 .. Len(F) : \E i \in 1 .. n : \E k \in 1 .. Len(ss[i]) : p = off[i - 1] + k

LEMMA FlatSpreads ==
    ASSUME NEW A, NEW n \in Nat, NEW ss \in [1 .. n -> Seq(A)]
    PROVE  /\ Flat(ss) \in Seq(A)
           /\ \E off : Spread(ss, n, off, Flat(ss))
<1>1. PICK acc : Gathers(A, ss, n, acc) /\ Flat(ss) = acc[n]
  BY FlatIs
<1>2. /\ \A i \in 0 .. n : acc[i] \in Seq(A)
      /\ acc[0] = <<>>
      /\ \A i \in 1 .. n : acc[i] = acc[i - 1] \o ss[i]
  BY <1>1 DEF Gathers
<1> DEFINE off == [i \in 0 .. n |-> Len(acc[i])]
           Holds(m) == /\ \A i \in 0 .. m : off[i] <= off[m]
                       /\ \A i \in 1 .. m : \A k \in 1 .. Len(ss[i]) : acc[m][off[i - 1] + k] = ss[i][k]
                       /\ \A p \in 1 .. off[m] : \E i \in 1 .. m : \E k \in 1 .. Len(ss[i]) : p = off[i - 1] + k
           Q == {m \in 0 .. n : Holds(m)}
<1>3. off \in [0 .. n -> Nat] /\ off[0] = 0 /\ \A i \in 0 .. n : off[i] = Len(acc[i])
  BY <1>2
<1> HIDE DEF off
<1>4. ASSUME NEW i \in 1 .. n
      PROVE  /\ off[i] = off[i - 1] + Len(ss[i]) /\ Len(ss[i]) \in Nat /\ i - 1 \in 0 .. n
             /\ off[i - 1] \in Nat /\ off[i] \in Nat
             /\ \A p \in 1 .. off[i - 1] : acc[i][p] = acc[i - 1][p]
             /\ \A k \in 1 .. Len(ss[i]) : acc[i][off[i - 1] + k] = ss[i][k]
  <2> DEFINE a == acc[i - 1]
             b == ss[i]
  <2>0. i \in 0 .. n /\ i - 1 \in 0 .. n
    OBVIOUS
  <2>1. i - 1 \in 0 .. n /\ a \in Seq(A) /\ b \in Seq(A) /\ acc[i] = a \o b
    BY <1>2, <2>0
  <2>2. off[i - 1] = Len(a) /\ off[i] = Len(acc[i])
    BY <1>3, <2>0
  <2> HIDE DEF a, b
  <2>3. /\ Len(a \o b) = Len(a) + Len(b) /\ Len(a) \in Nat /\ Len(b) \in Nat
        /\ \A p \in 1 .. Len(a) : (a \o b)[p] = a[p]
        /\ \A k \in 1 .. Len(b) : (a \o b)[Len(a) + k] = b[k]
    BY <2>1
  <2> QED BY <2>1, <2>2, <2>3 DEF a, b
<1>5. Holds(0)
  BY <1>3
<1>6. ASSUME NEW m \in 1 .. n, Holds(m - 1) PROVE Holds(m)
  <2>1. off[m] = off[m - 1] + Len(ss[m]) /\ off[m - 1] \in Nat /\ Len(ss[m]) \in Nat /\ m - 1 \in 0 .. n
    BY <1>4
  <2>2. \A i \in 0 .. m : off[i] <= off[m]
    <3> SUFFICES ASSUME NEW i \in 0 .. m PROVE off[i] <= off[m]
      OBVIOUS
    <3>1. CASE i = m
      BY <2>1, <3>1
    <3>2. CASE i # m
      <4>1. i \in 0 .. m - 1 /\ i \in 0 .. n
        BY <3>2
      <4>2. off[i] <= off[m - 1] /\ off[i] \in Nat
        BY <1>3, <1>6, <4>1
      <4> QED BY <2>1, <4>2
    <3> QED BY <3>1, <3>2
  <2>3. ASSUME NEW i \in 1 .. m, NEW k \in 1 .. Len(ss[i])
        PROVE  acc[m][off[i - 1] + k] = ss[i][k]
    <3>1. CASE i = m
      BY <1>4, <3>1
    <3>2. CASE i # m
      <4>1. i \in 1 .. m - 1 /\ i \in 1 .. n /\ i \in 0 .. m - 1
        BY <3>2
      <4>2. acc[m - 1][off[i - 1] + k] = ss[i][k]
        BY <1>6, <4>1
      <4>3. off[i] = off[i - 1] + Len(ss[i]) /\ off[i - 1] \in Nat /\ Len(ss[i]) \in Nat
        BY <1>4, <4>1
      <4>4. off[i] <= off[m - 1]
        BY <1>6, <4>1
      <4>5. off[i - 1] + k \in 1 .. off[m - 1]
        BY <2>1, <4>3, <4>4
      <4> QED BY <1>4, <4>2, <4>5
    <3> QED BY <3>1, <3>2
  <2>4. ASSUME NEW p \in 1 .. off[m]
        PROVE  \E i \in 1 .. m : \E k \in 1 .. Len(ss[i]) : p = off[i - 1] + k
    <3>1. CASE p \in 1 .. off[m - 1]
      <4>1. PICK i \in 1 .. m - 1 : \E k \in 1 .. Len(ss[i]) : p = off[i - 1] + k
        BY <1>6, <3>1
      <4> QED BY <4>1
    <3>2. CASE p \notin 1 .. off[m - 1]
      <4> DEFINE k == p - off[m - 1]
      <4>1. k \in 1 .. Len(ss[m]) /\ p = off[m - 1] + k
        BY <2>1, <3>2
      <4> QED BY <4>1
    <3> QED BY <3>1, <3>2
  <2> QED BY <2>2, <2>3, <2>4
<1> HIDE DEF Holds
<1>7. \A m \in 0 .. n : m \in Q
  <2>1. 0 \in Q /\ \A m \in 1 .. n : m - 1 \in Q => m \in Q
    BY <1>5, <1>6
  <2> HIDE DEF Q
  <2> QED BY <2>1, LoopKeeps
<1>8. \A m \in 0 .. n : Holds(m)
  BY <1>7
<1>9. /\ \A i, j \in 0 .. n : i <= j => off[i] <= off[j]
      /\ \A i \in 1 .. n : \A k \in 1 .. Len(ss[i]) : acc[n][off[i - 1] + k] = ss[i][k]
      /\ \A p \in 1 .. off[n] : \E i \in 1 .. n : \E k \in 1 .. Len(ss[i]) : p = off[i - 1] + k
  <2>1. Holds(n)
    BY <1>8
  <2>2. ASSUME NEW i \in 0 .. n, NEW j \in 0 .. n, i <= j PROVE off[i] <= off[j]
    <3>1. i \in 0 .. j /\ Holds(j)
      BY <1>8, <2>2
    <3> QED BY <3>1 DEF Holds
  <2> QED BY <2>1, <2>2 DEF Holds
<1>10. acc[n] \in Seq(A) /\ Len(acc[n]) = off[n]
  <2>1. n \in 0 .. n
    OBVIOUS
  <2> HIDE DEF Q
  <2> QED BY <1>2, <1>3, <2>1
<1>11. Spread(ss, n, off, acc[n])
  BY <1>3, <1>4, <1>9, <1>10 DEF Spread
<1> QED BY <1>1, <1>10, <1>11
-----------------------------------------------------------------------------
(* Those is what a loop over the places has at the end.                    *)
Takes(A, s, stay, taken) ==
    /\ taken \in [0 .. Len(s) -> Seq(A)]
    /\ taken[0] = <<>>
    /\ \A i \in 1 .. Len(s) :
          taken[i] = IF i \in stay THEN Append(taken[i - 1], s[i]) ELSE taken[i - 1]

LEMMA ThoseRuns ==
    ASSUME NEW A, NEW s \in Seq(A), NEW stay
    PROVE  \E taken : Takes(A, s, stay, taken) /\ Those(s, stay) = taken[Len(s)]
<1> DEFINE n == Len(s)
           Onto(list, i) == IF i \in stay THEN Append(list, s[i]) ELSE list
           Is(f) == f = [i \in 0 .. n |-> IF i = 0 THEN <<>> ELSE Onto(f[i - 1], i)]
           taken == CHOOSE f : Is(f)
           V == Seq(A)
           first == <<>>
           turn == [p \in (1 .. n) \X V |-> Onto(p[2], p[1])]
<1>1. n \in Nat /\ \A i \in 1 .. n : s[i] \in A
  OBVIOUS
<1>2. first \in V /\ turn \in Turns(V, n)
  BY <1>1 DEF Turns
<1>3. \A i \in 1 .. n, list \in V : turn[<<i, list>>] = Onto(list, i)
  OBVIOUS
<1>4. first = <<>> /\ V = Seq(A)
  OBVIOUS
<1> HIDE DEF n, V, first, turn, Onto
<1>5. Loops(V, n, first, turn)
  BY <1>1, <1>2, LoopRuns, Zenon
<1>6. PICK f \in [0 .. n -> V] :
        f[0] = first /\ \A i \in 1 .. n : f[i] = turn[<<i, f[i - 1]>>]
  BY <1>5, Zenon DEF Loops
<1>7. ASSUME NEW i \in 1 .. n PROVE f[i] = Onto(f[i - 1], i) /\ i - 1 \in 0 .. n
  <2>1. i - 1 \in 0 .. n
    BY <1>1
  <2>2. f[i - 1] \in V
    BY <1>6, <2>1
  <2> QED BY <1>3, <1>6, <2>1, <2>2
<1>8. ASSUME NEW i \in 0 .. n
      PROVE  f[i] = IF i = 0 THEN <<>> ELSE Onto(f[i - 1], i)
  <2>1. CASE i = 0
    BY <1>4, <1>6, <2>1
  <2>2. CASE i # 0
    <3>1. i \in 1 .. n
      BY <1>1, <2>2
    <3> QED BY <1>7, <2>2, <3>1
  <2> QED BY <2>1, <2>2
<1>9. DOMAIN f = 0 .. n /\ f = [i \in DOMAIN f |-> f[i]]
  BY <1>6
<1>10. Is(f)
  BY <1>8, <1>9
<1>11. Is(taken)
  BY <1>10
<1> HIDE DEF taken
<1>12. taken[0] = <<>> /\ \A i \in 1 .. n : taken[i] = Onto(taken[i - 1], i)
  <2>1. \A i \in 0 .. n : taken[i] = IF i = 0 THEN <<>> ELSE Onto(taken[i - 1], i)
    BY <1>11
  <2>2. 0 \in 0 .. n /\ \A i \in 1 .. n : i \in 0 .. n /\ i # 0
    BY <1>1
  <2> QED BY <2>1, <2>2
<1> DEFINE Q == {i \in 0 .. n : taken[i] = f[i]}
<1>13. 0 \in Q
  BY <1>1, <1>4, <1>6, <1>12
<1>14. ASSUME NEW i \in 1 .. n, i - 1 \in Q PROVE i \in Q
  BY <1>7, <1>12, <1>14
<1>15. \A i \in 0 .. n : taken[i] = f[i]
  <2> HIDE DEF Q
  <2>1. \A i \in 0 .. n : i \in Q
    BY <1>1, <1>13, <1>14, LoopKeeps
  <2> QED BY <2>1 DEF Q
<1>16. Those(s, stay) = taken[n]
  BY Zenon DEF Those, taken, n, Onto
<1>17. Those(s, stay) = f[n]
  BY <1>1, <1>15, <1>16
<1>18. Takes(A, s, stay, f)
  BY <1>4, <1>6, <1>7 DEF Takes, n, Onto
<1> QED BY <1>17, <1>18 DEF n

(* When every place stays, so does the sequence.                           *)
LEMMA ThoseAll ==
    ASSUME NEW A, NEW s \in Seq(A), NEW stay, 1 .. Len(s) \subseteq stay
    PROVE  Those(s, stay) = s
<1> DEFINE n == Len(s)
<1>1. n \in Nat
  OBVIOUS
<1>2. PICK taken : Takes(A, s, stay, taken) /\ Those(s, stay) = taken[n]
  BY ThoseRuns
<1>3. /\ \A i \in 0 .. n : taken[i] \in Seq(A)
      /\ taken[0] = <<>>
      /\ \A i \in 1 .. n : taken[i] = Append(taken[i - 1], s[i]) /\ i - 1 \in 0 .. n
  <2>1. \A i \in 1 .. n : i \in stay /\ i - 1 \in 0 .. n
    OBVIOUS
  <2>2. \A i \in 1 .. n : taken[i] = Append(taken[i - 1], s[i])
    BY <1>2, <2>1 DEF Takes
  <2> QED BY <1>2, <2>1, <2>2 DEF Takes
<1> DEFINE Q == {i \in 0 .. n : Len(taken[i]) = i /\ \A k \in 1 .. i : taken[i][k] = s[k]}
<1>4. 0 \in Q
  BY <1>3
<1>5. ASSUME NEW i \in 1 .. n, i - 1 \in Q PROVE i \in Q
  <2>1. taken[i - 1] \in Seq(A) /\ s[i] \in A /\ taken[i] = Append(taken[i - 1], s[i])
    BY <1>3
  <2>2. Len(taken[i - 1]) = i - 1 /\ \A k \in 1 .. i - 1 : taken[i - 1][k] = s[k]
    BY <1>5
  <2>3. Len(taken[i]) = i /\ \A k \in 1 .. i : taken[i][k] = s[k]
    BY <2>1, <2>2
  <2> QED BY <2>3
<1>6. n \in Q
  <2> HIDE DEF Q, n
  <2>1. \A i \in 0 .. n : i \in Q
    BY <1>1, <1>4, <1>5, LoopKeeps
  <2> QED BY <1>1, <2>1
<1>7. taken[n] \in Seq(A) /\ Len(taken[n]) = n /\ \A k \in 1 .. n : taken[n][k] = s[k]
  BY <1>3, <1>6
<1>8. taken[n] = s
  BY <1>7
<1> QED BY <1>2, <1>8

-----------------------------------------------------------------------------
(* RequestHistory: what becomes of a conversation.                         *)

Refs == [of : Nat, handle : Int]
Said == [role : {"assistant", "user"}, calls : Seq(Refs), results : Seq(Refs), embedded : BOOLEAN]
Msgs == [role : {"assistant", "user", "tool"}, calls : Seq(Refs), result : Refs, blocks : Seq(Refs)]
Entries == [kind : {"call", "result"}, ref : Refs]

(* The calls of a turn: each goes by itself, and no two are one.           *)
MadeCalls(calls) ==
    /\ calls \in Seq(Refs)
    /\ \A x \in 1 .. Len(calls) : calls[x].of # 0 /\ calls[x].handle = calls[x].of
    /\ \A x, y \in 1 .. Len(calls) : calls[x].of = calls[y].of => x = y

(* The results of a turn: in any order by their handles, or in order.      *)
ByHandle(results, calls) ==
    /\ \A x \in 1 .. Len(results) :
          results[x].handle = results[x].of /\ \E y \in 1 .. Len(calls) : results[x] = calls[y]
    /\ \A x, y \in 1 .. Len(results) : results[x].of = results[y].of => x = y
InOrder(results, calls) ==
    \A x \in 1 .. Len(results) : results[x].of = calls[x].of /\ results[x].handle = 0
Answers(results, calls) ==
    /\ Len(results) = Len(calls)
    /\ ByHandle(results, calls) \/ InOrder(results, calls)

SaidBy(cl, t) ==
    /\ t \in Said /\ MadeCalls(t.calls)
    /\ t.role = "assistant" => t.results = <<>>
    /\ t.role = "user" => t.calls = <<>> /\ ~t.embedded
    /\ t.embedded => cl = "openai"

Sensible(cl, ts) ==
    /\ ts \in Seq(Said)
    /\ \A i \in 1 .. Len(ts) :
          /\ SaidBy(cl, ts[i])
          /\ ts[i].results # <<>> => i > 1 /\ Answers(ts[i].results, ts[i - 1].calls)

(* Lifted calls and calls that were there.                                 *)
Held(m) == IF m.calls # <<>> THEN m.calls ELSE m.blocks

(* The pairing of OpenCode Go, from an assistant message at s on.          *)
LEMMA GoPairs ==
    ASSUME NEW l \in Seq(Msgs), NEW s \in 1 .. Len(l), l[s].role = "assistant",
           MadeCalls(l[s].calls),
           NEW R \in Seq(Refs), Answers(R, l[s].calls), s + Len(R) <= Len(l),
           \A k \in 1 .. Len(R) : l[s + k].role = "tool" /\ l[s + k].result = R[k],
           NEW wait, \A i \in 1 .. Len(l) : wait[i] = History!GoStep(wait[i - 1], l[i])
    PROVE  \A k \in 1 .. Len(R) : History!GoResult(wait[s + k - 1], R[k]) = R[k].of
<1> DEFINE K == l[s].calls
           n == Len(R)
           open(k) == {x \in 1 .. n : \A q \in 1 .. k : R[q].of # K[x].of}
           Q == {k \in 0 .. n : wait[s + k] = History!Waiting(History!Handles(K), open(k))}
<1>1. /\ n \in Nat /\ Len(K) = n /\ DOMAIN K = 1 .. n /\ K \in Seq(Refs) /\ s \in Nat
      /\ \A x \in 1 .. n : K[x] \in Refs /\ R[x] \in Refs
      /\ \A x \in 1 .. n : K[x].of # 0 /\ K[x].handle = K[x].of
      /\ \A x, y \in 1 .. n : K[x].of = K[y].of => x = y
  <2>1. K \in Seq(Refs) /\ Len(K) = Len(R)
    BY DEF MadeCalls, Answers
  <2>2. /\ \A x \in 1 .. Len(K) : K[x].of # 0 /\ K[x].handle = K[x].of
        /\ \A x, y \in 1 .. Len(K) : K[x].of = K[y].of => x = y
    BY DEF MadeCalls
  <2> HIDE DEF K
  <2> QED BY <2>1, <2>2
<1>2. History!Handles(K) = [x \in 1 .. n |-> K[x].of]
  BY <1>1 DEF History!Handles
<1>3. ByHandle(R, K) \/ InOrder(R, K)
  BY DEF Answers
<1> HIDE DEF K
<1>4. ASSUME NEW k \in 1 .. n, wait[s + k - 1] = History!Waiting(History!Handles(K), open(k - 1))
      PROVE  /\ History!GoResult(wait[s + k - 1], R[k]) = R[k].of
             /\ wait[s + k] = History!Waiting(History!Handles(K), open(k))
  <2> DEFINE w == wait[s + k - 1]
  <2>1. w.calls = [x \in 1 .. n |-> K[x].of] /\ w.open = open(k - 1)
    <3> DEFINE h == History!Handles(K)
               o == open(k - 1)
    <3>1. w = [calls |-> h, open |-> o]
      BY <1>4, Zenon DEF History!Waiting
    <3> HIDE DEF w, h, o
    <3>2. w.calls = h /\ w.open = o
      BY <3>1
    <3> QED BY <1>2, <3>2 DEF h, o
  <2>2. PICK x \in 1 .. n : x \in open(k - 1) /\ K[x].of = R[k].of
                            /\ (R[k].handle = 0 => \A y \in open(k - 1) : x <= y)
    <3>1. CASE ByHandle(R, K)
      <4>1. PICK x \in 1 .. n : R[k] = K[x]
        BY <1>1, <3>1 DEF ByHandle
      <4>2. R[k].handle # 0
        <5>1. K[x].handle = K[x].of /\ K[x].of # 0
          BY <1>1
        <5> QED BY <4>1, <5>1
      <4>3. \A q \in 1 .. k - 1 : R[q].of # R[k].of
        BY <1>1, <3>1 DEF ByHandle
      <4> QED BY <4>1, <4>2, <4>3
    <3>2. CASE InOrder(R, K)
      <4>1. \A q \in 1 .. n : R[q].of = K[q].of
        BY <3>2 DEF InOrder
      <4>2. \A q \in 1 .. k - 1 : q \in 1 .. n /\ q # k
        BY <1>1
      <4>3. k \in open(k - 1)
        BY <1>1, <4>1, <4>2
      <4>4. ASSUME NEW y \in open(k - 1) PROVE k <= y
        <5>1. y \in 1 .. n /\ ~(y \in 1 .. k - 1)
          BY <1>1, <4>1
        <5> QED BY <1>1, <5>1
      <4> QED BY <4>1, <4>3, <4>4
    <3> QED BY <1>3, <3>1, <3>2
  <2>3. R[k].of # 0 /\ R[k].handle \in {0, R[k].of}
    <3>1. CASE ByHandle(R, K)
      BY <1>1, <2>2, <3>1 DEF ByHandle
    <3>2. CASE InOrder(R, K)
      BY <1>1, <2>2, <3>2 DEF InOrder
    <3> QED BY <1>3, <3>1, <3>2
  <2> HIDE DEF w, open
  <2>4. w.calls[x] = R[k].of /\ x \in w.open
    BY <2>1, <2>2
  <2>5. History!GoResult(w, R[k]) = R[k].of
    <3>1. CASE R[k].handle = R[k].of
      BY <2>3, <2>4, <3>1 DEF History!GoResult, History!Lost
    <3>2. CASE R[k].handle = 0
      <4> DEFINE least == History!Min(w.open)
      <4>1. \A y \in w.open : x <= y /\ y \in 1 .. n
        BY <2>1, <2>2, <3>2 DEF open
      <4>2. least \in w.open /\ \A y \in w.open : least <= y
        BY <2>4, <4>1 DEF History!Min
      <4>3. least = x
        BY <1>1, <2>4, <4>1, <4>2
      <4> HIDE DEF least
      <4>4. w.calls[least] = R[k].of
        BY <2>4, <4>3
      <4> QED BY <2>3, <2>4, <3>2, <4>4 DEF History!GoResult, History!Lost, least
    <3> QED BY <2>3, <3>1, <3>2
  <2>6. History!FirstOpen(w, R[k].of) = {x}
    <3>1. \A y \in w.open : w.calls[y] = R[k].of <=> y = x
      BY <1>1, <2>1, <2>2 DEF open
    <3>2. x <= x
      BY <1>1
    <3> QED BY <2>4, <3>1, <3>2 DEF History!FirstOpen
  <2>7. open(k) = open(k - 1) \ {x}
    <3>1. ASSUME NEW y \in 1 .. n
          PROVE  (\A q \in 1 .. k : R[q].of # K[y].of)
                   <=> (\A q \in 1 .. k - 1 : R[q].of # K[y].of) /\ y # x
      <4>1. R[k].of # K[y].of <=> y # x
        BY <1>1, <2>2
      <4>2. 1 .. k = (1 .. k - 1) \cup {k}
        BY <1>1
      <4> QED BY <4>1, <4>2
    <3> QED BY <3>1 DEF open
  <2>8. wait[s + k] = History!GoStep(w, l[s + k])
    <3>1. s + k \in 1 .. Len(l) /\ (s + k) - 1 = s + k - 1
      BY <1>1
    <3> QED BY <3>1 DEF w
  <2>9. History!GoStep(w, l[s + k])
          = History!Waiting(w.calls, w.open \ History!FirstOpen(w, History!GoResult(w, R[k])))
    BY DEF History!GoStep
  <2> QED BY <1>2, <2>1, <2>5, <2>6, <2>7, <2>8, <2>9 DEF w
<1>5. 0 \in Q
  <2>1. wait[s] = History!Waiting(History!Handles(K), DOMAIN K)
    BY DEF History!GoStep, K
  <2>2. open(0) = 1 .. n /\ s + 0 = s
    BY <1>1
  <2> HIDE DEF open
  <2>3. wait[s + 0] = History!Waiting(History!Handles(K), open(0))
    BY <1>1, <2>1, <2>2
  <2> QED BY <1>1, <2>3
<1>6. ASSUME NEW k \in 1 .. n, k - 1 \in Q PROVE k \in Q
  <2>1. s + (k - 1) = s + k - 1
    BY <1>1
  <2> HIDE DEF open
  <2> QED BY <1>4, <1>6, <2>1
<1>7. \A k \in 0 .. n : k \in Q
  <2> HIDE DEF Q, n
  <2> QED BY <1>1, <1>5, <1>6, LoopKeeps
<1>8. ASSUME NEW k \in 1 .. n PROVE History!GoResult(wait[s + k - 1], R[k]) = R[k].of
  <2>1. k - 1 \in 0 .. n /\ s + (k - 1) = s + k - 1
    BY <1>1
  <2>2. k - 1 \in Q
    BY <1>7, <2>1
  <2> HIDE DEF open
  <2> QED BY <1>4, <2>1, <2>2
<1> QED BY <1>8

(* A result answers one of the calls.                                      *)
LEMMA AnswersOne ==
    ASSUME NEW K, MadeCalls(K), NEW R \in Seq(Refs), Answers(R, K), NEW k \in 1 .. Len(R)
    PROVE  /\ R[k].of # 0 /\ R[k].handle \in {0, R[k].of}
           /\ \E y \in 1 .. Len(K) : K[y] = History!Ref(R[k].of, R[k].of)
<1>1. /\ K \in Seq(Refs) /\ Len(R) = Len(K) /\ k \in 1 .. Len(K)
      /\ ByHandle(R, K) \/ InOrder(R, K)
  BY DEF MadeCalls, Answers
<1>2. \A y \in 1 .. Len(K) : K[y] \in Refs /\ K[y].of # 0 /\ K[y].handle = K[y].of
  BY <1>1 DEF MadeCalls
<1>3. ASSUME NEW y \in 1 .. Len(K), K[y].of = R[k].of
      PROVE  K[y] = History!Ref(R[k].of, R[k].of)
  BY <1>2, <1>3 DEF Refs, History!Ref
<1>4. CASE ByHandle(R, K)
  <2>1. PICK y \in 1 .. Len(K) : R[k] = K[y]
    BY <1>4 DEF ByHandle
  <2>2. K[y].of = R[k].of /\ R[k].handle = R[k].of /\ R[k].of # 0
    BY <1>2, <1>4, <2>1 DEF ByHandle
  <2> QED BY <1>3, <2>2
<1>5. CASE InOrder(R, K)
  BY <1>1, <1>2, <1>3, <1>5 DEF InOrder
<1> QED BY <1>1, <1>4, <1>5

(* An assistant message at s, followed by its results R.                   *)
Run(l, s, R) ==
    /\ s \in 1 .. Len(l) /\ l[s].role = "assistant" /\ MadeCalls(l[s].calls)
    /\ R \in Seq(Refs) /\ Answers(R, l[s].calls) /\ s + Len(R) <= Len(l)
    /\ \A k \in 1 .. Len(R) : l[s + k].role = "tool" /\ l[s + k].result = R[k]

Paired(m) ==
    IF m.role # "tool" THEN m ELSE [m EXCEPT !.result = History!Ref(@.of, @.of)]

(* Where results follow their calls, OpenCode Go's repair drops none.      *)
LEMMA GoFixes ==
    ASSUME NEW l \in Seq(Msgs),
           \A p \in 1 .. Len(l) : l[p].role = "tool" =>
               \E s, R : Run(l, s, R) /\ \E k \in 1 .. Len(R) : p = s + k
    PROVE  History!GoMessages(l) = [p \in 1 .. Len(l) |-> Paired(l[p])]
<1> DEFINE n == Len(l)
           none == History!Waiting(<<>>, {})
           Is(f) == f = [i \in 0 .. n |-> IF i = 0 THEN none ELSE History!GoStep(f[i - 1], l[i])]
           wait == CHOOSE f : Is(f)
           V == [calls : Seq(Int), open : SUBSET Int]
           turn == [p \in (1 .. n) \X V |-> History!GoStep(p[2], l[p[1]])]
<1>1. n \in Nat /\ DOMAIN l = 1 .. n /\ \A i \in 1 .. n : l[i] \in Msgs
  OBVIOUS
<1>2. none \in V
  BY DEF History!Waiting
<1>3. ASSUME NEW w \in V, NEW m \in Msgs PROVE History!GoStep(w, m) \in V
  <2>1. History!Handles(m.calls) \in Seq(Int) /\ DOMAIN m.calls \in SUBSET Int
    <3> DEFINE K == m.calls
               k == Len(K)
    <3>1. K \in Seq(Refs)
      BY DEF Msgs
    <3> HIDE DEF K
    <3>2. k \in Nat /\ DOMAIN K = 1 .. k /\ \A x \in 1 .. k : K[x] \in Refs
      BY <3>1
    <3>3. \A x \in 1 .. k : K[x].handle \in Int
      BY <3>2 DEF Refs
    <3> HIDE DEF k
    <3>4. [x \in 1 .. k |-> K[x].handle] \in [1 .. k -> Int]
      BY <3>3
    <3>5. [x \in 1 .. k |-> K[x].handle] \in Seq(Int)
      BY <3>2, <3>4, SeqDef
    <3>6. History!Handles(K) \in Seq(Int)
      BY <3>2, <3>5 DEF History!Handles
    <3>7. DOMAIN K \in SUBSET Int
      BY <3>2
    <3> QED BY <3>6, <3>7 DEF K
  <2> QED BY <2>1 DEF History!GoStep, History!Waiting
<1> HIDE DEF V, none
<1>4. turn \in Turns(V, n) /\ \A i \in 1 .. n, w \in V : turn[<<i, w>>] = History!GoStep(w, l[i])
  BY <1>1, <1>3 DEF Turns
<1> HIDE DEF turn, n
<1>5. Loops(V, n, none, turn)
  BY <1>1, <1>2, <1>4, LoopRuns, Zenon
<1>6. PICK f \in [0 .. n -> V] :
        f[0] = none /\ \A i \in 1 .. n : f[i] = turn[<<i, f[i - 1]>>]
  BY <1>5, Zenon DEF Loops
<1>7. ASSUME NEW i \in 0 .. n
      PROVE  f[i] = IF i = 0 THEN none ELSE History!GoStep(f[i - 1], l[i])
  <2>1. CASE i = 0
    BY <1>6, <2>1
  <2>2. CASE i # 0
    <3>1. i \in 1 .. n /\ i - 1 \in 0 .. n
      BY <1>1, <2>2
    <3>2. f[i - 1] \in V
      BY <1>6, <3>1
    <3> QED BY <1>4, <1>6, <2>2, <3>1, <3>2
  <2> QED BY <2>1, <2>2
<1>8. DOMAIN f = 0 .. n /\ f = [i \in DOMAIN f |-> f[i]]
  BY <1>6
<1>9. Is(f)
  BY <1>7, <1>8
<1>10. Is(wait)
  BY <1>9
<1> HIDE DEF wait
<1>11. \A i \in 1 .. n : wait[i] = History!GoStep(wait[i - 1], l[i])
  <2>1. \A i \in 1 .. n : i \in 0 .. n /\ i # 0
    BY <1>1
  <2> QED BY <1>10, <2>1
<1> DEFINE handle(i) == History!GoResult(wait[i - 1], l[i].result)
           paired == [i \in DOMAIN l |-> IF l[i].role # "tool" THEN l[i]
                                        ELSE [l[i] EXCEPT !.result = History!Ref(@.of, handle(i))]]
           stay == {i \in DOMAIN paired : paired[i].role = "tool" => paired[i].result.handle # History!Lost}
<1>12. History!GoMessages(l) = Those(paired, stay)
  <2>1. History!GoMessages(l) = History!Those(paired, stay)
    BY Zenon DEF History!GoMessages, wait, n, none
  <2> HIDE DEF paired, stay
  <2>2. History!Those(paired, stay) = Those(paired, stay)
    BY Zenon DEF History!Those, Those
  <2> QED BY <2>1, <2>2
<1>13. ASSUME NEW p \in 1 .. n, l[p].role = "tool"
       PROVE  handle(p) = l[p].result.of /\ l[p].result.of # 0
  <2>1. PICK s, R : Run(l, s, R) /\ \E k \in 1 .. Len(R) : p = s + k
    BY <1>13 DEF n
  <2>2. PICK k \in 1 .. Len(R) : p = s + k
    BY <2>1
  <2>3. History!GoResult(wait[s + k - 1], R[k]) = R[k].of
    <3>1. \A i \in 1 .. Len(l) : wait[i] = History!GoStep(wait[i - 1], l[i])
      BY <1>11 DEF n
    <3>2. /\ s \in 1 .. Len(l) /\ l[s].role = "assistant" /\ MadeCalls(l[s].calls)
          /\ R \in Seq(Refs) /\ Answers(R, l[s].calls) /\ s + Len(R) <= Len(l)
          /\ \A q \in 1 .. Len(R) : l[s + q].role = "tool" /\ l[s + q].result = R[q]
      BY <2>1, Zenon DEF Run
    <3>3. l \in Seq(Msgs)
      OBVIOUS
    <3> HIDE DEF wait
    <3> QED BY <3>1, <3>2, <3>3, GoPairs, Zenon
  <2>4. R[k].of # 0 /\ l[p].result = R[k]
    <3>1. R \in Seq(Refs) /\ MadeCalls(l[s].calls) /\ Answers(R, l[s].calls)
      BY <2>1 DEF Run
    <3>2. l[p].result = R[k]
      BY <2>1, <2>2 DEF Run
    <3> QED BY <3>1, <3>2, AnswersOne
  <2>5. (s + k) - 1 = s + k - 1 /\ p - 1 = s + k - 1
    <3>1. s \in Nat /\ k \in Nat
      BY <2>1, <2>2, <1>1 DEF Run, n
    <3> QED BY <2>2, <3>1
  <2>6. handle(p) = History!GoResult(wait[s + k - 1], R[k])
    BY <2>4, <2>5
  <2> QED BY <2>3, <2>4, <2>6
<1>14. ASSUME NEW p \in 1 .. n
       PROVE  paired[p] = Paired(l[p]) /\ Paired(l[p]) \in Msgs /\ p \in stay
  <2>1. CASE l[p].role # "tool"
    BY <1>1, <2>1 DEF Paired
  <2>2. CASE l[p].role = "tool"
    <3>1. paired[p] = Paired(l[p])
      <4>1. paired[p] = [l[p] EXCEPT !.result = History!Ref(@.of, handle(p))]
        BY <1>1, <2>2
      <4>2. handle(p) = l[p].result.of
        BY <1>13, <2>2
      <4> HIDE DEF handle, paired
      <4> QED BY <2>2, <4>1, <4>2 DEF Paired
    <3>2. l[p] \in Msgs /\ l[p].result.of \in Nat \ {0}
      BY <1>1, <1>13, <2>2 DEF Msgs, Refs
    <3> DEFINE r == History!Ref(l[p].result.of, l[p].result.of)
    <3>3. r \in Refs /\ r.handle = l[p].result.of
      BY <3>2 DEF Refs, History!Ref
    <3>4. Paired(l[p]) = [l[p] EXCEPT !.result = r]
      BY <2>2 DEF Paired
    <3> HIDE DEF r
    <3>5. [l[p] EXCEPT !.result = r] \in Msgs /\ [l[p] EXCEPT !.result = r].result = r
      <4> DEFINE Calls == Seq(Refs)
                 M == [role : {"assistant", "user", "tool"}, calls : Calls, result : Refs, blocks : Calls]
      <4>1. l[p] \in M /\ M = Msgs
        BY <3>2 DEF Msgs
      <4> HIDE DEF Calls
      <4>2. [l[p] EXCEPT !.result = r] \in M /\ [l[p] EXCEPT !.result = r].result = r
        BY <3>3, <4>1
      <4> QED BY <4>1, <4>2
    <3> QED BY <1>1, <3>1, <3>2, <3>3, <3>4, <3>5 DEF History!Lost
  <2> QED BY <2>1, <2>2
<1>15. paired \in Seq(Msgs) /\ Len(paired) = n /\ paired = [p \in 1 .. n |-> Paired(l[p])]
  <2>0. DOMAIN paired = 1 .. n /\ paired = [p \in DOMAIN paired |-> paired[p]]
    BY <1>1
  <2>1. paired = [p \in 1 .. n |-> Paired(l[p])]
    <3> HIDE DEF paired, stay
    <3> QED BY <1>14, <2>0
  <2>2. paired \in [1 .. n -> Msgs]
    BY <1>14, <2>1
  <2> QED BY <1>1, <2>1, <2>2, SeqDef
<1>16. Those(paired, stay) = paired
  <2>1. 1 .. Len(paired) \subseteq stay
    BY <1>14, <1>15
  <2> HIDE DEF paired, stay
  <2> QED BY <1>15, <2>1, ThoseAll
<1> QED BY <1>12, <1>15, <1>16 DEF n

-----------------------------------------------------------------------------
(* The client's dialect to chat messages.                                  *)

Turned(cl, t) ==
    CASE cl = "openai" -> History!OpenaiChat(t)
      [] cl = "claude" -> History!ClaudeChat(t)
      [] cl = "responses" -> History!ResponsesChat(t)

Sound(m) ==
    /\ m \in Msgs /\ MadeCalls(Held(m))
    /\ m.role # "assistant" => m.calls = <<>> /\ m.blocks = <<>>
    /\ m.blocks # <<>> => m.calls = <<>>

(* The messages T of a turn: its results first, and all its calls.         *)
Shape(t, T) ==
    /\ T \in Seq(Msgs) /\ \A k \in 1 .. Len(T) : Sound(T[k])
    /\ Len(t.results) <= Len(T)
    /\ \A k \in 1 .. Len(T) : T[k].role = "tool" <=> k <= Len(t.results)
    /\ \A k \in 1 .. Len(t.results) : T[k].result = t.results[k]
    /\ \A k \in 1 .. Len(T) : T[k].blocks # <<>> => t.embedded
    /\ \A x \in 1 .. Len(t.calls) :
          \E k \in 1 .. Len(T) : \E y \in 1 .. Len(Held(T[k])) : Held(T[k])[y] = t.calls[x]

Sole(t, T) == Len(T) = 1 /\ T[1].role = "assistant" /\ Held(T[1]) = t.calls

LEMMA NoCallsMade == MadeCalls(<<>>) /\ <<>> \in Seq(Refs) /\ History!NoResult \in Refs
  BY DEF MadeCalls, Refs, History!NoResult, History!Ref, History!Lost

IsMsg(m, role, calls, r, blocks) ==
    m \in Msgs /\ m.role = role /\ m.calls = calls /\ m.result = r /\ m.blocks = blocks

LEMMA MsgTyped ==
    ASSUME NEW role \in {"assistant", "user", "tool"}, NEW calls \in Seq(Refs), NEW r \in Refs,
           NEW blocks \in Seq(Refs)
    PROVE  IsMsg(History!Msg(role, calls, r, blocks), role, calls, r, blocks)
<1> DEFINE Calls == Seq(Refs)
           M == [role : {"assistant", "user", "tool"}, calls : Calls, result : Refs, blocks : Calls]
<1>1. calls \in Calls /\ blocks \in Calls
  OBVIOUS
<1>2. M = Msgs
  BY DEF Msgs
<1> HIDE DEF Calls
<1> QED BY <1>1, <1>2 DEF History!Msg, IsMsg

LEMMA ToolSound ==
    ASSUME NEW r \in Refs
    PROVE  LET m == History!ToolMsg(r) IN Sound(m) /\ m.role = "tool" /\ m.result = r /\ m.blocks = <<>>
<1> DEFINE m == History!ToolMsg(r)
<1>1. "tool" \in {"assistant", "user", "tool"}
  OBVIOUS
<1>2. IsMsg(m, "tool", <<>>, r, <<>>)
  BY <1>1, NoCallsMade, MsgTyped, Zenon DEF History!ToolMsg
<1> HIDE DEF m
<1> USE DEF IsMsg
<1>3. Sound(m)
  BY <1>2, NoCallsMade DEF Sound, Held
<1> QED BY <1>2, <1>3 DEF m

LEMMA PlainSound ==
    ASSUME NEW role \in {"assistant", "user"}
    PROVE  LET m == History!Plain(role) IN Sound(m) /\ m.role = role /\ m.blocks = <<>>
<1> DEFINE m == History!Plain(role)
<1>1. role \in {"assistant", "user", "tool"}
  OBVIOUS
<1>2. IsMsg(m, role, <<>>, History!NoResult, <<>>)
  BY <1>1, NoCallsMade, MsgTyped, Zenon DEF History!Plain
<1> HIDE DEF m
<1> USE DEF IsMsg
<1>3. Sound(m)
  BY <1>2, NoCallsMade DEF Sound, Held
<1> QED BY <1>2, <1>3 DEF m

LEMMA CallsSound ==
    ASSUME NEW calls, MadeCalls(calls)
    PROVE  LET m == History!Msg("assistant", calls, History!NoResult, <<>>)
               b == History!Msg("assistant", <<>>, History!NoResult, calls)
           IN  /\ Sound(m) /\ m.role = "assistant" /\ Held(m) = calls /\ m.blocks = <<>>
               /\ Sound(b) /\ b.role = "assistant" /\ Held(b) = calls
<1>1. calls \in Seq(Refs)
  BY DEF MadeCalls
<1> DEFINE m == History!Msg("assistant", calls, History!NoResult, <<>>)
           b == History!Msg("assistant", <<>>, History!NoResult, calls)
<1>2. "assistant" \in {"assistant", "user", "tool"}
  OBVIOUS
<1>3. /\ IsMsg(m, "assistant", calls, History!NoResult, <<>>)
      /\ IsMsg(b, "assistant", <<>>, History!NoResult, calls)
  BY <1>1, <1>2, NoCallsMade, MsgTyped, Zenon
<1> HIDE DEF m, b
<1> USE DEF IsMsg
<1>4. Held(m) = calls /\ Held(b) = calls
  BY <1>3 DEF Held
<1>5. Sound(m) /\ Sound(b)
  BY <1>3, <1>4 DEF Sound
<1> QED BY <1>3, <1>4, <1>5 DEF m, b

(* The results of a turn, a message each.                                  *)
Relayed(rs) == [i \in DOMAIN rs |-> History!ToolMsg(rs[i])]

LEMMA RelayedIs ==
    ASSUME NEW rs \in Seq(Refs)
    PROVE  /\ Relayed(rs) \in Seq(Msgs) /\ Len(Relayed(rs)) = Len(rs)
           /\ \A k \in 1 .. Len(rs) : Relayed(rs)[k] = History!ToolMsg(rs[k])
<1> DEFINE n == Len(rs)
<1>1. n \in Nat /\ DOMAIN rs = 1 .. n /\ \A k \in 1 .. n : rs[k] \in Refs
  OBVIOUS
<1>2. \A k \in 1 .. n : History!ToolMsg(rs[k]) \in Msgs
  BY <1>1, ToolSound DEF Sound
<1> HIDE DEF n
<1>3. Relayed(rs) = [k \in 1 .. n |-> History!ToolMsg(rs[k])]
  BY <1>1 DEF Relayed
<1>4. Relayed(rs) \in [1 .. n -> Msgs]
  BY <1>2, <1>3
<1>5. Relayed(rs) \in Seq(Msgs) /\ Len(Relayed(rs)) = n
  BY <1>1, <1>4, SeqDef
<1> QED BY <1>3, <1>5 DEF n

LEMMA TurnedIs ==
    ASSUME NEW cl \in History!Clients, NEW t, SaidBy(cl, t)
    PROVE  /\ Shape(t, Turned(cl, t))
           /\ cl # "responses" /\ t.calls # <<>> => Sole(t, Turned(cl, t))
<1> DEFINE T == Turned(cl, t)
<1> SUFFICES Shape(t, T) /\ (cl # "responses" /\ t.calls # <<>> => Sole(t, T))
  OBVIOUS
<1>1. /\ t.calls \in Seq(Refs) /\ t.results \in Seq(Refs) /\ MadeCalls(t.calls)
      /\ t.role \in {"assistant", "user"} /\ t.embedded \in BOOLEAN
      /\ t.role = "assistant" => t.results = <<>>
      /\ t.role = "user" => t.calls = <<>>
      /\ t.embedded => cl = "openai"
  BY DEF SaidBy, Said
<1>2. ASSUME NEW m, Sound(m), m.role = "assistant", Held(m) = t.calls, t.results = <<>>,
             T = <<m>>, m.blocks # <<>> => t.embedded
      PROVE  Shape(t, T) /\ Sole(t, T)
  <2>1. m \in Msgs
    BY <1>2 DEF Sound
  <2>2. T \in Seq(Msgs) /\ Len(T) = 1 /\ T[1] = m
    BY <1>2, <2>1
  <2> HIDE DEF T
  <2> QED BY <1>1, <1>2, <2>2 DEF Shape, Sole
<1>3. ASSUME t.calls = <<>>, T = Relayed(t.results), t.results # <<>>
      PROVE  Shape(t, T)
  <2>1. T \in Seq(Msgs) /\ Len(T) = Len(t.results) /\ \A k \in 1 .. Len(T) : T[k] = History!ToolMsg(t.results[k])
    BY <1>1, <1>3, RelayedIs
  <2>2. \A k \in 1 .. Len(T) : t.results[k] \in Refs
    BY <1>1, <2>1
  <2> HIDE DEF T
  <2>3. \A k \in 1 .. Len(T) : Sound(T[k]) /\ T[k].role = "tool" /\ T[k].result = t.results[k] /\ T[k].blocks = <<>>
    BY <2>1, <2>2, ToolSound
  <2> QED BY <1>3, <2>1, <2>3 DEF Shape
<1>4. ASSUME t.calls = <<>>, t.results = <<>>, NEW role \in {"assistant", "user"},
             T = <<History!Plain(role)>>
      PROVE  Shape(t, T)
  <2> DEFINE m == History!Plain(role)
  <2>1. Sound(m) /\ m.role # "tool" /\ m.blocks = <<>>
    BY PlainSound
  <2>2. T = <<m>> /\ m \in Msgs
    BY <1>4, <2>1 DEF Sound
  <2> HIDE DEF m, T
  <2>3. T \in Seq(Msgs) /\ Len(T) = 1 /\ T[1] = m
    BY <2>2
  <2> QED BY <1>1, <1>4, <2>1, <2>3 DEF Shape
<1>5. CASE cl = "openai"
  <2>1. T = History!OpenaiChat(t)
    BY <1>5 DEF Turned
  <2>2. CASE t.role = "assistant"
    <3> DEFINE m == History!Msg("assistant", t.calls, History!NoResult, <<>>)
               b == History!Msg("assistant", <<>>, History!NoResult, t.calls)
    <3>1. T = IF t.embedded THEN <<b>> ELSE <<m>>
      <4> HIDE DEF T
      <4>1. T = <<History!Msg("assistant", IF t.embedded THEN <<>> ELSE t.calls, History!NoResult,
                              IF t.embedded THEN t.calls ELSE <<>>)>>
        BY <1>1, <2>1, <2>2 DEF History!OpenaiChat
      <4>2. CASE t.embedded
        BY <4>1, <4>2, Zenon
      <4>3. CASE ~t.embedded
        BY <4>1, <4>3, Zenon
      <4> QED BY <4>2, <4>3
    <3>2. /\ Sound(m) /\ m.role = "assistant" /\ Held(m) = t.calls /\ m.blocks = <<>>
          /\ Sound(b) /\ b.role = "assistant" /\ Held(b) = t.calls
      BY <1>1, CallsSound
    <3> HIDE DEF m, b, T
    <3> QED BY <1>1, <1>2, <2>2, <3>1, <3>2 
  <2>3. CASE t.role = "user"
    <3>1. T = IF t.results # <<>> THEN Relayed(t.results) ELSE <<History!Plain("user")>>
      BY <2>1, <2>3 DEF History!OpenaiChat, Relayed
    <3> HIDE DEF T
    <3> QED BY <1>1, <1>3, <1>4, <2>3, <3>1
  <2> QED BY <1>1, <2>2, <2>3
<1>6. CASE cl = "claude"
  <2>1. T = History!ClaudeChat(t) /\ ~t.embedded
    BY <1>1, <1>6 DEF Turned
  <2>2. CASE t.role = "assistant"
    <3> DEFINE m == History!Msg("assistant", t.calls, History!NoResult, <<>>)
    <3>1. T = <<m>>
      BY <2>1, <2>2 DEF History!ClaudeChat
    <3>2. Sound(m) /\ m.role = "assistant" /\ Held(m) = t.calls /\ m.blocks = <<>>
      BY <1>1, CallsSound
    <3> HIDE DEF m, T
    <3> QED BY <1>1, <1>2, <2>2, <3>1, <3>2
  <2>3. CASE t.role = "user"
    <3> DEFINE u == History!Plain("user")
               R == Relayed(t.results)
               n == Len(t.results)
    <3>1. T = R \o <<u>>
      BY <2>1, <2>3 DEF History!ClaudeChat, Relayed
    <3>2. Sound(u) /\ u.role = "user" /\ u.blocks = <<>>
      BY PlainSound
    <3>3. R \in Seq(Msgs) /\ Len(R) = n /\ n \in Nat /\ \A k \in 1 .. n : R[k] = History!ToolMsg(t.results[k])
      BY <1>1, RelayedIs
    <3>4. \A k \in 1 .. n : Sound(R[k]) /\ R[k].role = "tool" /\ R[k].result = t.results[k] /\ R[k].blocks = <<>>
      BY <1>1, <3>3, ToolSound
    <3>5. u \in Msgs /\ t.calls = <<>>
      BY <1>1, <2>3, <3>2 DEF Sound
    <3> HIDE DEF u, R, T, n
    <3>6. /\ T \in Seq(Msgs) /\ Len(T) = n + 1 /\ T[n + 1] = u
          /\ \A k \in 1 .. n : T[k] = R[k]
      BY <3>1, <3>3, <3>5
    <3>7. \A k \in 1 .. n + 1 : Sound(T[k]) /\ (T[k].role = "tool" <=> k <= n) /\ T[k].blocks = <<>>
      <4>1. \A k \in 1 .. n + 1 : k \in 1 .. n \/ (k = n + 1 /\ ~(k <= n))
        BY <3>3
      <4> QED BY <3>2, <3>3, <3>4, <3>6, <4>1
    <3>8. \A k \in 1 .. n : T[k].result = t.results[k]
      BY <3>4, <3>6
    <3> QED BY <3>3, <3>5, <3>6, <3>7, <3>8 DEF Shape, n
  <2> QED BY <1>1, <2>2, <2>3
<1>7. CASE cl = "responses"
  <2>1. T = History!ResponsesChat(t) /\ ~t.embedded
    BY <1>1, <1>7 DEF Turned
  <2>2. CASE t.calls # <<>>
    <3> DEFINE n == Len(t.calls)
               m(i) == History!Msg("assistant", <<t.calls[i]>>, History!NoResult, <<>>)
    <3>1. n \in Nat /\ DOMAIN t.calls = 1 .. n /\ t.results = <<>>
      BY <1>1, <2>2
    <3>2. T = [i \in 1 .. n |-> m(i)]
      BY <2>1, <2>2, <3>1 DEF History!ResponsesChat
    <3>3. ASSUME NEW i \in 1 .. n
          PROVE  Sound(m(i)) /\ m(i).role = "assistant" /\ Held(m(i)) = <<t.calls[i]>> /\ m(i).blocks = <<>>
      <4>1. t.calls[i] \in Refs /\ t.calls[i].of # 0 /\ t.calls[i].handle = t.calls[i].of
        BY <1>1, <3>1 DEF MadeCalls
      <4>2. MadeCalls(<<t.calls[i]>>)
        BY <4>1 DEF MadeCalls
      <4> QED BY <4>2, CallsSound
    <3> HIDE DEF m
    <3>4. T \in [1 .. n -> Msgs]
      BY <3>2, <3>3 DEF Sound
    <3> HIDE DEF T
    <3>5. T \in Seq(Msgs) /\ Len(T) = n
      BY <3>1, <3>4, SeqDef
    <3>6. \A i \in 1 .. n : /\ Sound(T[i]) /\ T[i].role = "assistant" /\ T[i].blocks = <<>>
                            /\ 1 \in 1 .. Len(Held(T[i])) /\ Held(T[i])[1] = t.calls[i]
      BY <3>2, <3>3
    <3> QED BY <1>7, <3>1, <3>5, <3>6 DEF Shape, n
  <2>3. CASE t.calls = <<>>
    <3>1. T = IF t.results # <<>> THEN Relayed(t.results) ELSE <<History!Plain(t.role)>>
      BY <2>1, <2>3 DEF History!ResponsesChat, Relayed
    <3> HIDE DEF T
    <3> QED BY <1>1, <1>3, <1>4, <2>3, <3>1
  <2> QED BY <2>2, <2>3
<1> QED BY <1>5, <1>6, <1>7 DEF History!Clients

(* A result and the call it answers.                                       *)
Answering(ref, K) ==
    /\ ref.of # 0 /\ ref.handle \in {0, ref.of}
    /\ \E y \in 1 .. Len(K) : K[y] = History!Ref(ref.of, ref.of)

Chatted(cl, ts) == Flat([i \in DOMAIN ts |-> Turned(cl, ts[i])])

(* The messages c of the turns ts.                                         *)
Follows(ts, c) ==
    /\ c \in Seq(Msgs) /\ \A p \in 1 .. Len(c) : Sound(c[p])
    /\ \A p \in 1 .. Len(c) :
          c[p].role = "tool" => \E q \in 1 .. p - 1 : Answering(c[p].result, Held(c[q]))
    /\ \A p \in 1 .. Len(c) : c[p].blocks # <<>> => \E i \in 1 .. Len(ts) : ts[i].embedded
    /\ \A i \in 1 .. Len(ts) : \A x \in 1 .. Len(ts[i].calls) :
          \E q \in 1 .. Len(c) : \E y \in 1 .. Len(Held(c[q])) : Held(c[q])[y] = ts[i].calls[x]
    /\ \A i \in 1 .. Len(ts) : \A x \in 1 .. Len(ts[i].results) :
          \E p \in 1 .. Len(c) : c[p].role = "tool" /\ c[p].result = ts[i].results[x]

(* An assistant message at s, followed by its results R, as yet unlifted.  *)
Raw(c, s, R) ==
    /\ s \in 1 .. Len(c) /\ c[s].role = "assistant" /\ MadeCalls(Held(c[s]))
    /\ R \in Seq(Refs) /\ Answers(R, Held(c[s])) /\ s + Len(R) <= Len(c)
    /\ \A k \in 1 .. Len(R) : c[s + k].role = "tool" /\ c[s + k].result = R[k]

LEMMA ChattedIs ==
    ASSUME NEW cl \in History!Clients, NEW ts, Sensible(cl, ts)
    PROVE  /\ Follows(ts, Chatted(cl, ts))
           /\ cl # "responses" =>
                 \A p \in 1 .. Len(Chatted(cl, ts)) : Chatted(cl, ts)[p].role = "tool" =>
                     \E s, R : Raw(Chatted(cl, ts), s, R) /\ \E k \in 1 .. Len(R) : p = s + k
<1> DEFINE n == Len(ts)
           ss == [i \in 1 .. n |-> Turned(cl, ts[i])]
           c == Chatted(cl, ts)
<1> SUFFICES /\ Follows(ts, c)
             /\ cl # "responses" =>
                   \A p \in 1 .. Len(c) : c[p].role = "tool" =>
                       \E s, R : Raw(c, s, R) /\ \E k \in 1 .. Len(R) : p = s + k
  OBVIOUS
<1>1. n \in Nat /\ DOMAIN ts = 1 .. n /\ c = Flat(ss)
  <2>1. ts \in Seq(Said)
    BY DEF Sensible
  <2> QED BY <2>1 DEF Chatted
<1>2. ASSUME NEW i \in 1 .. n
      PROVE  /\ SaidBy(cl, ts[i]) /\ MadeCalls(ts[i].calls)
             /\ ts[i].calls \in Seq(Refs) /\ ts[i].results \in Seq(Refs)
             /\ ts[i].results # <<>> => i > 1 /\ Answers(ts[i].results, ts[i - 1].calls)
             /\ Shape(ts[i], ss[i])
             /\ cl # "responses" /\ ts[i].calls # <<>> => Sole(ts[i], ss[i])
  <2>1. /\ SaidBy(cl, ts[i])
        /\ ts[i].results # <<>> => i > 1 /\ Answers(ts[i].results, ts[i - 1].calls)
    BY DEF Sensible
  <2>2. MadeCalls(ts[i].calls) /\ ts[i].calls \in Seq(Refs) /\ ts[i].results \in Seq(Refs)
    BY <2>1 DEF SaidBy, Said
  <2>3. Shape(ts[i], ss[i]) /\ (cl # "responses" /\ ts[i].calls # <<>> => Sole(ts[i], ss[i]))
    BY <2>1, TurnedIs
  <2> QED BY <2>1, <2>2, <2>3
<1>3. ss \in [1 .. n -> Seq(Msgs)]
  BY <1>2 DEF Shape
<1> HIDE DEF ss, c, n
<1>4. c \in Seq(Msgs) /\ \E off : Spread(ss, n, off, c)
  BY <1>1, <1>3, FlatSpreads
<1>5. PICK off : Spread(ss, n, off, c)
  BY <1>4
<1>6. /\ off \in [0 .. n -> Nat] /\ Len(c) = off[n] /\ n \in 0 .. n
      /\ \A i \in 1 .. n : off[i] = off[i - 1] + Len(ss[i])
      /\ \A i \in 1 .. n : \A k \in 1 .. Len(ss[i]) : c[off[i - 1] + k] = ss[i][k]
      /\ \A i, j \in 0 .. n : i <= j => off[i] <= off[j]
      /\ \A p \in 1 .. Len(c) : \E i \in 1 .. n : \E k \in 1 .. Len(ss[i]) : p = off[i - 1] + k
  BY <1>1, <1>5 DEF Spread
<1>7. ASSUME NEW i \in 1 .. n, NEW k \in 1 .. Len(ss[i])
      PROVE  /\ off[i - 1] + k \in 1 .. Len(c) /\ c[off[i - 1] + k] = ss[i][k]
             /\ off[i - 1] \in Nat /\ off[i] \in Nat /\ k \in Nat
             /\ off[i - 1] + k <= off[i] /\ off[i] <= Len(c)
  <2>1. i \in 0 .. n /\ i - 1 \in 0 .. n /\ i <= n
    BY <1>1
  <2>2. off[i] \in Nat /\ off[i - 1] \in Nat /\ Len(c) \in Nat
    BY <1>4, <1>6, <2>1
  <2>3. off[i] <= Len(c) /\ off[i] = off[i - 1] + Len(ss[i])
    BY <1>6, <2>1
  <2>4. k \in Nat /\ 1 <= k /\ k <= Len(ss[i])
    <3>1. ss[i] \in Seq(Msgs)
      BY <1>3
    <3> QED BY <3>1
  <2>5. c[off[i - 1] + k] = ss[i][k]
    BY <1>6
  <2>6. Len(ss[i]) \in Nat
    <3>1. ss[i] \in Seq(Msgs)
      BY <1>3
    <3> QED BY <3>1
  <2> QED BY <2>2, <2>3, <2>4, <2>5, <2>6
<1>8. ASSUME NEW p \in 1 .. Len(c)
      PROVE  Sound(c[p]) /\ (c[p].blocks # <<>> => \E i \in 1 .. n : ts[i].embedded)
  <2>1. PICK i \in 1 .. n : \E k \in 1 .. Len(ss[i]) : p = off[i - 1] + k
    BY <1>6
  <2>2. PICK k \in 1 .. Len(ss[i]) : p = off[i - 1] + k
    BY <2>1
  <2>3. c[p] = ss[i][k] /\ Shape(ts[i], ss[i])
    BY <1>2, <1>7, <2>2
  <2> QED BY <2>3 DEF Shape
<1>9. ASSUME NEW i \in 1 .. n, NEW x \in 1 .. Len(ts[i].calls)
      PROVE  \E q \in 1 .. Len(c) : q <= off[i] /\ \E y \in 1 .. Len(Held(c[q])) : Held(c[q])[y] = ts[i].calls[x]
  <2>1. PICK k \in 1 .. Len(ss[i]) : \E y \in 1 .. Len(Held(ss[i][k])) : Held(ss[i][k])[y] = ts[i].calls[x]
    BY <1>2 DEF Shape
  <2>2. off[i - 1] + k \in 1 .. Len(c) /\ c[off[i - 1] + k] = ss[i][k] /\ off[i - 1] + k <= off[i]
    BY <1>7
  <2> QED BY <2>1, <2>2
<1>10. ASSUME NEW i \in 1 .. n, NEW x \in 1 .. Len(ts[i].results)
       PROVE  /\ off[i - 1] + x \in 1 .. Len(c)
              /\ c[off[i - 1] + x].role = "tool" /\ c[off[i - 1] + x].result = ts[i].results[x]
  <2>1. Len(ts[i].results) \in Nat /\ Len(ss[i]) \in Nat
    BY <1>2, <1>3
  <2>2. x \in 1 .. Len(ss[i]) /\ x <= Len(ts[i].results)
    BY <1>2, <2>1 DEF Shape
  <2>3. off[i - 1] + x \in 1 .. Len(c) /\ c[off[i - 1] + x] = ss[i][x]
    BY <1>7, <2>2
  <2>4. ss[i][x].role = "tool" /\ ss[i][x].result = ts[i].results[x]
    BY <1>2, <2>2 DEF Shape
  <2> QED BY <2>3, <2>4
<1>11. ASSUME NEW p \in 1 .. Len(c), c[p].role = "tool"
       PROVE  \E i \in 2 .. n : \E k \in 1 .. Len(ts[i].results) :
                 /\ p = off[i - 1] + k /\ c[p].result = ts[i].results[k]
                 /\ Answers(ts[i].results, ts[i - 1].calls) /\ off[i - 1] < p
  <2>1. PICK i \in 1 .. n : \E k \in 1 .. Len(ss[i]) : p = off[i - 1] + k
    BY <1>6
  <2>2. PICK k \in 1 .. Len(ss[i]) : p = off[i - 1] + k
    BY <2>1
  <2>3. c[p] = ss[i][k] /\ Shape(ts[i], ss[i]) /\ off[i - 1] \in Nat /\ k \in Nat /\ k >= 1
    BY <1>2, <1>7, <2>2
  <2>4. k \in 1 .. Len(ts[i].results) /\ ts[i].results \in Seq(Refs)
    BY <1>2, <1>11, <2>3 DEF Shape
  <2>5. ts[i].results # <<>>
    BY <2>4
  <2>6. i \in 2 .. n /\ Answers(ts[i].results, ts[i - 1].calls)
    BY <1>1, <1>2, <2>5
  <2>7. ss[i][k].result = ts[i].results[k]
    BY <2>3, <2>4 DEF Shape
  <2>8. off[i - 1] < p /\ c[p].result = ts[i].results[k]
    BY <2>2, <2>3, <2>7
  <2> QED BY <2>2, <2>4, <2>6, <2>8, Zenon
<1>12. ASSUME NEW p \in 1 .. Len(c), c[p].role = "tool"
       PROVE  \E q \in 1 .. p - 1 : Answering(c[p].result, Held(c[q]))
  <2>1. PICK i \in 2 .. n : \E k \in 1 .. Len(ts[i].results) :
              /\ p = off[i - 1] + k /\ c[p].result = ts[i].results[k]
              /\ Answers(ts[i].results, ts[i - 1].calls) /\ off[i - 1] < p
    BY <1>11, <1>12
  <2>2. PICK k \in 1 .. Len(ts[i].results) :
              /\ p = off[i - 1] + k /\ c[p].result = ts[i].results[k]
              /\ Answers(ts[i].results, ts[i - 1].calls) /\ off[i - 1] < p
    BY <2>1
  <2>3. i \in 1 .. n /\ i - 1 \in 1 .. n
    BY <1>1
  <2> DEFINE R == ts[i].results
             K == ts[i - 1].calls
  <2>4. MadeCalls(K) /\ K \in Seq(Refs) /\ R \in Seq(Refs) /\ Answers(R, K) /\ k \in 1 .. Len(R)
    BY <1>2, <2>2, <2>3
  <2> HIDE DEF R, K
  <2>5. /\ R[k].of # 0 /\ R[k].handle \in {0, R[k].of}
        /\ \E x \in 1 .. Len(K) : K[x] = History!Ref(R[k].of, R[k].of)
    BY <2>4, AnswersOne
  <2>6. PICK x \in 1 .. Len(K) : K[x] = History!Ref(R[k].of, R[k].of)
    BY <2>5
  <2>7. PICK q \in 1 .. Len(c) : q <= off[i - 1] /\ \E y \in 1 .. Len(Held(c[q])) : Held(c[q])[y] = K[x]
    BY <1>9, <2>3, <2>6 DEF K
  <2>8. q \in 1 .. p - 1
    <3>1. off[i - 1] \in Nat
      <4>1. i - 1 \in 0 .. n
        BY <2>3
      <4> QED BY <1>6, <4>1
    <3> QED BY <2>2, <2>7, <3>1
  <2>9. c[p].result = R[k]
    BY <2>2 DEF R
  <2> QED BY <2>5, <2>6, <2>7, <2>8, <2>9 DEF Answering
<1>13. Follows(ts, c)
  <2>1. \A i \in 1 .. n : \A x \in 1 .. Len(ts[i].results) :
          \E p \in 1 .. Len(c) : c[p].role = "tool" /\ c[p].result = ts[i].results[x]
    BY <1>10
  <2> QED BY <1>4, <1>8, <1>9, <1>12, <2>1 DEF Follows, n
<1>14. ASSUME cl # "responses", NEW p \in 1 .. Len(c), c[p].role = "tool"
       PROVE  \E s, R : Raw(c, s, R) /\ \E k \in 1 .. Len(R) : p = s + k
  <2>1. PICK i \in 2 .. n : \E k \in 1 .. Len(ts[i].results) :
              /\ p = off[i - 1] + k /\ c[p].result = ts[i].results[k]
              /\ Answers(ts[i].results, ts[i - 1].calls) /\ off[i - 1] < p
    BY <1>11, <1>14
  <2>2. PICK k \in 1 .. Len(ts[i].results) :
              /\ p = off[i - 1] + k /\ c[p].result = ts[i].results[k]
              /\ Answers(ts[i].results, ts[i - 1].calls) /\ off[i - 1] < p
    BY <2>1
  <2> DEFINE R == ts[i].results
             j == i - 1
             s == off[j]
  <2>3. i \in 1 .. n /\ j \in 1 .. n /\ j \in 0 .. n /\ i - 1 = j
    BY <1>1
  <2>4. R \in Seq(Refs) /\ Answers(R, ts[j].calls) /\ k \in 1 .. Len(R) /\ ts[j].calls \in Seq(Refs)
    BY <1>2, <2>2, <2>3
  <2>5. ts[j].calls # <<>>
    <3> DEFINE K == ts[j].calls
    <3>1. K \in Seq(Refs) /\ Len(R) = Len(K) /\ Len(K) > 0
      BY <2>4 DEF Answers
    <3> HIDE DEF K
    <3>2. K # <<>>
      BY <3>1
    <3> QED BY <3>2 DEF K
  <2>6. Sole(ts[j], ss[j]) /\ Shape(ts[j], ss[j]) /\ MadeCalls(ts[j].calls)
    BY <1>2, <1>14, <2>3, <2>5
  <2>7. 1 \in 1 .. Len(ss[j]) /\ Len(ss[j]) = 1
    BY <2>6 DEF Sole
  <2>8. /\ off[j - 1] + 1 \in 1 .. Len(c) /\ c[off[j - 1] + 1] = ss[j][1]
        /\ s = off[j - 1] + 1
    BY <1>6, <1>7, <2>3, <2>7
  <2>9. /\ s \in 1 .. Len(c) /\ c[s].role = "assistant" /\ Held(c[s]) = ts[j].calls
    BY <2>6, <2>8 DEF Sole
  <2>10. \A x \in 1 .. Len(R) : s + x \in 1 .. Len(c) /\ c[s + x].role = "tool" /\ c[s + x].result = R[x]
    BY <1>10, <2>3
  <2> HIDE DEF R, s
  <2>11. s + Len(R) <= Len(c)
    <3>1. Len(R) \in 1 .. Len(R)
      BY <2>4
    <3> QED BY <2>10, <3>1
  <2>12. Raw(c, s, R)
    BY <2>4, <2>6, <2>9, <2>10, <2>11 DEF Raw
  <2>13. p = s + k
    BY <2>2 DEF s
  <2> QED BY <2>4, <2>12, <2>13
<1> QED BY <1>13, <1>14

-----------------------------------------------------------------------------
(* Repairs.                                                                *)

Mended(tg, c) ==
    IF tg.wire # "openai" THEN c
    ELSE LET lifted == [i \in DOMAIN c |-> History!Lifted(c[i])]
         IN  IF tg.go THEN History!GoMessages(lifted) ELSE lifted

LEMMA LiftedIs ==
    ASSUME NEW m, Sound(m)
    PROVE  LET l == History!Lifted(m)
           IN  l \in Msgs /\ l.role = m.role /\ l.result = m.result /\ l.calls = Held(m)
<1> DEFINE l == History!Lifted(m)
           B == m.blocks
           kept == Those(B, History!FirstOfEach(B))
           made == [m EXCEPT !.blocks = <<>>, !.calls = B]
<1>1. /\ m \in Msgs /\ MadeCalls(Held(m)) /\ m.calls \in Seq(Refs) /\ B \in Seq(Refs)
      /\ m.role # "assistant" => m.calls = <<>> /\ m.blocks = <<>>
      /\ m.blocks # <<>> => m.calls = <<>>
  BY DEF Sound, Msgs
<1>2. CASE m.role # "assistant" \/ m.blocks = <<>>
  <2>1. l = m
    BY <1>2 DEF History!Lifted
  <2>2. m.calls = Held(m)
    BY <1>1, <1>2 DEF Held
  <2> QED BY <1>1, <2>1, <2>2
<1>3. CASE m.role = "assistant" /\ m.blocks # <<>>
  <2>1. m.calls = <<>> /\ Held(m) = B
    BY <1>1, <1>3 DEF Held
  <2>2. MadeCalls(B)
    BY <1>1, <2>1
  <2> HIDE DEF B, made
  <2>3. kept = B
    <3>1. 1 .. Len(B) \subseteq History!FirstOfEach(B)
      <4>1. DOMAIN B = 1 .. Len(B) /\ Len(B) \in Nat
        BY <1>1
      <4>2. \A x, y \in 1 .. Len(B) : B[x].handle = B[y].handle => x = y
        <5>1. \A x \in 1 .. Len(B) : B[x].handle = B[x].of
          BY <2>2 DEF MadeCalls
        <5> QED BY <2>2, <5>1 DEF MadeCalls
      <4>3. \A x \in 1 .. Len(B) : \A y \in 1 .. x - 1 : y \in 1 .. Len(B) /\ y # x
        BY <4>1
      <4> QED BY <4>1, <4>2, <4>3 DEF History!FirstOfEach
    <3> QED BY <1>1, <3>1, ThoseAll
  <2>4. l = made
    <3>1. History!Those(B, History!FirstOfEach(B)) = kept
      BY Zenon DEF History!Those, Those
    <3>2. l = [m EXCEPT !.blocks = <<>>, !.calls = IF m.calls # <<>> THEN @ ELSE kept]
      BY <1>3, <3>1 DEF History!Lifted, B
    <3> QED BY <2>1, <2>3, <3>2 DEF made
  <2>5. made \in Msgs /\ made.role = m.role /\ made.result = m.result /\ made.calls = B
    <3> DEFINE Calls == Seq(Refs)
               M == [role : {"assistant", "user", "tool"}, calls : Calls, result : Refs, blocks : Calls]
    <3>1. m \in M /\ M = Msgs /\ B \in Calls /\ <<>> \in Calls
      BY <1>1 DEF Msgs
    <3> HIDE DEF Calls
    <3> QED BY <3>1 DEF made
  <2> QED BY <2>1, <2>4, <2>5
<1> QED BY <1>2, <1>3

(* The messages d that stand for c: none is lost, and all calls are lifted.*)
StandsFor(c, d) ==
    /\ d \in Seq(Msgs) /\ Len(d) = Len(c)
    /\ \A p \in 1 .. Len(c) :
          /\ d[p].role = c[p].role /\ d[p].calls = Held(c[p])
          /\ c[p].role = "tool" => /\ d[p].result.of = c[p].result.of
                                   /\ d[p].result.handle \in {0, d[p].result.of}

(* What the property excepts: blocks for a wire that has none, and calls   *)
(* of Responses for OpenCode Go.                                           *)
Followed(cl, tg, ts) ==
    /\ tg.wire = "openai" \/ \A i \in 1 .. Len(ts) : ~ts[i].embedded
    /\ ~(tg.go /\ cl = "responses")

LEMMA MendedStands ==
    ASSUME NEW cl \in History!Clients, NEW ts, Sensible(cl, ts), NEW tg \in History!Targets,
           Followed(cl, tg, ts)
    PROVE  StandsFor(Chatted(cl, ts), Mended(tg, Chatted(cl, ts)))
<1> DEFINE c == Chatted(cl, ts)
           n == Len(c)
           l == [i \in 1 .. n |-> History!Lifted(c[i])]
           d == Mended(tg, c)
<1> SUFFICES StandsFor(c, d)
  OBVIOUS
<1>1. /\ Follows(ts, c)
      /\ cl # "responses" =>
            \A p \in 1 .. n : c[p].role = "tool" => \E s, R : Raw(c, s, R) /\ \E k \in 1 .. Len(R) : p = s + k
  BY ChattedIs
<1> HIDE DEF c
<1>2. /\ c \in Seq(Msgs) /\ n \in Nat /\ DOMAIN c = 1 .. n
      /\ \A p \in 1 .. n : Sound(c[p]) /\ c[p] \in Msgs
  BY <1>1 DEF Follows
<1>3. \A p \in 1 .. n : c[p].role = "tool" => c[p].result.handle \in {0, c[p].result.of}
  BY <1>1 DEF Follows, Answering
<1>4. CASE tg.wire # "openai"
  <2>1. d = c
    BY <1>4 DEF Mended
  <2>2. \A p \in 1 .. n : c[p].blocks = <<>>
    BY <1>1, <1>4 DEF Followed, Follows
  <2>3. \A p \in 1 .. n : c[p].calls = Held(c[p])
    BY <2>2 DEF Held
  <2> HIDE DEF d
  <2> QED BY <1>2, <1>3, <2>1, <2>3 DEF StandsFor
<1>5. CASE tg.wire = "openai"
  <2>1. \A p \in 1 .. n : /\ l[p] \in Msgs /\ l[p].role = c[p].role
                          /\ l[p].result = c[p].result /\ l[p].calls = Held(c[p])
    BY <1>2, LiftedIs
  <2>2. l \in [1 .. n -> Msgs]
    BY <2>1
  <2>3. d = IF tg.go THEN History!GoMessages(l) ELSE l
    BY <1>2, <1>5 DEF Mended
  <2> HIDE DEF l, d, n
  <2>4. l \in Seq(Msgs) /\ Len(l) = n
    BY <1>2, <2>2, SeqDef
  <2>5. CASE ~tg.go
    <3>1. d = l
      BY <2>3, <2>5
    <3> QED BY <1>2, <1>3, <2>1, <2>4, <3>1 DEF StandsFor, n
  <2>6. CASE tg.go
    <3>1. cl # "responses"
      BY <2>6 DEF Followed
    <3>2. ASSUME NEW s, NEW R, Raw(c, s, R) PROVE Run(l, s, R)
      <4>1. s \in 1 .. n /\ Len(R) \in Nat /\ s + Len(R) <= n
        BY <3>2 DEF Raw, n
      <4>2. \A k \in 1 .. Len(R) : s + k \in 1 .. n
        BY <1>2, <4>1
      <4> QED BY <2>1, <2>4, <3>2, <4>1, <4>2 DEF Raw, Run, n
    <3>3. \A p \in 1 .. Len(l) : l[p].role = "tool" =>
              \E s, R : Run(l, s, R) /\ \E k \in 1 .. Len(R) : p = s + k
      BY <1>1, <2>1, <2>4, <3>1, <3>2
    <3>4. History!GoMessages(l) = [p \in 1 .. Len(l) |-> Paired(l[p])]
      BY <2>4, <3>3, GoFixes
    <3>5. d = [p \in 1 .. n |-> Paired(l[p])]
      BY <2>3, <2>4, <2>6, <3>4
    <3>6. ASSUME NEW p \in 1 .. n
          PROVE  /\ Paired(l[p]) \in Msgs /\ Paired(l[p]).role = l[p].role /\ Paired(l[p]).calls = l[p].calls
                 /\ c[p].role = "tool" => /\ Paired(l[p]).result.of = c[p].result.of
                                          /\ Paired(l[p]).result.handle = c[p].result.of
      <4>1. l[p] \in Msgs /\ l[p].role = c[p].role /\ l[p].result = c[p].result
        BY <2>1
      <4>2. CASE l[p].role # "tool"
        BY <4>1, <4>2 DEF Paired
      <4>3. CASE l[p].role = "tool"
        <5> DEFINE r == History!Ref(l[p].result.of, l[p].result.of)
                   Calls == Seq(Refs)
                   M == [role : {"assistant", "user", "tool"}, calls : Calls, result : Refs, blocks : Calls]
        <5>1. l[p] \in M /\ M = Msgs
          BY <4>1 DEF Msgs
        <5> HIDE DEF Calls
        <5>2. r \in Refs /\ r.of = c[p].result.of /\ r.handle = c[p].result.of
          BY <4>1, <5>1 DEF Refs, History!Ref
        <5>3. Paired(l[p]) = [l[p] EXCEPT !.result = r]
          BY <4>3 DEF Paired
        <5> HIDE DEF r
        <5>4. /\ [l[p] EXCEPT !.result = r] \in M /\ [l[p] EXCEPT !.result = r].role = l[p].role
              /\ [l[p] EXCEPT !.result = r].calls = l[p].calls /\ [l[p] EXCEPT !.result = r].result = r
          BY <5>1, <5>2
        <5> QED BY <5>1, <5>2, <5>3, <5>4
      <4> QED BY <4>2, <4>3
    <3>7. d \in Seq(Msgs) /\ Len(d) = n
      <4>1. d \in [1 .. n -> Msgs]
        BY <3>5, <3>6
      <4> QED BY <1>2, <4>1, SeqDef
    <3>8. \A p \in 1 .. n : d[p] = Paired(l[p])
      BY <3>5
    <3>9. ASSUME NEW p \in 1 .. n
          PROVE  /\ d[p].role = c[p].role /\ d[p].calls = Held(c[p])
                 /\ c[p].role = "tool" => /\ d[p].result.of = c[p].result.of
                                          /\ d[p].result.handle \in {0, d[p].result.of}
      BY <2>1, <3>6, <3>8
    <3> QED BY <3>7, <3>9 DEF StandsFor, n
  <2> QED BY <2>5, <2>6
<1> QED BY <1>4, <1>5

-----------------------------------------------------------------------------
(* The messages to the wire.                                               *)

Sends(m) == IF m.role = "tool" THEN <<History!Answer(m.result)>> ELSE History!CallsOf(m)
Ids(d) == Flat([i \in DOMAIN d |-> Sends(d[i])])

(* A request by ids: a result with an id comes after the call that has it. *)
Tied(b) ==
    /\ b \in Seq(Entries)
    /\ \A i \in 1 .. Len(b) :
          /\ b[i].kind = "call" => b[i].ref.of # 0 /\ b[i].ref.handle = b[i].ref.of
          /\ b[i].kind = "result" => b[i].ref.handle \in {0, b[i].ref.of}
          /\ b[i].kind = "result" /\ b[i].ref.handle # 0 =>
                \E j \in 1 .. i - 1 : b[j].kind = "call" /\ b[j].ref = b[i].ref

(* The calls and results of the turns are all there.                       *)
Delivers(ts, b) ==
    \A i \in 1 .. Len(ts) :
        /\ \A x \in 1 .. Len(ts[i].calls) :
              \E j \in 1 .. Len(b) : b[j].kind = "call" /\ b[j].ref.of = ts[i].calls[x].of
        /\ \A x \in 1 .. Len(ts[i].results) :
              \E j \in 1 .. Len(b) : b[j].kind = "result" /\ b[j].ref.of = ts[i].results[x].of

LEMMA SendsIs ==
    ASSUME NEW m \in Msgs
    PROVE  /\ Sends(m) \in Seq(Entries)
           /\ m.role = "tool" => Len(Sends(m)) = 1 /\ Sends(m)[1] = History!Answer(m.result)
           /\ m.role # "tool" => /\ Len(Sends(m)) = Len(m.calls)
                                 /\ \A y \in 1 .. Len(m.calls) : Sends(m)[y] = History!Call(m.calls[y])
<1>1. m.result \in Refs /\ m.calls \in Seq(Refs)
  BY DEF Msgs
<1>2. ASSUME NEW r \in Refs PROVE History!Call(r) \in Entries /\ History!Answer(r) \in Entries
  BY DEF Entries, History!Call, History!Answer
<1>3. CASE m.role = "tool"
  <2> DEFINE a == History!Answer(m.result)
  <2>1. Sends(m) = <<a>> /\ a \in Entries
    BY <1>1, <1>2, <1>3 DEF Sends
  <2> HIDE DEF a
  <2>2. Sends(m) \in Seq(Entries) /\ Len(Sends(m)) = 1 /\ Sends(m)[1] = a
    BY <2>1
  <2> QED BY <1>3, <2>2 DEF a
<1>4. CASE m.role # "tool"
  <2> DEFINE K == m.calls
             n == Len(K)
             s == [y \in 1 .. n |-> History!Call(K[y])]
  <2>1. n \in Nat /\ DOMAIN K = 1 .. n /\ \A y \in 1 .. n : K[y] \in Refs
    BY <1>1
  <2>2. Sends(m) = s
    BY <1>4, <2>1 DEF Sends, History!CallsOf
  <2>3. s \in [1 .. n -> Entries] /\ \A y \in 1 .. n : s[y] = History!Call(K[y])
    BY <1>2, <2>1
  <2> HIDE DEF s, n
  <2>4. s \in Seq(Entries) /\ Len(s) = n
    BY <2>1, <2>3, SeqDef
  <2> QED BY <1>4, <2>2, <2>3, <2>4 DEF n
<1> QED BY <1>3, <1>4

LEMMA IdsTied ==
    ASSUME NEW ts, NEW c, Follows(ts, c), NEW d, StandsFor(c, d)
    PROVE  Tied(Ids(d)) /\ Delivers(ts, Ids(d))
<1> DEFINE n == Len(d)
           ss == [i \in 1 .. n |-> Sends(d[i])]
           b == Ids(d)
<1> SUFFICES Tied(b) /\ Delivers(ts, b)
  OBVIOUS
<1>1. /\ d \in Seq(Msgs) /\ n \in Nat /\ DOMAIN d = 1 .. n /\ Len(c) = n
      /\ \A p \in 1 .. n : d[p] \in Msgs
  BY DEF StandsFor
<1>2. b = Flat(ss)
  BY <1>1 DEF Ids
<1>3. ASSUME NEW p \in 1 .. n
      PROVE  /\ ss[p] \in Seq(Entries)
             /\ d[p].role = "tool" => Len(ss[p]) = 1 /\ ss[p][1] = History!Answer(d[p].result)
             /\ d[p].role # "tool" => /\ Len(ss[p]) = Len(d[p].calls)
                                      /\ \A y \in 1 .. Len(d[p].calls) : ss[p][y] = History!Call(d[p].calls[y])
  BY <1>1, SendsIs
<1>4. ss \in [1 .. n -> Seq(Entries)]
  BY <1>3
<1> HIDE DEF ss, b
<1>5. b \in Seq(Entries) /\ \E off : Spread(ss, n, off, b)
  BY <1>1, <1>2, <1>4, FlatSpreads
<1>6. PICK off : Spread(ss, n, off, b)
  BY <1>5
<1> HIDE DEF n
<1>7. /\ off \in [0 .. n -> Nat] /\ Len(b) = off[n] /\ n \in 0 .. n
      /\ \A i \in 1 .. n : off[i] = off[i - 1] + Len(ss[i])
      /\ \A i \in 1 .. n : \A k \in 1 .. Len(ss[i]) : b[off[i - 1] + k] = ss[i][k]
      /\ \A i, j \in 0 .. n : i <= j => off[i] <= off[j]
      /\ \A p \in 1 .. Len(b) : \E i \in 1 .. n : \E k \in 1 .. Len(ss[i]) : p = off[i - 1] + k
  BY <1>1, <1>6 DEF Spread
<1>8. ASSUME NEW i \in 1 .. n, NEW k \in 1 .. Len(ss[i])
      PROVE  /\ off[i - 1] + k \in 1 .. Len(b) /\ b[off[i - 1] + k] = ss[i][k]
             /\ off[i - 1] + k <= off[i]
             /\ off[i - 1] \in Nat /\ off[i] \in Nat
  <2>1. i \in 0 .. n /\ i - 1 \in 0 .. n /\ i <= n
    BY <1>1
  <2>2. off[i] \in Nat /\ off[i - 1] \in Nat /\ Len(b) \in Nat
    BY <1>5, <1>7, <2>1
  <2>3. off[i] <= Len(b) /\ off[i] = off[i - 1] + Len(ss[i])
    BY <1>7, <2>1
  <2>4. k \in Nat /\ 1 <= k /\ k <= Len(ss[i]) /\ Len(ss[i]) \in Nat
    <3>1. ss[i] \in Seq(Entries)
      BY <1>4
    <3> QED BY <3>1
  <2>5. b[off[i - 1] + k] = ss[i][k]
    BY <1>7
  <2> QED BY <2>2, <2>3, <2>4, <2>5
<1>9. ASSUME NEW p \in 1 .. n
      PROVE  /\ Sound(c[p]) /\ d[p].role = c[p].role /\ d[p].calls = Held(c[p]) /\ MadeCalls(d[p].calls)
             /\ c[p].role = "tool" => /\ d[p].result.of = c[p].result.of
                                      /\ d[p].result.handle \in {0, d[p].result.of}
                                      /\ \E q \in 1 .. p - 1 : Answering(c[p].result, Held(c[q]))
  BY <1>1 DEF StandsFor, Follows, Sound
(* A call of a message is sent.                                            *)
<1>10. ASSUME NEW q \in 1 .. n, NEW y \in 1 .. Len(Held(c[q]))
       PROVE  \E j \in 1 .. Len(b) : j <= off[q] /\ b[j] = History!Call(Held(c[q])[y])
  <2>1. d[q].role # "tool"
    <3>1. c[q].role = "tool" => Held(c[q]) = <<>>
      BY <1>9 DEF Sound, Held
    <3>2. Held(c[q]) # <<>>
      BY <1>9
    <3> QED BY <1>9, <3>1, <3>2
  <2>2. y \in 1 .. Len(ss[q]) /\ ss[q][y] = History!Call(Held(c[q])[y])
    BY <1>3, <1>9, <2>1
  <2> QED BY <1>8, <2>2
<1>11. ASSUME NEW p \in 1 .. n, c[p].role = "tool"
       PROVE  \E j \in 1 .. Len(b) : b[j] = History!Answer(d[p].result)
  <2>1. 1 \in 1 .. Len(ss[p]) /\ ss[p][1] = History!Answer(d[p].result)
    BY <1>3, <1>9, <1>11
  <2> QED BY <1>8, <2>1
<1>12. ASSUME NEW i \in 1 .. Len(b)
       PROVE  /\ b[i].kind = "call" => b[i].ref.of # 0 /\ b[i].ref.handle = b[i].ref.of
              /\ b[i].kind = "result" => b[i].ref.handle \in {0, b[i].ref.of}
              /\ b[i].kind = "result" /\ b[i].ref.handle # 0 =>
                    \E j \in 1 .. i - 1 : b[j].kind = "call" /\ b[j].ref = b[i].ref
  <2>1. PICK p \in 1 .. n : \E k \in 1 .. Len(ss[p]) : i = off[p - 1] + k
    BY <1>7
  <2>2. PICK k \in 1 .. Len(ss[p]) : i = off[p - 1] + k
    BY <2>1
  <2>3. b[i] = ss[p][k]
    BY <1>8, <2>2
  <2>4. CASE d[p].role # "tool"
    <3>1. k \in 1 .. Len(d[p].calls) /\ ss[p][k] = History!Call(d[p].calls[k])
      BY <1>3, <2>4
    <3>2. d[p].calls[k].of # 0 /\ d[p].calls[k].handle = d[p].calls[k].of
      BY <1>9, <3>1 DEF MadeCalls
    <3>3. b[i].kind = "call" /\ b[i].ref = d[p].calls[k]
      BY <2>3, <3>1 DEF History!Call
    <3> QED BY <3>2, <3>3
  <2>5. CASE d[p].role = "tool"
    <3>1. k = 1 /\ ss[p][k] = History!Answer(d[p].result)
      BY <1>3, <2>5
    <3>2. b[i].kind = "result" /\ b[i].ref = d[p].result
      BY <2>3, <3>1 DEF History!Answer
    <3>3. PICK q \in 1 .. p - 1 : Answering(c[p].result, Held(c[q]))
      BY <1>9, <2>5
    <3> DEFINE of == c[p].result.of
    <3>4. d[p].result.of = of /\ d[p].result.handle \in {0, of} /\ d[p].result \in Refs
      BY <1>1, <1>9, <2>5 DEF Msgs
    <3>5. PICK y \in 1 .. Len(Held(c[q])) : Held(c[q])[y] = History!Ref(of, of)
      BY <3>3 DEF Answering
    <3>6. q \in 1 .. n /\ q \in 0 .. n /\ p - 1 \in 0 .. n /\ q <= p - 1
      BY <1>1
    <3>7. PICK j \in 1 .. Len(b) : j <= off[q] /\ b[j] = History!Call(Held(c[q])[y])
      BY <1>10, <3>6
    <3>8. j \in 1 .. i - 1
      <4>1. off[q] <= off[p - 1]
        BY <1>7, <3>6
      <4>2. off[q] \in Nat /\ off[p - 1] \in Nat
        BY <1>7, <3>6
      <4> QED BY <2>2, <3>1, <3>7, <4>1, <4>2
    <3>9. b[j].kind = "call" /\ b[j].ref = History!Ref(of, of)
      BY <3>5, <3>7 DEF History!Call
    <3>10. d[p].result.handle # 0 => d[p].result = History!Ref(of, of)
      BY <3>4 DEF Refs, History!Ref
    <3> QED BY <3>2, <3>4, <3>8, <3>9, <3>10
  <2> QED BY <2>4, <2>5
<1>13. Tied(b)
  BY <1>5, <1>12 DEF Tied
<1>14. ASSUME NEW i \in 1 .. Len(ts), NEW x \in 1 .. Len(ts[i].calls)
       PROVE  \E j \in 1 .. Len(b) : b[j].kind = "call" /\ b[j].ref.of = ts[i].calls[x].of
  <2>1. PICK q \in 1 .. n : \E y \in 1 .. Len(Held(c[q])) : Held(c[q])[y] = ts[i].calls[x]
    BY <1>1 DEF Follows
  <2>2. PICK y \in 1 .. Len(Held(c[q])) : Held(c[q])[y] = ts[i].calls[x]
    BY <2>1
  <2>3. PICK j \in 1 .. Len(b) : b[j] = History!Call(Held(c[q])[y])
    BY <1>10
  <2>4. b[j].kind = "call" /\ b[j].ref.of = ts[i].calls[x].of
    BY <2>2, <2>3 DEF History!Call
  <2> QED BY <2>4
<1>15. ASSUME NEW i \in 1 .. Len(ts), NEW x \in 1 .. Len(ts[i].results)
       PROVE  \E j \in 1 .. Len(b) : b[j].kind = "result" /\ b[j].ref.of = ts[i].results[x].of
  <2>1. PICK p \in 1 .. n : c[p].role = "tool" /\ c[p].result = ts[i].results[x]
    BY <1>1 DEF Follows
  <2>2. PICK j \in 1 .. Len(b) : b[j] = History!Answer(d[p].result)
    BY <1>11, <2>1
  <2>3. b[j].kind = "result" /\ b[j].ref.of = ts[i].results[x].of
    BY <1>9, <2>1, <2>2 DEF History!Answer
  <2> QED BY <2>3
<1>16. Delivers(ts, b)
  BY <1>14, <1>15 DEF Delivers
<1> QED BY <1>13, <1>16

Names(b) == [i \in DOMAIN b |-> History!ByName(b, b[i])]

Matched(b) ==
    \A i \in 1 .. Len(b) :
        (b[i].kind = "result" /\ b[i].ref.handle # 0) =>
            \E j \in 1 .. i - 1 : b[j].kind = "call" /\ b[j].ref = b[i].ref

LEMMA TiedMatched ==
    ASSUME NEW b, Tied(b)
    PROVE  Matched(b)
  BY DEF Tied, Matched

LEMMA LastPlace ==
    ASSUME NEW n \in Nat, NEW S \in SUBSET (1 .. n), S # {}
    PROVE  History!Max(S) \in S
<1> DEFINE T == {n - x : x \in S}
<1>1. T \in SUBSET Nat /\ T # {}
  <2>1. \A x \in S : x \in 1 .. n /\ n - x \in Nat
    OBVIOUS
  <2>2. PICK x : x \in S
    OBVIOUS
  <2>3. n - x \in T
    BY <2>2
  <2> QED BY <2>1, <2>3
<1> HIDE DEF T
<1>2. PICK t \in T : \A u \in T : t <= u
  BY <1>1, Least
<1>3. PICK x \in S : t = n - x
  BY <1>2 DEF T
<1>4. ASSUME NEW y \in S PROVE x >= y
  <2>1. n - y \in T
    BY DEF T
  <2> QED BY <1>2, <1>3, <2>1
<1> QED BY <1>3, <1>4 DEF History!Max

LEMMA NamesMatch ==
    ASSUME NEW ts, NEW b, Tied(b), Delivers(ts, b)
    PROVE  Matched(Names(b)) /\ Delivers(ts, Names(b))
<1> DEFINE n == Len(b)
           g == Names(b)
           named(of) == History!ToolOf(of)
<1> SUFFICES Matched(g) /\ Delivers(ts, g)
  OBVIOUS
<1>1. b \in Seq(Entries) /\ n \in Nat /\ DOMAIN b = 1 .. n /\ \A i \in 1 .. n : b[i] \in Entries
  BY DEF Tied
<1>2. g = [i \in 1 .. n |-> History!ByName(b, b[i])]
  BY <1>1 DEF Names
<1>3. n = Len(g)
  BY <1>1, <1>2
<1> HIDE DEF g, n
<1>4. ASSUME NEW i \in 1 .. n
      PROVE  /\ g[i].kind = b[i].kind /\ g[i].ref.of = b[i].ref.of
             /\ b[i].kind = "call" => g[i].ref = History!Ref(b[i].ref.of, named(b[i].ref.of))
             /\ b[i].kind = "result" => g[i].ref = History!Ref(b[i].ref.of, History!Named(b, b[i].ref.handle))
  <2> DEFINE r == History!Ref(b[i].ref.of, IF b[i].kind = "call" THEN named(b[i].ref.of)
                                            ELSE History!Named(b, b[i].ref.handle))
  <2>1. g[i] = [b[i] EXCEPT !.ref = r]
    BY <1>2 DEF History!ByName
  <2>2. b[i] \in [kind : {"call", "result"}, ref : Refs]
    BY <1>1 DEF Entries
  <2>3. r.of = b[i].ref.of
    BY DEF History!Ref
  <2>4. b[i].kind = "call" => r = History!Ref(b[i].ref.of, named(b[i].ref.of))
    BY Zenon
  <2>5. b[i].kind = "result" => r = History!Ref(b[i].ref.of, History!Named(b, b[i].ref.handle))
    <3>1. b[i].kind = "result" => b[i].kind # "call"
      OBVIOUS
    <3> QED BY <3>1, Zenon
  <2> HIDE DEF r, named
  <2>6. g[i].kind = b[i].kind /\ g[i].ref = r
    BY <2>1, <2>2
  <2> QED BY <2>3, <2>4, <2>5, <2>6
<1>5. /\ \A i \in 1 .. n : b[i].kind = "call" => b[i].ref.of # 0 /\ b[i].ref.handle = b[i].ref.of
      /\ \A i \in 1 .. n : b[i].kind = "result" => b[i].ref.handle \in {0, b[i].ref.of}
      /\ \A i \in 1 .. n : b[i].kind = "result" /\ b[i].ref.handle # 0 =>
            \E j \in 1 .. i - 1 : b[j].kind = "call" /\ b[j].ref = b[i].ref
  BY DEF Tied, n
<1>6. ASSUME NEW i \in 1 .. n, g[i].kind = "result", g[i].ref.handle # 0
      PROVE  \E j \in 1 .. i - 1 : g[j].kind = "call" /\ g[j].ref = g[i].ref
  <2> DEFINE h == b[i].ref.handle
             S == History!CallsBy(b, h)
  <2>1. b[i].kind = "result" /\ g[i].ref = History!Ref(b[i].ref.of, History!Named(b, h))
    BY <1>4, <1>6
  <2>2. S = {k \in 1 .. n : b[k].kind = "call" /\ b[k].ref.handle = h}
    BY <1>1 DEF History!CallsBy
  <2> HIDE DEF S, h
  <2>3. h # 0
    <3>1. ASSUME h = 0 PROVE FALSE
      <4>1. S = {}
        BY <1>5, <2>2, <3>1
      <4>2. History!Named(b, h) = h
        BY <4>1 DEF History!Named, S
      <4> QED BY <1>6, <2>1, <3>1, <4>2 DEF History!Ref
    <3> QED BY <3>1
  <2>4. PICK j \in 1 .. i - 1 : b[j].kind = "call" /\ b[j].ref = b[i].ref
    BY <1>5, <2>1, <2>3 DEF h
  <2>5. j \in 1 .. n /\ b[i].ref.of = h
    BY <1>1, <1>5, <2>1, <2>3 DEF h
  <2>6. j \in S
    BY <2>2, <2>4, <2>5 DEF h
  <2>7. History!Max(S) \in S
    BY <1>1, <2>2, <2>6, LastPlace
  <2>8. b[History!Max(S)].ref.of = h
    BY <1>5, <2>2, <2>7
  <2>9. History!Named(b, h) = named(h)
    BY <2>6, <2>8 DEF History!Named, S
  <2>10. g[i].ref = History!Ref(h, named(h))
    BY <2>1, <2>5, <2>9
  <2>11. g[j].kind = "call" /\ g[j].ref = History!Ref(h, named(h))
    BY <1>4, <2>4, <2>5
  <2> QED BY <2>10, <2>11
<1>7. Matched(g)
  BY <1>3, <1>6 DEF Matched
<1>8. Delivers(ts, g)
  <2>1. \A j \in 1 .. Len(b) : j \in 1 .. Len(g) /\ g[j].kind = b[j].kind /\ g[j].ref.of = b[j].ref.of
    BY <1>3, <1>4 DEF n
  <2> SUFFICES ASSUME NEW i \in 1 .. Len(ts)
               PROVE  /\ \A x \in 1 .. Len(ts[i].calls) :
                            \E j \in 1 .. Len(g) : g[j].kind = "call" /\ g[j].ref.of = ts[i].calls[x].of
                      /\ \A x \in 1 .. Len(ts[i].results) :
                            \E j \in 1 .. Len(g) : g[j].kind = "result" /\ g[j].ref.of = ts[i].results[x].of
    BY DEF Delivers
  <2>2. /\ \A x \in 1 .. Len(ts[i].calls) :
              \E j \in 1 .. Len(b) : b[j].kind = "call" /\ b[j].ref.of = ts[i].calls[x].of
        /\ \A x \in 1 .. Len(ts[i].results) :
              \E j \in 1 .. Len(b) : b[j].kind = "result" /\ b[j].ref.of = ts[i].results[x].of
    BY DEF Delivers
  <2>3. ASSUME NEW x \in 1 .. Len(ts[i].calls)
        PROVE  \E j \in 1 .. Len(g) : g[j].kind = "call" /\ g[j].ref.of = ts[i].calls[x].of
    <3>1. PICK j \in 1 .. Len(b) : b[j].kind = "call" /\ b[j].ref.of = ts[i].calls[x].of
      BY <2>2
    <3> QED BY <2>1, <3>1, Zenon
  <2>4. ASSUME NEW x \in 1 .. Len(ts[i].results)
        PROVE  \E j \in 1 .. Len(g) : g[j].kind = "result" /\ g[j].ref.of = ts[i].results[x].of
    <3>1. PICK j \in 1 .. Len(b) : b[j].kind = "result" /\ b[j].ref.of = ts[i].results[x].of
      BY <2>2
    <3> QED BY <2>1, <3>1, Zenon
  <2> QED BY <2>3, <2>4
<1> QED BY <1>7, <1>8

-----------------------------------------------------------------------------
(* The steps of a conversation.                                            *)

Wired(tg, d) == IF tg.wire = "gemini" THEN Names(Ids(d)) ELSE Ids(d)

Conversed(cl, tg, ts, c, b, st) ==
    /\ cl \in History!Clients /\ tg \in History!Targets /\ Sensible(cl, ts)
    /\ st = "idle" => ts = <<>>
    /\ st = "chat" => c = Chatted(cl, ts)
    /\ st = "repaired" => c = Mended(tg, Chatted(cl, ts))
    /\ st = "sent" => b = Wired(tg, Mended(tg, Chatted(cl, ts)))

HistoryInv == Conversed(speaker, target, dialogue, messages, request, phase)

LEMMA SensibleAppended ==
    ASSUME NEW cl, NEW ts, Sensible(cl, ts), NEW t, SaidBy(cl, t),
           t.results # <<>> => ts # <<>> /\ Answers(t.results, ts[Len(ts)].calls)
    PROVE  Sensible(cl, Append(ts, t))
<1> DEFINE n == Len(ts)
           u == Append(ts, t)
<1>1. ts \in Seq(Said) /\ t \in Said
  BY DEF Sensible, SaidBy
<1>2. /\ n \in Nat /\ u \in Seq(Said) /\ Len(u) = n + 1 /\ u[n + 1] = t
      /\ \A i \in 1 .. n : u[i] = ts[i]
  BY <1>1
<1>3. \A i \in 1 .. n : /\ SaidBy(cl, ts[i])
                        /\ ts[i].results # <<>> => i > 1 /\ Answers(ts[i].results, ts[i - 1].calls)
  BY DEF Sensible
<1>4. ts # <<>> => n > 0
  BY <1>1
<1> HIDE DEF u
<1>5. ASSUME NEW i \in 1 .. n + 1
      PROVE  /\ SaidBy(cl, u[i])
             /\ u[i].results # <<>> => i > 1 /\ Answers(u[i].results, u[i - 1].calls)
  <2>1. CASE i = n + 1
    <3>1. u[i] = t /\ i - 1 = n
      BY <1>2, <2>1
    <3>2. t.results # <<>> => i > 1 /\ n \in 1 .. n
      BY <1>2, <1>4, <2>1
    <3> QED BY <1>2, <3>1, <3>2
  <2>2. CASE i \in 1 .. n
    <3>1. u[i] = ts[i] /\ (i > 1 => u[i - 1] = ts[i - 1])
      BY <1>2, <2>2
    <3> QED BY <1>3, <2>2, <3>1
  <2> QED BY <1>2, <2>1, <2>2
<1> QED BY <1>2, <1>5 DEF Sensible, u

LEMMA ImageFinite ==
    ASSUME NEW n \in Nat, NEW f, DOMAIN f = 1 .. n, f = [x \in 1 .. n |-> f[x]]
    PROVE  IsFiniteSet({f[x] : x \in 1 .. n})
<1> DEFINE T == {f[x] : x \in 1 .. n}
           S == 1 .. n
<1>1. f \in [S -> T]
  OBVIOUS
<1>2. \A t \in T : \E s \in S : f[s] = t
  OBVIOUS
<1>3. IsFiniteSet(S)
  BY FS_Interval
<1> HIDE DEF T, S
<1>4. f \in Surjection(S, T)
  BY <1>1, <1>2 DEF Surjection
<1>5. IsFiniteSet(T)
  BY <1>3, <1>4, FS_Surjection, Zenon
<1> QED BY <1>5 DEF T, S

CallNumbers(t) == {t.calls[i].of : i \in DOMAIN t.calls}

LEMMA CalledIs ==
    ASSUME NEW ts \in Seq(Said)
    PROVE  Cardinality(UNION {CallNumbers(t) : t \in History!Range(ts)}) \in Nat
<1> DEFINE n == Len(ts)
           g == [i \in 1 .. n |-> CallNumbers(ts[i])]
           all == {g[i] : i \in 1 .. n}
<1>1. n \in Nat /\ DOMAIN ts = 1 .. n /\ \A i \in 1 .. n : ts[i] \in Said
  OBVIOUS
<1>2. ASSUME NEW i \in 1 .. n PROVE IsFiniteSet(g[i])
  <2> DEFINE K == ts[i].calls
             k == Len(K)
             f == [x \in 1 .. k |-> K[x].of]
  <2>1. K \in Seq(Refs)
    BY <1>1 DEF Said
  <2> HIDE DEF K
  <2>2. k \in Nat /\ DOMAIN K = 1 .. k
    BY <2>1
  <2>3. DOMAIN f = 1 .. k /\ f = [x \in 1 .. k |-> f[x]] /\ \A x \in 1 .. k : f[x] = K[x].of
    OBVIOUS
  <2> HIDE DEF f, k
  <2>4. IsFiniteSet({f[x] : x \in 1 .. k})
    BY <2>2, <2>3, ImageFinite
  <2>5. CallNumbers(ts[i]) = {f[x] : x \in 1 .. k}
    BY <2>2, <2>3 DEF CallNumbers, K
  <2> QED BY <2>4, <2>5
<1>3. DOMAIN g = 1 .. n /\ g = [x \in 1 .. n |-> g[x]] /\ \A i \in 1 .. n : g[i] = CallNumbers(ts[i])
  OBVIOUS
<1> HIDE DEF g, n
<1>4. IsFiniteSet(all)
  BY <1>1, <1>3, ImageFinite
<1>5. \A T \in all : IsFiniteSet(T)
  BY <1>2
<1>6. {CallNumbers(t) : t \in History!Range(ts)} = all
  BY <1>1, <1>3 DEF History!Range
<1> HIDE DEF all
<1>7. IsFiniteSet(UNION all)
  BY <1>4, <1>5, FS_UNION, Zenon
<1> QED BY <1>6, <1>7, FS_CardinalityType

(* What is said next leaves the conversation sensible.                     *)
LEMMA UserSays ==
    ASSUME NEW r \in Seq(Refs), NEW cl
    PROVE  LET t == History!Turn("user", <<>>, r, FALSE) IN SaidBy(cl, t) /\ t.results = r
<1> DEFINE Calls == Seq(Refs)
           t == History!Turn("user", <<>>, r, FALSE)
<1>1. <<>> \in Calls /\ r \in Calls /\ MadeCalls(<<>>)
  BY NoCallsMade
<1> HIDE DEF Calls
<1>2. /\ t \in [role : {"assistant", "user"}, calls : Calls, results : Calls, embedded : BOOLEAN]
      /\ t.role = "user" /\ t.calls = <<>> /\ t.results = r /\ t.embedded = FALSE
  BY <1>1 DEF History!Turn
<1> HIDE DEF t
<1>3. t \in Said
  BY <1>2 DEF Said, Calls
<1>4. SaidBy(cl, t)
  BY <1>1, <1>2, <1>3 DEF SaidBy
<1> QED BY <1>2, <1>4 DEF t

LEMMA AssistantSays ==
    ASSUME NEW k, MadeCalls(k), NEW cl, NEW e \in BOOLEAN, e => cl = "openai"
    PROVE  LET t == History!Turn("assistant", k, <<>>, e) IN SaidBy(cl, t) /\ t.results = <<>>
<1> DEFINE Calls == Seq(Refs)
           t == History!Turn("assistant", k, <<>>, e)
<1>1. <<>> \in Calls /\ k \in Calls
  BY NoCallsMade DEF MadeCalls
<1> HIDE DEF Calls
<1>2. /\ t \in [role : {"assistant", "user"}, calls : Calls, results : Calls, embedded : BOOLEAN]
      /\ t.role = "assistant" /\ t.calls = k /\ t.results = <<>> /\ t.embedded = e
  BY <1>1 DEF History!Turn
<1> HIDE DEF t
<1>3. t \in Said
  BY <1>2 DEF Said, Calls
<1>4. SaidBy(cl, t)
  BY <1>2, <1>3 DEF SaidBy
<1> QED BY <1>2, <1>4 DEF t

LEMMA RepliesAnswer ==
    ASSUME NEW K, MadeCalls(K), NEW r \in History!Replies(K)
    PROVE  r \in Seq(Refs) /\ Answers(r, K)
<1> DEFINE m == Len(K)
<1>1. /\ K \in Seq(Refs) /\ m \in Nat /\ DOMAIN K = 1 .. m
      /\ \A x \in 1 .. m : K[x] \in Refs /\ K[x].handle = K[x].of
      /\ \A x, y \in 1 .. m : K[x].of = K[y].of => x = y
  BY DEF MadeCalls
<1> HIDE DEF m
<1>2. CASE r = [i \in DOMAIN K |-> History!Ref(K[i].of, History!Lost)]
  <2>1. r = [i \in 1 .. m |-> History!Ref(K[i].of, 0)]
    BY <1>1, <1>2 DEF History!Lost
  <2>2. r \in [1 .. m -> Refs] /\ \A x \in 1 .. m : r[x].of = K[x].of /\ r[x].handle = 0
    BY <1>1, <2>1 DEF Refs, History!Ref
  <2>3. r \in Seq(Refs) /\ Len(r) = m
    BY <1>1, <2>2, SeqDef
  <2>4. InOrder(r, K)
    BY <2>2, <2>3 DEF InOrder
  <2> QED BY <2>3, <2>4 DEF Answers, m
<1>3. CASE \E p \in [DOMAIN K -> DOMAIN K] :
              History!IsInjective(p) /\ r = [i \in DOMAIN K |-> K[p[i]]]
  <2>1. PICK p \in [DOMAIN K -> DOMAIN K] :
              History!IsInjective(p) /\ r = [i \in DOMAIN K |-> K[p[i]]]
    BY <1>3
  <2>2. p \in [1 .. m -> 1 .. m] /\ r = [i \in 1 .. m |-> K[p[i]]]
    BY <1>1, <2>1
  <2>3. \A x, y \in 1 .. m : p[x] = p[y] => x = y
    BY <2>1, <2>2 DEF History!IsInjective
  <2>4. \A x \in 1 .. m : p[x] \in 1 .. m /\ r[x] = K[p[x]]
    BY <2>2
  <2>5. r \in [1 .. m -> Refs]
    BY <1>1, <2>2, <2>4
  <2>6. r \in Seq(Refs) /\ Len(r) = m
    BY <1>1, <2>5, SeqDef
  <2>7. ByHandle(r, K)
    BY <1>1, <2>3, <2>4, <2>6 DEF ByHandle, m
  <2> QED BY <2>6, <2>7 DEF Answers, m
<1> QED BY <1>2, <1>3 DEF History!Replies

LEMMA MakesMade ==
    ASSUME MaxParallel \in Nat, NEW n \in Nat, NEW k \in History!Makes(n)
    PROVE  MadeCalls(k)
<1>1. PICK z \in 0 .. MaxParallel : k = [i \in 1 .. z |-> History!Ref(n + i, n + i)]
  BY DEF History!Makes
<1>2. z \in Nat /\ \A i \in 1 .. z : n + i \in Nat /\ n + i # 0
  OBVIOUS
<1>3. k \in [1 .. z -> Refs] /\ \A i \in 1 .. z : k[i].of = n + i /\ k[i].handle = n + i
  BY <1>1, <1>2 DEF Refs, History!Ref
<1>4. k \in Seq(Refs) /\ Len(k) = z
  BY <1>2, <1>3, SeqDef
<1>5. \A i, j \in 1 .. z : k[i].of = k[j].of => i = j
  BY <1>2, <1>3
<1> QED BY <1>2, <1>3, <1>4, <1>5 DEF MadeCalls

LEMMA SaysSensible ==
    ASSUME MaxParallel \in Nat, Sensible(speaker, dialogue), History!Says
    PROVE  Sensible(speaker, dialogue')
<1> DEFINE K == History!LastCalls
<1>1. dialogue \in Seq(Said) /\ Len(dialogue) \in Nat
  BY DEF Sensible
<1>2. History!Cardinality(History!Called) \in Nat
  <2> DEFINE S == History!Called
  <2>0. History!Cardinality(S) = Cardinality(S)
    <3> HIDE DEF S
    <3> QED BY Zenon DEF History!Cardinality, Cardinality
  <2>1. History!Called = UNION {CallNumbers(t) : t \in History!Range(dialogue)}
    BY DEF History!Called, CallNumbers
  <2> QED BY <1>1, <2>0, <2>1, CalledIs
<1>3. K # <<>> => /\ dialogue # <<>> /\ K = dialogue[Len(dialogue)].calls /\ MadeCalls(K)
  <2>1. ASSUME dialogue # <<>> PROVE Len(dialogue) \in 1 .. Len(dialogue)
    BY <1>1, <2>1
  <2> QED BY <2>1 DEF History!LastCalls, History!Last, Sensible, SaidBy
<1> HIDE DEF K
<1>4. ASSUME K # <<>>, NEW r \in History!Replies(K),
             dialogue' = Append(dialogue, History!Turn("user", <<>>, r, FALSE))
      PROVE  Sensible(speaker, dialogue')
  <2> DEFINE t == History!Turn("user", <<>>, r, FALSE)
  <2>1. r \in Seq(Refs) /\ Answers(r, K)
    BY <1>3, <1>4, RepliesAnswer
  <2>2. SaidBy(speaker, t) /\ t.results = r
    BY <2>1, UserSays
  <2>3. dialogue' = Append(dialogue, t)
    BY <1>4
  <2> HIDE DEF t
  <2> QED BY <1>3, <1>4, <2>1, <2>2, <2>3, SensibleAppended
<1>5. ASSUME dialogue' = Append(dialogue, History!Turn("user", <<>>, <<>>, FALSE))
      PROVE  Sensible(speaker, dialogue')
  <2> DEFINE t == History!Turn("user", <<>>, <<>>, FALSE)
  <2>1. SaidBy(speaker, t) /\ t.results = <<>>
    BY NoCallsMade, UserSays
  <2>2. dialogue' = Append(dialogue, t)
    BY <1>5
  <2> HIDE DEF t
  <2> QED BY <2>1, <2>2, SensibleAppended
<1>6. ASSUME NEW k \in History!Makes(History!Cardinality(History!Called)), NEW e \in BOOLEAN, e => speaker = "openai",
             dialogue' = Append(dialogue, History!Turn("assistant", k, <<>>, e))
      PROVE  Sensible(speaker, dialogue')
  <2> DEFINE t == History!Turn("assistant", k, <<>>, e)
  <2>1. MadeCalls(k)
    BY <1>2, MakesMade
  <2>2. SaidBy(speaker, t) /\ t.results = <<>>
    BY <1>6, <2>1, AssistantSays
  <2>3. dialogue' = Append(dialogue, t)
    BY <1>6
  <2> HIDE DEF t
  <2> QED BY <2>2, <2>3, SensibleAppended
<1> QED BY <1>4, <1>5, <1>6 DEF History!Says, K

(* A conversation that was sent keeps what the property says.              *)
LEMMA SentReach ==
    ASSUME NEW cl, NEW tg, NEW ts, NEW c, NEW b, NEW st, Conversed(cl, tg, ts, c, b, st),
           st = "sent", Followed(cl, tg, ts)
    PROVE  Matched(b) /\ Delivers(ts, b)
<1> DEFINE was == Chatted(cl, ts)
           now == Mended(tg, was)
<1>1. Follows(ts, was) /\ StandsFor(was, now) /\ b = Wired(tg, now)
  BY ChattedIs, MendedStands DEF Conversed
<1> HIDE DEF was, now
<1>2. Tied(Ids(now)) /\ Delivers(ts, Ids(now))
  BY <1>1, IdsTied
<1>3. CASE tg.wire = "gemini"
  BY <1>1, <1>2, <1>3, NamesMatch DEF Wired
<1>4. CASE tg.wire # "gemini"
  BY <1>1, <1>2, <1>4, TiedMatched DEF Wired
<1> QED BY <1>3, <1>4

LEMMA ConversedReach == HistoryInv => ResultsReachTheirCalls
<1> SUFFICES ASSUME HistoryInv, phase = "sent", History!Liftable, ~(target.go /\ speaker = "responses")
             PROVE  /\ History!Paired
                    /\ \A t \in History!Range(dialogue) : \A i \in DOMAIN t.calls :
                          \E j \in DOMAIN request : request[j].kind = "call" /\ request[j].ref.of = t.calls[i].of
                    /\ \A t \in History!Range(dialogue) : \A i \in DOMAIN t.results :
                          \E j \in DOMAIN request : request[j].kind = "result" /\ request[j].ref.of = t.results[i].of
  BY DEF ResultsReachTheirCalls, History!ResultsReachTheirCalls
<1>1. /\ dialogue \in Seq(Said) /\ DOMAIN dialogue = 1 .. Len(dialogue)
      /\ \A i \in 1 .. Len(dialogue) : SaidBy(speaker, dialogue[i])
  BY DEF HistoryInv, Conversed, Sensible
<1>2. Followed(speaker, target, dialogue)
  BY <1>1 DEF Followed, History!Liftable
<1>3. Matched(request) /\ Delivers(dialogue, request)
  BY <1>2, SentReach DEF HistoryInv
<1>4. DOMAIN request = 1 .. Len(request)
  <2> DEFINE now == Mended(target, Chatted(speaker, dialogue))
             b == Ids(now)
  <2>1. request = Wired(target, now)
    BY DEF HistoryInv, Conversed
  <2>2. Tied(b)
    BY <1>2, ChattedIs, MendedStands, IdsTied DEF HistoryInv, Conversed
  <2>3. b \in Seq(Entries)
    BY <2>2 DEF Tied
  <2> HIDE DEF now, b
  <2>4. DOMAIN b = 1 .. Len(b) /\ Len(b) \in Nat
    BY <2>3
  <2>5. DOMAIN Names(b) = 1 .. Len(b) /\ Len(Names(b)) = Len(b)
    BY <2>4 DEF Names
  <2> QED BY <2>1, <2>4, <2>5 DEF Wired, b
<1>5. History!Paired
  BY <1>3, <1>4 DEF Matched, History!Paired, History!Lost
<1>6. ASSUME NEW t \in History!Range(dialogue)
      PROVE  /\ \A i \in DOMAIN t.calls :
                   \E j \in DOMAIN request : request[j].kind = "call" /\ request[j].ref.of = t.calls[i].of
             /\ \A i \in DOMAIN t.results :
                   \E j \in DOMAIN request : request[j].kind = "result" /\ request[j].ref.of = t.results[i].of
  <2>1. PICK i \in 1 .. Len(dialogue) : t = dialogue[i]
    BY <1>1 DEF History!Range
  <2>2. t.calls \in Seq(Refs) /\ t.results \in Seq(Refs)
    BY <1>1, <2>1 DEF SaidBy, Said
  <2>3. DOMAIN t.calls = 1 .. Len(t.calls) /\ DOMAIN t.results = 1 .. Len(t.results)
    BY <2>2
  <2>4. ASSUME NEW x \in 1 .. Len(t.calls)
        PROVE  \E j \in 1 .. Len(request) : request[j].kind = "call" /\ request[j].ref.of = t.calls[x].of
    <3>1. x \in 1 .. Len(dialogue[i].calls)
      BY <2>1
    <3>2. \E j \in 1 .. Len(request) : request[j].kind = "call" /\ request[j].ref.of = dialogue[i].calls[x].of
      BY <1>3, <3>1 DEF Delivers
    <3> QED BY <2>1, <3>2
  <2>5. ASSUME NEW x \in 1 .. Len(t.results)
        PROVE  \E j \in 1 .. Len(request) : request[j].kind = "result" /\ request[j].ref.of = t.results[x].of
    <3>1. x \in 1 .. Len(dialogue[i].results)
      BY <2>1
    <3>2. \E j \in 1 .. Len(request) : request[j].kind = "result" /\ request[j].ref.of = dialogue[i].results[x].of
      BY <1>3, <3>1 DEF Delivers
    <3> QED BY <2>1, <3>2
  <2> QED BY <1>4, <2>3, <2>4, <2>5, Zenon
<1> QED BY <1>5, <1>6

(* What the steps make of the messages.                                    *)
LEMMA StepsAre ==
    /\ History!FlattenSeq([i \in DOMAIN dialogue |-> History!ToChat(dialogue[i])]) = Chatted(speaker, dialogue)
    /\ \A m : History!Repaired(m) = Mended(target, m)
    /\ \A m : History!OnWire(m) = Wired(target, m)
<1>1. \A ss : History!FlattenSeq(ss) = Flat(ss)
  BY Zenon DEF History!FlattenSeq, Flat
<1>2. \A t : History!ToChat(t) = Turned(speaker, t)
  BY Zenon DEF History!ToChat, Turned
<1>3. \A m : History!Repaired(m) = Mended(target, m)
  BY Zenon DEF History!Repaired, Mended
<1>4. \A m : History!ByIds(m) = Ids(m)
  BY <1>1, Zenon DEF History!ByIds, Ids, Sends
<1>5. \A m : History!ByNames(m) = Names(Ids(m))
  BY <1>4 DEF History!ByNames, Names
<1>6. \A m : History!OnWire(m) = Wired(target, m)
  BY <1>4, <1>5 DEF History!OnWire, Wired
<1>7. [i \in DOMAIN dialogue |-> History!ToChat(dialogue[i])] = [i \in DOMAIN dialogue |-> Turned(speaker, dialogue[i])]
  BY <1>2
<1>8. History!FlattenSeq([i \in DOMAIN dialogue |-> History!ToChat(dialogue[i])]) = Chatted(speaker, dialogue)
  BY <1>1, <1>7 DEF Chatted
<1> QED BY <1>3, <1>6, <1>8

(* ResultsReachTheirCalls, for conversations of any length with any number *)
(* of parallel calls, all clients and all wires: whatever the dialects, a  *)
(* result that has a handle follows the call that has it, and no call and  *)
(* no result of the history is lost on the way.                            *)
THEOREM ResultsReach == MaxParallel \in Nat /\ History!HistorySpec => []ResultsReachTheirCalls
<1> SUFFICES ASSUME MaxParallel \in Nat PROVE History!HistorySpec => []ResultsReachTheirCalls
  OBVIOUS
<1>1. History!HistoryInit => HistoryInv
  <2> SUFFICES ASSUME History!HistoryInit PROVE HistoryInv
    OBVIOUS
  <2>1. <<>> \in Seq(Said) /\ Len(<<>>) = 0
    OBVIOUS
  <2>2. Sensible(speaker, dialogue)
    BY <2>1 DEF History!HistoryInit, Sensible
  <2>3. target \in History!Targets /\ speaker \in History!Clients
    BY DEF History!HistoryInit, History!Targets, History!Clients
  <2> QED BY <2>2, <2>3 DEF History!HistoryInit, HistoryInv, Conversed
<1>2. HistoryInv /\ [History!HistoryNext]_History!historyVars => HistoryInv'
  <2> SUFFICES ASSUME HistoryInv, [History!HistoryNext]_History!historyVars
               PROVE  HistoryInv'
    OBVIOUS
  <2>0. /\ speaker \in History!Clients /\ target \in History!Targets /\ Sensible(speaker, dialogue)
        /\ phase = "idle" => dialogue = <<>>
        /\ phase = "chat" => messages = Chatted(speaker, dialogue)
        /\ phase = "repaired" => messages = Mended(target, Chatted(speaker, dialogue))
    BY DEF HistoryInv, Conversed
  <2>1. CASE UNCHANGED History!historyVars
    BY <2>1 DEF HistoryInv, History!historyVars
  <2>2. CASE History!Ask
    <3>1. /\ dialogue' = <<>> /\ phase' = "talking"
          /\ speaker' \in History!Clients /\ target' \in History!Targets
      BY <2>0, <2>2 DEF History!Ask
    <3>2. Sensible(speaker', dialogue')
      <4>1. <<>> \in Seq(Said) /\ Len(<<>>) = 0
        OBVIOUS
      <4> QED BY <3>1, <4>1 DEF Sensible
    <3> QED BY <3>1, <3>2 DEF HistoryInv, Conversed
  <2>3. CASE History!Says
    <3>1. Sensible(speaker, dialogue')
      BY <2>0, <2>3, SaysSensible
    <3>2. speaker' = speaker /\ target' = target /\ phase' = "talking"
      BY <2>3 DEF History!Says
    <3> QED BY <2>0, <3>1, <3>2 DEF HistoryInv, Conversed
  <2>4. CASE History!TranslateRequest
    <3>1. /\ speaker' = speaker /\ target' = target /\ dialogue' = dialogue /\ phase' = "chat"
          /\ messages' = Chatted(speaker, dialogue)
      BY <2>4, StepsAre DEF History!TranslateRequest
    <3> QED BY <2>0, <3>1 DEF HistoryInv, Conversed
  <2>5. CASE History!Repair
    <3>1. /\ speaker' = speaker /\ target' = target /\ dialogue' = dialogue /\ phase' = "repaired"
          /\ messages' = Mended(target, Chatted(speaker, dialogue))
      BY <2>0, <2>5, StepsAre DEF History!Repair
    <3> QED BY <2>0, <3>1 DEF HistoryInv, Conversed
  <2>6. CASE History!Dispatch
    <3>1. /\ speaker' = speaker /\ target' = target /\ dialogue' = dialogue /\ phase' = "sent"
          /\ request' = Wired(target, Mended(target, Chatted(speaker, dialogue)))
      BY <2>0, <2>6, StepsAre DEF History!Dispatch
    <3> QED BY <2>0, <3>1 DEF HistoryInv, Conversed
  <2> QED BY <2>1, <2>2, <2>3, <2>4, <2>5, <2>6 DEF History!HistoryNext
<1> QED BY <1>1, <1>2, ConversedReach, PTL DEF History!HistorySpec
=============================================================================
