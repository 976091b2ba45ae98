---------------------- MODULE StreamTranslation_proofs ----------------------
(***************************************************************************)
(* Proofs about the stream of an answer on its way to the client: from     *)
(* every upstream dialect to every client's, the arguments of a tool call  *)
(* reach the client as that call's.                                        *)
(***************************************************************************)
EXTENDS Dialects_proofs

-----------------------------------------------------------------------------
(* StreamTranslation: the frames of a stream.                              *)

(* A set of numbers below n has a greatest, in the module of the stream.   *)
LEMMA HighestIs ==
    ASSUME NEW n \in Nat, NEW S \in SUBSET (0 .. n), S # {}
    PROVE  Flow!Max(S) \in S /\ \A y \in S : y <= Flow!Max(S)
<1> DEFINE T == {n - x : x \in S}
<1>1. T \in SUBSET Nat
  <2>1. \A x \in S : x \in 0 .. n /\ n - x \in Nat
    OBVIOUS
  <2> QED BY <2>1
<1>2. T # {}
  OBVIOUS
<1> HIDE DEF T
<1>3. PICK t \in T : \A u \in T : t <= u
  BY <1>1, <1>2, Least
<1>4. PICK x \in S : t = n - x
  BY <1>3 DEF T
<1>5. ASSUME NEW y \in S PROVE x >= y
  <2>1. n - y \in T
    BY DEF T
  <2>2. n - x <= n - y
    BY <1>3, <1>4, <2>1
  <2>3. x \in 0 .. n /\ y \in 0 .. n
    OBVIOUS
  <2> QED BY <2>2, <2>3
<1>6. \E m \in S : \A y \in S : m >= y
  BY <1>5
<1>7. Flow!Max(S) \in S /\ \A y \in S : Flow!Max(S) >= y
  BY <1>6 DEF Flow!Max
<1>8. \A y \in S : y \in 0 .. n
  OBVIOUS
<1> HIDE DEF T
<1> DEFINE m == Flow!Max(S)
<1>9. m \in S /\ \A y \in S : m >= y
  BY <1>7
<1> HIDE DEF m
<1>10. \A y \in S : y <= m
  BY <1>8, <1>9
<1> QED BY <1>9, <1>10 DEF m

(* A sequence that lists the members of a set once each.                   *)
Lists(l, S) ==
    /\ l \in Seq(S)
    /\ \A k, m \in 1 .. Len(l) : l[k] = l[m] => k = m
    /\ \A x \in S : \E k \in 1 .. Len(l) : l[k] = x

(* Ascending lists a finite set of numbers, each once.                     *)
LEMMA AscendingIs ==
    ASSUME NEW n \in Nat, NEW S \in SUBSET (0 .. n)
    PROVE  Lists(Flow!Ascending(S), S)
<1>1. CASE S = {}
  <2> DEFINE l == Flow!Ascending(S)
  <2>1. l = <<>>
    BY <1>1 DEF Flow!Ascending
  <2> HIDE DEF l
  <2>2. l \in Seq(S) /\ 1 .. Len(l) = {}
    BY <2>1
  <2> QED BY <1>1, <2>2 DEF Lists, l
<1>2. CASE S # {}
  <2> DEFINE h == Flow!Max(S) + 1
             s == [k \in 1 .. h |-> k - 1]
             stay == {x + 1 : x \in S}
  <2>1. /\ h \in Nat
        /\ \A x \in S : x + 1 \in 1 .. h /\ x \in Nat
    <3>1. Flow!Max(S) \in 0 .. n /\ \A y \in S : y <= Flow!Max(S)
      BY <1>2, HighestIs
    <3> QED BY <3>1
  <2>2. /\ s \in Seq(Nat) /\ Len(s) = h
        /\ \A k \in 1 .. h : s[k] = k - 1
    <3> HIDE DEF h
    <3> QED BY <2>1
  <2>3. /\ \A x \in S : x + 1 \in stay
        /\ \A k \in stay : k - 1 \in S
    BY <2>1
  <2>4. Flow!Ascending(S) = Flow!Those(s, stay)
    BY <1>2, Zenon DEF Flow!Ascending
  <2>5. Flow!Those(s, stay) = Those(s, stay)
    BY Zenon DEF Flow!Those, Those
  <2> HIDE DEF h, s, stay
  <2>6. PICK taken : Takes(Nat, s, stay, taken) /\ Those(s, stay) = taken[h]
    BY <2>2, ThoseRuns
  <2>7. /\ \A i \in 0 .. h : taken[i] \in Seq(Nat)
        /\ taken[0] = <<>>
        /\ \A i \in 1 .. h :
              /\ i - 1 \in 0 .. h
              /\ taken[i] = IF i \in stay THEN Append(taken[i - 1], i - 1) ELSE taken[i - 1]
    <3>1. /\ taken \in [0 .. h -> Seq(Nat)] /\ taken[0] = <<>>
          /\ \A i \in 1 .. h :
                taken[i] = IF i \in stay THEN Append(taken[i - 1], s[i]) ELSE taken[i - 1]
      BY <2>2, <2>6 DEF Takes
    <3>2. \A i \in 1 .. h : i - 1 \in 0 .. h
      BY <2>1
    <3> QED BY <2>2, <3>1, <3>2
  <2> DEFINE Below(i) == /\ \A k \in 1 .. Len(taken[i]) : taken[i][k] \in S /\ taken[i][k] < i
                         /\ \A k, m \in 1 .. Len(taken[i]) : taken[i][k] = taken[i][m] => k = m
                         /\ \A x \in S : x < i => \E k \in 1 .. Len(taken[i]) : taken[i][k] = x
             Q == {i \in 0 .. h : Below(i)}
  <2>8. 0 \in Q
    <3>1. Below(0)
      <4>1. 1 .. Len(taken[0]) = {}
        BY <2>7
      <4>2. \A x \in S : ~(x < 0)
        BY <2>1
      <4> QED BY <4>1, <4>2, Zenon
    <3> QED BY <2>1, <3>1
  <2>9. ASSUME NEW i \in 1 .. h, i - 1 \in Q PROVE i \in Q
    <3> DEFINE old == taken[i - 1]
    <3>1. /\ old \in Seq(Nat) /\ i - 1 \in Nat
          /\ taken[i] = IF i \in stay THEN Append(old, i - 1) ELSE old
      BY <2>7
    <3>2. Below(i - 1)
      BY <2>9
    <3>3. /\ \A k \in 1 .. Len(old) : old[k] \in S /\ old[k] < i - 1
          /\ \A k, m \in 1 .. Len(old) : old[k] = old[m] => k = m
          /\ \A x \in S : x < i - 1 => \E k \in 1 .. Len(old) : old[k] = x
      BY <3>2
    <3> HIDE DEF old
    <3>4. Below(i)
      <4>1. CASE i \in stay
        <5>1. /\ Len(taken[i]) = Len(old) + 1 /\ Len(old) \in Nat
              /\ taken[i][Len(old) + 1] = i - 1
              /\ \A k \in 1 .. Len(old) : taken[i][k] = old[k]
          BY <3>1, <4>1
        <5>2. i - 1 \in S
          BY <2>3, <4>1
        <5>3. \A k \in 1 .. Len(taken[i]) : taken[i][k] \in S /\ taken[i][k] < i
          <6>1. ASSUME NEW k \in 1 .. Len(taken[i]) PROVE taken[i][k] \in S /\ taken[i][k] < i
            <7>1. CASE k = Len(old) + 1
              BY <5>1, <5>2, <7>1
            <7>2. CASE k \in 1 .. Len(old)
              <8>1. old[k] \in Nat
                BY <3>1, <7>2
              <8> QED BY <3>1, <3>3, <5>1, <7>2, <8>1
            <7> QED BY <5>1, <7>1, <7>2
          <6> QED BY <6>1
        <5>4. \A k, m \in 1 .. Len(taken[i]) : taken[i][k] = taken[i][m] => k = m
          <6>1. ASSUME NEW k \in 1 .. Len(taken[i]), NEW m \in 1 .. Len(taken[i]), taken[i][k] = taken[i][m]
                PROVE  k = m
            <7>1. \A u \in 1 .. Len(old) : old[u] # i - 1
              <8>1. \A u \in 1 .. Len(old) : old[u] \in Nat /\ old[u] < i - 1
                BY <3>1, <3>3
              <8> QED BY <3>1, <8>1
            <7>2. CASE k \in 1 .. Len(old) /\ m \in 1 .. Len(old)
              BY <3>3, <5>1, <6>1, <7>2
            <7>3. CASE k = Len(old) + 1
              BY <5>1, <6>1, <7>1, <7>3
            <7>4. CASE m = Len(old) + 1
              BY <5>1, <6>1, <7>1, <7>4
            <7> QED BY <5>1, <7>2, <7>3, <7>4
          <6> QED BY <6>1
        <5>5. \A x \in S : x < i => \E k \in 1 .. Len(taken[i]) : taken[i][k] = x
          <6>1. ASSUME NEW x \in S, x < i PROVE \E k \in 1 .. Len(taken[i]) : taken[i][k] = x
            <7>0. x \in Nat
              BY <2>1
            <7>1. CASE x = i - 1
              BY <5>1, <7>1
            <7>2. CASE x < i - 1
              <8>1. PICK k \in 1 .. Len(old) : old[k] = x
                BY <3>3, <7>2
              <8> QED BY <5>1, <8>1
            <7> QED BY <3>1, <6>1, <7>0, <7>1, <7>2
          <6> QED BY <6>1
        <5> QED BY <5>3, <5>4, <5>5
      <4>2. CASE i \notin stay
        <5>1. taken[i] = old
          BY <3>1, <4>2
        <5>2. \A x \in S : x < i => x < i - 1
          <6>1. ASSUME NEW x \in S, x < i PROVE x < i - 1
            <7>1. x # i - 1 /\ x \in Nat
              BY <2>1, <2>3, <3>1, <4>2
            <7> QED BY <3>1, <6>1, <7>1
          <6> QED BY <6>1
        <5>3. \A k \in 1 .. Len(old) : old[k] \in Nat
          BY <3>1
        <5>4. \A k \in 1 .. Len(old) : old[k] < i
          BY <3>1, <3>3, <5>3
        <5> QED BY <3>3, <5>1, <5>2, <5>4
      <4> QED BY <4>1, <4>2
    <3> QED BY <3>4
  <2>10. Below(h)
    <3> HIDE DEF Q, Below
    <3>1. \A i \in 0 .. h : i \in Q
      BY <2>1, <2>8, <2>9, LoopKeeps
    <3> QED BY <2>1, <3>1 DEF Q
  <2> DEFINE l == taken[h]
  <2>11. l \in Seq(Nat)
    BY <2>1, <2>7
  <2>12. /\ \A k \in 1 .. Len(l) : l[k] \in S
         /\ \A k, m \in 1 .. Len(l) : l[k] = l[m] => k = m
         /\ \A x \in S : \E k \in 1 .. Len(l) : l[k] = x
    <3>1. \A x \in S : x < h
      <4>1. \A x \in S : x \in Nat /\ x + 1 <= h
        BY <2>1
      <4> QED BY <2>1, <4>1
    <3> QED BY <2>10, <3>1
  <2> HIDE DEF l
  <2>13. l \in Seq(S)
    BY <2>11, <2>12
  <2> QED BY <2>4, <2>5, <2>6, <2>12, <2>13 DEF Lists, l
<1> QED BY <1>1, <1>2

-----------------------------------------------------------------------------
(* What an upstream sends, and the chunks its translator makes of it.      *)

PartSet == {p \in [kind : {"text", "reasoning", "call", "args"}, index : Int, of : Int] :
               /\ p.kind \in {"call", "args"} => p.index \in Nat /\ p.of = p.index
               /\ p.kind \in {"text", "reasoning"} => p.of = -1 /\ p.index = -1}

(* The finish reasons, and the canonical chunks.                           *)
Ends == {"none", "stop", "length", "tool_calls"}
ChunkSet == [parts : Seq(PartSet), finish : Ends, usage : BOOLEAN]

(* Arguments are of a call before n, or of one earlier in the chunk.       *)
Introduced(parts, n) ==
    \A i \in 1 .. Len(parts) :
        parts[i].kind = "args" =>
            \/ parts[i].index < n
            \/ \E j \in 1 .. i - 1 : parts[j].kind = "call" /\ parts[j].index = parts[i].index

(* Every call from the n-th to the m-th is in one of the chunks.           *)
Introduces(chunks, n, m) ==
    \A k \in 0 .. m - 1 :
        \/ k < n
        \/ \E c \in 1 .. Len(chunks) : \E j \in 1 .. Len(chunks[c].parts) :
              chunks[c].parts[j].kind = "call" /\ chunks[c].parts[j].index = k

(* The chunks of one upstream event, after which m calls are known.        *)
Streamed(chunks, n, m) ==
    /\ chunks \in Seq(ChunkSet)
    /\ \A c \in 1 .. Len(chunks) : Introduced(chunks[c].parts, n)
    /\ Introduces(chunks, n, m)

(* What an upstream has sent, and the state of its translator.             *)
Upstreams == [sent : Nat, calls : Nat, open : {"none", "text", "reasoning", "args"}, block : Int,
              started : BOOLEAN, closing : BOOLEAN, over : BOOLEAN]
Sources == [calls : Seq(Int), role : BOOLEAN, tool : BOOLEAN, finish : Ends]

(* The fields of an upstream's record.                                     *)
LEMMA UpstreamsAre ==
    ASSUME NEW v \in Upstreams
    PROVE  /\ v.calls \in Nat /\ v.sent \in Nat /\ v.block \in Int
           /\ v.open \in {"none", "text", "reasoning", "args"}
BY DEF Upstreams

(* Its flags leave the calls and the open block alone.                     *)
LEMMA UpstreamsFlag ==
    ASSUME NEW v \in Upstreams, NEW w,
           w \in {[v EXCEPT !.started = TRUE], [v EXCEPT !.closing = TRUE], [v EXCEPT !.over = TRUE]}
    PROVE  w \in Upstreams /\ w.calls = v.calls /\ w.open = v.open /\ w.block = v.block
BY DEF Upstreams

(* Its count of calls.                                                     *)
LEMMA UpstreamsCalls ==
    ASSUME NEW v \in Upstreams, NEW n \in Nat, NEW w, w = [v EXCEPT !.calls = n]
    PROVE  w \in Upstreams /\ w.calls = n
BY DEF Upstreams

(* A translator has an entry for each call so far: the one of an open      *)
(* Claude block is the last, a Responses item is keyed by its call.        *)
Keyed(from, v, s) ==
    /\ v \in Upstreams /\ s \in Sources
    /\ from # "openai" => Len(s.calls) = v.calls
    /\ from = "claude" /\ v.open = "args" => v.calls > 0 /\ s.calls[v.calls] = v.block
    /\ from = "responses" => \A i \in 1 .. Len(s.calls) : s.calls[i] = i - 1

(* The parts a translator makes.                                           *)
LEMMA PartsAre ==
    /\ \A k \in {"text", "reasoning"} : Flow!Part(k, -1, -1) \in PartSet
    /\ \A k \in {"call", "args"}, i \in Nat : Flow!Part(k, i, i) \in PartSet
    /\ \A k, i, o : /\ Flow!Part(k, i, o).kind = k /\ Flow!Part(k, i, o).index = i
                    /\ Flow!Part(k, i, o).of = o
BY DEF PartSet, Flow!Part

(* No chunk at all.                                                        *)
LEMMA StreamedNone ==
    ASSUME NEW n \in Nat
    PROVE  Streamed(<<>>, n, n)
BY DEF Streamed, Introduces

(* One chunk that introduces what it must is a stream of chunks.           *)
LEMMA StreamedOne ==
    ASSUME NEW n \in Nat, NEW m \in Nat, NEW c \in ChunkSet, Introduced(c.parts, n),
           \A k \in 0 .. m - 1 : k < n \/ (\E j \in 1 .. Len(c.parts) : c.parts[j].kind = "call" /\ c.parts[j].index = k)
    PROVE  Streamed(<<c>>, n, m)
<1> DEFINE out == <<c>>
<1>1. out \in Seq(ChunkSet) /\ Len(out) = 1 /\ out[1] = c
  OBVIOUS
<1> HIDE DEF out
<1> QED BY <1>1 DEF Streamed, Introduces, out

(* A chunk with no part.                                                   *)
LEMMA StreamedEmpty ==
    ASSUME NEW n \in Nat, NEW f \in Ends, NEW u \in BOOLEAN
    PROVE  Streamed(<<Flow!Chunk(<<>>, f, u)>>, n, n)
<1> DEFINE c == Flow!Chunk(<<>>, f, u)
<1>1. c \in ChunkSet /\ c.parts = <<>>
  BY DEF Flow!Chunk, ChunkSet
<1> HIDE DEF c
<1>2. Introduced(c.parts, n)
  BY <1>1 DEF Introduced
<1> QED BY <1>1, <1>2, StreamedOne DEF c

(* A chunk of one part, which may introduce the one new call.              *)
LEMMA StreamedPart ==
    ASSUME NEW n \in Nat, NEW m \in Nat, NEW p \in PartSet, NEW f \in Ends, NEW u \in BOOLEAN,
           p.kind = "args" => p.index < n,
           \A k \in 0 .. m - 1 : k < n \/ (p.kind = "call" /\ p.index = k)
    PROVE  Streamed(<<Flow!Chunk(<<p>>, f, u)>>, n, m)
<1> DEFINE c == Flow!Chunk(<<p>>, f, u)
<1>1. c \in ChunkSet /\ c.parts = <<p>> /\ Len(c.parts) = 1 /\ c.parts[1] = p
  BY DEF Flow!Chunk, ChunkSet
<1> HIDE DEF c
<1>2. Introduced(c.parts, n)
  BY <1>1 DEF Introduced
<1>3. \A k \in 0 .. m - 1 : k < n \/ (\E j \in 1 .. Len(c.parts) : c.parts[j].kind = "call" /\ c.parts[j].index = k)
  BY <1>1
<1> QED BY <1>1, <1>2, <1>3, StreamedOne DEF c

(* A chunk of one part that introduces nothing.                            *)
LEMMA StreamedSaid ==
    ASSUME NEW n \in Nat, NEW p \in PartSet, NEW f \in Ends, NEW u \in BOOLEAN,
           p.kind = "args" => p.index < n
    PROVE  Streamed(<<Flow!Chunk(<<p>>, f, u)>>, n, n)
<1>1. \A k \in 0 .. n - 1 : k < n \/ (p.kind = "call" /\ p.index = k)
  OBVIOUS
<1> QED BY <1>1, StreamedPart

(* The chunk of the next call introduces it.                               *)
LEMMA StreamedCall ==
    ASSUME NEW n \in Nat
    PROVE  Streamed(<<Flow!Chunk(<<Flow!Part("call", n, n)>>, "none", FALSE)>>, n, n + 1)
<1> DEFINE p == Flow!Part("call", n, n)
           m == n + 1
<1>1. p \in PartSet /\ p.kind = "call" /\ p.index = n
  BY PartsAre
<1>2. m \in Nat /\ \A k \in 0 .. m - 1 : k < n \/ (p.kind = "call" /\ p.index = k)
  BY <1>1
<1> HIDE DEF p, m
<1>3. Streamed(<<Flow!Chunk(<<p>>, "none", FALSE)>>, n, m)
  BY <1>1, <1>2, StreamedPart DEF Ends
<1> QED BY <1>3 DEF p, m

(* Two parts of one chunk: text and a call, or a call and its arguments.   *)
LEMMA StreamedPair ==
    ASSUME NEW n \in Nat, NEW m \in Nat, NEW p \in PartSet, NEW q \in PartSet, NEW f \in Ends, NEW u \in BOOLEAN,
           p.kind # "args",
           q.kind = "args" => p.kind = "call" /\ p.index = q.index,
           \A k \in 0 .. m - 1 : k < n \/ (p.kind = "call" /\ p.index = k) \/ (q.kind = "call" /\ q.index = k)
    PROVE  Streamed(<<Flow!Chunk(<<p, q>>, f, u)>>, n, m)
<1> DEFINE c == Flow!Chunk(<<p, q>>, f, u)
<1>1. c \in ChunkSet /\ c.parts = <<p, q>> /\ Len(c.parts) = 2 /\ c.parts[1] = p /\ c.parts[2] = q
  BY DEF Flow!Chunk, ChunkSet
<1> HIDE DEF c
<1>2. Introduced(c.parts, n)
  <2>1. ASSUME NEW i \in 1 .. 2, c.parts[i].kind = "args"
        PROVE  \E j \in 1 .. i - 1 : c.parts[j].kind = "call" /\ c.parts[j].index = c.parts[i].index
    <3>1. i = 2 /\ 1 \in 1 .. i - 1
      BY <1>1, <2>1
    <3> QED BY <1>1, <2>1, <3>1
  <2> QED BY <1>1, <2>1 DEF Introduced
<1>3. \A k \in 0 .. m - 1 : k < n \/ (\E j \in 1 .. Len(c.parts) : c.parts[j].kind = "call" /\ c.parts[j].index = k)
  <2>1. 1 \in 1 .. Len(c.parts) /\ 2 \in 1 .. Len(c.parts)
    BY <1>1
  <2> QED BY <1>1, <2>1
<1> QED BY <1>1, <1>2, <1>3, StreamedOne DEF c

(* The index of a key is its last place, from zero.                        *)
LEMMA IndexIs ==
    ASSUME NEW s, NEW n \in Nat, s.calls \in Seq(Int), Len(s.calls) = n, NEW key, NEW found \in 1 .. n, s.calls[found] = key,
           \A i \in 1 .. n : s.calls[i] = key => i <= found
    PROVE  Flow!CallIndex(s, key) = found - 1
<1> DEFINE places == {i \in DOMAIN s.calls : s.calls[i] = key}
<1>1. places \in SUBSET (0 .. n) /\ found \in places /\ places # {}
  OBVIOUS
<1>2. \A i \in places : i <= found
  OBVIOUS
<1>3. Flow!CallIndex(s, key) = Flow!Max(places) - 1
  BY <1>1 DEF Flow!CallIndex
<1> HIDE DEF places
<1>4. Flow!Max(places) \in places /\ \A y \in places : y <= Flow!Max(places)
  BY <1>1, HighestIs
<1>5. Flow!Max(places) \in 0 .. n /\ found \in 0 .. n
  BY <1>1, <1>4
<1>6. Flow!Max(places) = found
  BY <1>1, <1>2, <1>4, <1>5
<1> QED BY <1>3, <1>6

(* The key of the last call finds the last index.                          *)
LEMMA IndexLast ==
    ASSUME NEW s, NEW n \in Nat, n > 0, s.calls \in Seq(Int), Len(s.calls) = n
    PROVE  Flow!CallIndex(s, s.calls[n]) = n - 1
<1> DEFINE places == {i \in DOMAIN s.calls : s.calls[i] = s.calls[n]}
<1>1. places \in SUBSET (0 .. n) /\ n \in places /\ places # {}
  OBVIOUS
<1>2. Flow!CallIndex(s, s.calls[n]) = Flow!Max(places) - 1
  BY <1>1 DEF Flow!CallIndex
<1> HIDE DEF places
<1>3. Flow!Max(places) \in places /\ \A y \in places : y <= Flow!Max(places)
  BY <1>1, HighestIs
<1>4. Flow!Max(places) = n
  <2>1. Flow!Max(places) \in 0 .. n /\ n <= Flow!Max(places)
    BY <1>1, <1>3
  <2> QED BY <2>1
<1> QED BY <1>2, <1>4

(* A call more.                                                            *)
LEMMA SourcesCall ==
    ASSUME NEW s \in Sources, NEW n \in Nat, Len(s.calls) = n, NEW key \in Int
    PROVE  /\ [s EXCEPT !.calls = Append(@, key)] \in Sources
           /\ [s EXCEPT !.calls = Append(@, key)].calls = Append(s.calls, key)
           /\ Len(Append(s.calls, key)) = n + 1
           /\ Append(s.calls, key)[n + 1] = key
           /\ \A i \in 1 .. n : Append(s.calls, key)[i] = s.calls[i]
<1> DEFINE c == Append(s.calls, key)
<1>1. s.calls \in Seq(Int)
  BY DEF Sources
<1>2. /\ c \in Seq(Int) /\ Len(c) = n + 1 /\ c[n + 1] = key
      /\ \A i \in 1 .. n : c[i] = s.calls[i]
  BY <1>1
<1> HIDE DEF c
<1>3. [s EXCEPT !.calls = c] \in Sources /\ [s EXCEPT !.calls = c].calls = c
  BY <1>2 DEF Sources
<1> QED BY <1>2, <1>3 DEF c

(* What a step of the upstream and of its translator does to Keyed.        *)
Follow(from, next, r) ==
    /\ Keyed(from, next.env, r.state)
    /\ Streamed(r.out, env.calls, next.env.calls)

(* OpenAI chunks pass: arguments follow the call they are of.              *)
LEMMA OpenaiPasses ==
    ASSUME Keyed("openai", env, source), NEW c, NEW v \in Upstreams, NEW next, next = Flow!Sent(Flow!Payload(c), v),
           Streamed(<<c>>, env.calls, v.calls)
    PROVE  Follow("openai", next, Flow!OpenaiChunks(source, next.event))
<1> DEFINE r == Flow!OpenaiChunks(source, next.event)
<1>1. next.env = v /\ r.state = source /\ r.out = <<c>>
  BY DEF Flow!OpenaiChunks, Flow!Sent, Flow!Payload, Flow!Result
<1> HIDE DEF r
<1>2. Keyed("openai", v, source)
  BY DEF Keyed
<1> QED BY <1>1, <1>2 DEF Follow, r

(* After an OpenAI event the translator still has an entry for each call.  *)
LEMMA OpenaiFollows ==
    ASSUME Keyed("openai", env, source), NEW next \in Flow!OpenaiUpstream
    PROVE  Follow("openai", next, Flow!OpenaiChunks(source, next.event))
<1> DEFINE n == env.calls
           text == Flow!Part("text", -1, -1)
           thought == Flow!Part("reasoning", -1, -1)
           call == Flow!Part("call", n, n)
           Is(c, v) == next = Flow!Sent(Flow!Payload(c), v)
           Done == Follow("openai", next, Flow!OpenaiChunks(source, next.event))
<1>1. env \in Upstreams /\ n \in Nat /\ n + 1 \in Nat
  <2>1. env \in Upstreams
    BY DEF Keyed
  <2>2. env.calls \in Nat
    BY <2>1, UpstreamsAre
  <2> QED BY <2>1, <2>2
<1>2. text \in PartSet /\ thought \in PartSet /\ call \in PartSet
  BY <1>1, PartsAre
<1>3. /\ text.kind = "text" /\ thought.kind = "reasoning"
      /\ call.kind = "call" /\ call.index = n
  BY PartsAre
<1>4. \A k \in 0 .. (n + 1) - 1 : k < n \/ (call.kind = "call" /\ call.index = k)
  BY <1>1, <1>3
<1>5. ASSUME NEW c, NEW v \in Upstreams, Is(c, v), Streamed(<<c>>, n, v.calls) PROVE Done
  BY <1>5, OpenaiPasses
<1>6. ASSUME NEW f \in Ends, NEW u \in BOOLEAN, NEW v \in Upstreams, Is(Flow!Chunk(<<>>, f, u), v), v.calls = n
      PROVE  Done
  BY <1>1, <1>5, <1>6, StreamedEmpty
<1>7. ASSUME NEW p \in {text, thought} \cup {Flow!Part("args", i, i) : i \in 0 .. n - 1},
             Is(Flow!Chunk(<<p>>, "none", FALSE), env)
      PROVE  Done
  <2>1. p \in PartSet /\ (p.kind = "args" => p.index < n)
    <3>1. CASE p \in {text, thought}
      BY <1>2, <1>3, <3>1
    <3>2. CASE p \in {Flow!Part("args", i, i) : i \in 0 .. n - 1}
      <4>1. PICK i \in 0 .. n - 1 : p = Flow!Part("args", i, i)
        BY <3>2
      <4> QED BY <1>1, <4>1, PartsAre
    <3> QED BY <3>1, <3>2
  <2> HIDE DEF n, text, thought
  <2>2. Streamed(<<Flow!Chunk(<<p>>, "none", FALSE)>>, n, n)
    BY <1>1, <2>1, StreamedSaid DEF Ends
  <2> QED BY <1>1, <1>5, <1>7, <2>2 DEF n
<1> HIDE DEF n, text, thought, call
<1>8. /\ Streamed(<<Flow!Chunk(<<call>>, "none", FALSE)>>, n, n + 1)
      /\ Streamed(<<Flow!Chunk(<<text, call>>, "none", FALSE)>>, n, n + 1)
  <2>1. Streamed(<<Flow!Chunk(<<call>>, "none", FALSE)>>, n, n + 1)
    BY <1>1, <1>2, <1>3, <1>4, StreamedPart DEF Ends
  <2>2. Streamed(<<Flow!Chunk(<<text, call>>, "none", FALSE)>>, n, n + 1)
    BY <1>1, <1>2, <1>3, <1>4, StreamedPair DEF Ends
  <2> QED BY <2>1, <2>2
<1>9. ASSUME NEW q \in {<<call>>, <<text, call>>}, Is(Flow!Chunk(q, "none", FALSE), [env EXCEPT !.calls = n + 1])
      PROVE  Done
  <2>1. [env EXCEPT !.calls = n + 1] \in Upstreams /\ [env EXCEPT !.calls = n + 1].calls = n + 1
    BY <1>1, UpstreamsCalls
  <2>2. Streamed(<<Flow!Chunk(q, "none", FALSE)>>, n, n + 1)
    BY <1>8
  <2> HIDE DEF Is, Done
  <2> QED BY <1>5, <1>9, <2>1, <2>2
<1> HIDE DEF Done
<1>10. ASSUME env.closing PROVE Done
  <2>1. Is(Flow!Chunk(<<>>, "none", TRUE), [env EXCEPT !.over = TRUE])
    BY <1>10 DEF Flow!OpenaiUpstream
  <2>2. [env EXCEPT !.over = TRUE] \in Upstreams /\ [env EXCEPT !.over = TRUE].calls = n
    BY <1>1, UpstreamsFlag DEF n
  <2> HIDE DEF Is
  <2> QED BY <1>6, <2>1, <2>2 DEF Ends
<1>11. ASSUME ~env.closing PROVE Done
  <2>1. \/ \E p \in {text, thought} \cup {Flow!Part("args", i, i) : i \in 0 .. n - 1} :
             Is(Flow!Chunk(<<p>>, "none", FALSE), env)
        \/ \E q \in {<<call>>, <<text, call>>} :
             Is(Flow!Chunk(q, "none", FALSE), [env EXCEPT !.calls = n + 1])
        \/ \E f \in Flow!Finishes : Is(Flow!Chunk(<<>>, f, FALSE), [env EXCEPT !.closing = TRUE])
    BY <1>11, Zenon DEF Flow!OpenaiUpstream, Flow!NoIndex, n, text, thought, call
  <2>2. [env EXCEPT !.closing = TRUE] \in Upstreams /\ [env EXCEPT !.closing = TRUE].calls = n
    BY <1>1, UpstreamsFlag DEF n
  <2>3. \A f \in Flow!Finishes : f \in Ends
    BY DEF Flow!Finishes, Ends
  <2> HIDE DEF Is
  <2> QED BY <1>6, <1>7, <1>9, <2>1, <2>2, <2>3
<1> QED BY <1>10, <1>11 DEF Done

(* A step that sends an event, where the dialect has events.              *)
Tells(next, t, k, o, v) ==
    /\ next.env = v
    /\ next.event.type = t /\ next.event.key = k /\ next.event.of = o

(* The event and the record of what is sent.                               *)
LEMMA SentIs ==
    ASSUME NEW t, NEW k, NEW o, NEW v, NEW next, next = Flow!Sent(Flow!Event(t, k, o), v)
    PROVE  Tells(next, t, k, o, v)
BY DEF Flow!Sent, Flow!Event, Tells

(* The chunks of a Claude event.                                           *)
ClaudeMade(s, e, r) ==
    /\ e.type = "message_start" => r.state = s /\ r.out = <<Flow!Chunk(<<>>, "none", FALSE)>>
    /\ e.type = "tool_start" =>
          /\ r.state = [s EXCEPT !.calls = Append(s.calls, e.key)]
          /\ r.out = <<Flow!Chunk(<<Flow!Part("call", Len(s.calls), e.of)>>, "none", FALSE)>>
    /\ e.type = "args" =>
          /\ r.state = s
          /\ Flow!CallIndex(s, e.key) # -1 =>
                r.out = <<Flow!Chunk(<<Flow!Part("args", Flow!CallIndex(s, e.key), e.of)>>, "none", FALSE)>>
    /\ e.type \in {"text", "reasoning"} =>
          r.state = s /\ r.out = <<Flow!Chunk(<<Flow!Part(e.type, -1, -1)>>, "none", FALSE)>>
    /\ e.type = "message_delta" => r.state = [s EXCEPT !.finish = e.finish] /\ r.out = <<>>
    /\ e.type = "message_stop" =>
          /\ r.state = s
          /\ r.out = <<Flow!Chunk(<<>>, IF s.finish = "none" THEN "stop" ELSE s.finish, FALSE)>>
    /\ e.type = "error" =>
          r.state = s /\ r.out = <<Flow!Chunk(<<Flow!Part("text", -1, -1)>>, "stop", FALSE)>>
    /\ e.type = "block_start" => r.state = s /\ r.out = <<>>

(* The translator of Claude events, by the type of the event.              *)
LEMMA ClaudeChunksAre ==
    ASSUME NEW s, NEW e
    PROVE  ClaudeMade(s, e, Flow!ClaudeChunks(s, e))
<1>1. CASE e.type = "message_start"
  BY <1>1 DEF Flow!ClaudeChunks, Flow!Result, ClaudeMade
<1>2. CASE e.type = "tool_start"
  BY <1>2 DEF Flow!ClaudeChunks, Flow!Result, ClaudeMade
<1>3. CASE e.type = "args"
  BY <1>3 DEF Flow!ClaudeChunks, Flow!Result, ClaudeMade, Flow!NoIndex
<1>4. CASE e.type \in {"text", "reasoning"}
  BY <1>4 DEF Flow!ClaudeChunks, Flow!Result, ClaudeMade, Flow!NoIndex
<1>5. CASE e.type = "message_delta"
  BY <1>5 DEF Flow!ClaudeChunks, Flow!Result, ClaudeMade
<1>6. CASE e.type = "message_stop"
  BY <1>6 DEF Flow!ClaudeChunks, Flow!Result, ClaudeMade
<1>7. CASE e.type = "error"
  BY <1>7 DEF Flow!ClaudeChunks, Flow!Result, ClaudeMade, Flow!NoIndex
<1>8. CASE e.type = "block_start"
  BY <1>8 DEF Flow!ClaudeChunks, Flow!Result, ClaudeMade
<1> QED BY <1>1, <1>2, <1>3, <1>4, <1>5, <1>6, <1>7, <1>8 DEF ClaudeMade

(* A Claude event keeps the entries: arguments go to the open block's      *)
(* call.                                                                   *)
LEMMA ClaudeFollows ==
    ASSUME Keyed("claude", env, source), NEW next \in Flow!ClaudeUpstream
    PROVE  Follow("claude", next, Flow!ClaudeChunks(source, next.event))
<1> DEFINE n == env.calls
           e == next.event
           v == next.env
           r == Flow!ClaudeChunks(source, e)
           Stays == /\ v \in Upstreams /\ v.calls = n /\ v.open = env.open /\ v.block = env.block
<1>1. env \in Upstreams /\ source \in Sources
  BY DEF Keyed
<1>2. /\ n \in Nat /\ n + 1 \in Nat /\ env.block \in Int /\ env.block + 1 \in Int
      /\ env.open \in {"none", "text", "reasoning", "args"}
  <2>1. n \in Nat /\ env.block \in Int /\ env.open \in {"none", "text", "reasoning", "args"}
    BY <1>1, UpstreamsAre
  <2> QED BY <2>1
<1>3. /\ Len(source.calls) = n /\ source.calls \in Seq(Int) /\ source.finish \in Ends
      /\ env.open = "args" => n > 0 /\ source.calls[n] = env.block
  BY DEF Keyed, Sources
<1>4. \/ /\ e.type \in {"message_start", "message_stop", "error"} /\ Stays
      \/ /\ e.type = "message_delta" /\ e.finish \in Ends /\ Stays
      \/ /\ e.type = "tool_start" /\ e.key = env.block + 1 /\ e.of = n
         /\ v \in Upstreams /\ v.calls = n + 1 /\ v.open = "args" /\ v.block = env.block + 1
      \/ e.type = "block_start" /\ v \in Upstreams /\ v.calls = n /\ v.open # "args"
      \/ /\ e.type \in {"text", "reasoning", "args"} /\ e.type = env.open
         /\ e.key = env.block /\ e.of = n - 1 /\ v = env
  <2>1. CASE ~env.started
    <3>1. next = Flow!Sent(Flow!Event("message_start", 0, 0), [env EXCEPT !.started = TRUE])
      BY <2>1 DEF Flow!ClaudeUpstream
    <3>2. e.type = "message_start" /\ v = [env EXCEPT !.started = TRUE]
      BY <3>1, SentIs DEF Tells
    <3> HIDE DEF e, v
    <3>3. Stays
      BY <1>1, <3>2, UpstreamsFlag DEF n
    <3> QED BY <3>2, <3>3
  <2>2. CASE env.started /\ env.closing
    <3>1. next = Flow!Sent(Flow!Event("message_stop", 0, 0), [env EXCEPT !.over = TRUE])
      BY <2>2 DEF Flow!ClaudeUpstream
    <3>2. e.type = "message_stop" /\ v = [env EXCEPT !.over = TRUE]
      BY <3>1, SentIs DEF Tells
    <3> HIDE DEF e, v
    <3>3. Stays
      BY <1>1, <3>2, UpstreamsFlag DEF n
    <3> QED BY <3>2, <3>3
  <2>3. CASE env.started /\ ~env.closing
    <3>1. \/ next = Flow!Sent(Flow!Event("error", 0, 0), [env EXCEPT !.over = TRUE])
          \/ \E f \in Flow!Finishes :
                next = Flow!Sent([Flow!Event("message_delta", 0, 0) EXCEPT !.finish = f], [env EXCEPT !.closing = TRUE])
          \/ next = Flow!Sent(Flow!Event("tool_start", env.block + 1, env.calls),
                              [env EXCEPT !.calls = n + 1, !.open = "args", !.block = env.block + 1])
          \/ \E k \in {"text", "reasoning"} :
                next = Flow!Sent(Flow!Event("block_start", env.block + 1, 0),
                                 [env EXCEPT !.open = k, !.block = env.block + 1])
          \/ \E k \in {env.open} \ {"none"} : next = Flow!Sent(Flow!Event(k, env.block, n - 1), env)
      BY <2>3, Zenon DEF Flow!ClaudeUpstream
    <3>2. CASE next = Flow!Sent(Flow!Event("error", 0, 0), [env EXCEPT !.over = TRUE])
      <4>1. e.type = "error" /\ v = [env EXCEPT !.over = TRUE]
        BY <3>2, SentIs DEF Tells
      <4> HIDE DEF e, v
      <4>2. Stays
        BY <1>1, <4>1, UpstreamsFlag DEF n
      <4> QED BY <4>1, <4>2
    <3>3. ASSUME NEW f \in Flow!Finishes,
                 next = Flow!Sent([Flow!Event("message_delta", 0, 0) EXCEPT !.finish = f], [env EXCEPT !.closing = TRUE])
          PROVE  e.type = "message_delta" /\ e.finish \in Ends /\ Stays
      <4>1. e.type = "message_delta" /\ e.finish = f /\ v = [env EXCEPT !.closing = TRUE]
        BY <3>3 DEF Flow!Sent, Flow!Event
      <4>2. f \in Ends
        BY DEF Flow!Finishes, Ends
      <4> HIDE DEF e, v
      <4>3. Stays
        BY <1>1, <4>1, UpstreamsFlag DEF n
      <4> QED BY <4>1, <4>2, <4>3
    <3>4. CASE next = Flow!Sent(Flow!Event("tool_start", env.block + 1, env.calls),
                                [env EXCEPT !.calls = n + 1, !.open = "args", !.block = env.block + 1])
      <4>1. /\ e.type = "tool_start" /\ e.key = env.block + 1 /\ e.of = n
            /\ v = [env EXCEPT !.calls = n + 1, !.open = "args", !.block = env.block + 1]
        BY <3>4, SentIs DEF Tells
      <4> HIDE DEF e, v
      <4>2. v \in Upstreams /\ v.calls = n + 1 /\ v.open = "args" /\ v.block = env.block + 1
        BY <1>1, <1>2, <4>1 DEF Upstreams
      <4> QED BY <4>1, <4>2
    <3>5. ASSUME NEW k \in {"text", "reasoning"},
                 next = Flow!Sent(Flow!Event("block_start", env.block + 1, 0), [env EXCEPT !.open = k, !.block = env.block + 1])
          PROVE  e.type = "block_start" /\ v \in Upstreams /\ v.calls = n /\ v.open # "args"
      <4>1. e.type = "block_start" /\ v = [env EXCEPT !.open = k, !.block = env.block + 1]
        BY <3>5, SentIs DEF Tells
      <4> HIDE DEF e, v
      <4>2. v \in Upstreams /\ v.calls = n /\ v.open = k
        BY <1>1, <1>2, <4>1 DEF Upstreams
      <4> QED BY <4>1, <4>2
    <3>6. ASSUME NEW k \in {env.open} \ {"none"}, next = Flow!Sent(Flow!Event(k, env.block, n - 1), env)
          PROVE  /\ e.type \in {"text", "reasoning", "args"} /\ e.type = env.open
                 /\ e.key = env.block /\ e.of = n - 1 /\ v = env
      <4>1. e.type = k /\ e.key = env.block /\ e.of = n - 1 /\ v = env
        BY <3>6, SentIs DEF Tells
      <4> HIDE DEF e, v
      <4> QED BY <1>2, <4>1
    <3> HIDE DEF n, e, v, Stays
    <3> QED BY <3>1, <3>2, <3>3, <3>4, <3>5, <3>6
  <2> QED BY <2>1, <2>2, <2>3
<1>5. ClaudeMade(source, e, r) /\ Len(source.calls) = n
  BY <1>3, ClaudeChunksAre
<1>6. v \in Upstreams
  BY <1>1, <1>4
<1> HIDE DEF n, e, v, r
<1>7. ASSUME r.state \in Sources, Len(r.state.calls) = v.calls, Streamed(r.out, n, v.calls),
             v.open = "args" => v.calls > 0 /\ r.state.calls[v.calls] = v.block
      PROVE  Follow("claude", next, r)
  BY <1>6, <1>7 DEF Follow, Keyed, n, v
<1>8. ASSUME e.type \in {"message_start", "message_stop", "error", "message_delta"}
      PROVE  Follow("claude", next, r)
  <2>1. Stays /\ (e.type = "message_delta" => e.finish \in Ends)
    BY <1>4, <1>8
  <2>2. r.state \in Sources /\ r.state.calls = source.calls
    <3>1. CASE e.type = "message_delta"
      <4>1. r.state = [source EXCEPT !.finish = e.finish] /\ e.finish \in Ends
        BY <1>5, <2>1, <3>1 DEF ClaudeMade
      <4> QED BY <1>1, <4>1 DEF Sources
    <3>2. CASE e.type # "message_delta"
      BY <1>1, <1>5, <1>8, <3>2 DEF ClaudeMade
    <3> QED BY <3>1, <3>2
  <2>3. Streamed(r.out, n, n)
    <3>1. CASE e.type = "message_start"
      BY <1>2, <1>5, <3>1, StreamedEmpty DEF Ends, ClaudeMade
    <3>2. CASE e.type = "message_stop"
      <4> DEFINE f == IF source.finish = "none" THEN "stop" ELSE source.finish
      <4>1. f \in Ends
        BY <1>3 DEF Ends
      <4>2. r.out = <<Flow!Chunk(<<>>, f, FALSE)>>
        BY <1>5, <3>2 DEF ClaudeMade
      <4> HIDE DEF f
      <4> QED BY <1>2, <4>1, <4>2, StreamedEmpty
    <3>3. CASE e.type = "error"
      <4>1. Flow!Part("text", -1, -1) \in PartSet /\ Flow!Part("text", -1, -1).kind = "text"
        BY PartsAre
      <4>2. r.out = <<Flow!Chunk(<<Flow!Part("text", -1, -1)>>, "stop", FALSE)>>
        BY <1>5, <3>3 DEF ClaudeMade
      <4> QED BY <1>2, <4>1, <4>2, StreamedSaid DEF Ends
    <3>4. CASE e.type = "message_delta"
      BY <1>2, <1>5, <3>4, StreamedNone DEF ClaudeMade
    <3> QED BY <1>8, <3>1, <3>2, <3>3, <3>4
  <2> QED BY <1>3, <1>7, <2>1, <2>2, <2>3
<1>9. ASSUME e.type = "tool_start" PROVE Follow("claude", next, r)
  <2>1. /\ e.key = env.block + 1 /\ e.of = n /\ v.calls = n + 1 /\ v.block = env.block + 1 /\ v.open = "args"
    BY <1>4, <1>9
  <2> DEFINE p == Flow!Part("call", n, n)
  <2>2. r.state = [source EXCEPT !.calls = Append(source.calls, e.key)] /\ r.out = <<Flow!Chunk(<<p>>, "none", FALSE)>>
    BY <1>5, <1>9, <2>1 DEF ClaudeMade
  <2>3. /\ r.state \in Sources /\ Len(r.state.calls) = n + 1 /\ r.state.calls[n + 1] = e.key
    <3>1. e.key \in Int
      BY <1>2, <2>1
    <3> QED BY <1>1, <1>2, <1>3, <2>2, <3>1, SourcesCall
  <2>4. Streamed(r.out, n, n + 1)
    BY <1>2, <2>2, StreamedCall
  <2> QED BY <1>2, <1>7, <2>1, <2>3, <2>4
<1>10. ASSUME e.type = "block_start" PROVE Follow("claude", next, r)
  <2>1. v.calls = n /\ v.open # "args"
    BY <1>4, <1>10
  <2>2. r.state = source /\ r.out = <<>>
    BY <1>5, <1>10 DEF ClaudeMade
  <2>3. Streamed(r.out, n, n)
    BY <1>2, <2>2, StreamedNone
  <2> QED BY <1>1, <1>3, <1>7, <2>1, <2>2, <2>3
<1>11. ASSUME e.type \in {"text", "reasoning", "args"} PROVE Follow("claude", next, r)
  <2>1. v = env /\ e.type = env.open /\ e.key = env.block /\ e.of = n - 1
    BY <1>4, <1>11
  <2>2. r.state = source
    BY <1>5, <1>11 DEF ClaudeMade
  <2>3. Streamed(r.out, n, n)
    <3>1. CASE e.type = "args"
      <4>1. n > 0 /\ n - 1 \in Nat /\ n - 1 # -1 /\ n - 1 < n
        BY <1>2, <1>3, <2>1, <3>1
      <4>2. Flow!CallIndex(source, e.key) = n - 1
        BY <1>2, <1>3, <2>1, <3>1, IndexLast
      <4> DEFINE p == Flow!Part("args", n - 1, n - 1)
      <4>3. r.out = <<Flow!Chunk(<<p>>, "none", FALSE)>>
        BY <1>5, <2>1, <3>1, <4>1, <4>2 DEF ClaudeMade
      <4>4. p \in PartSet /\ p.index = n - 1
        BY <4>1, PartsAre
      <4> HIDE DEF p
      <4> QED BY <1>2, <4>1, <4>3, <4>4, StreamedSaid DEF Ends
    <3>2. CASE e.type # "args"
      <4> DEFINE p == Flow!Part(e.type, -1, -1)
      <4>1. r.out = <<Flow!Chunk(<<p>>, "none", FALSE)>>
        BY <1>5, <1>11, <3>2 DEF ClaudeMade
      <4>2. p \in PartSet /\ p.kind = e.type
        BY <1>11, <3>2, PartsAre
      <4> HIDE DEF p
      <4> QED BY <1>2, <3>2, <4>1, <4>2, StreamedSaid DEF Ends
    <3> QED BY <3>1, <3>2
  <2>4. v.calls = n
    BY <2>1 DEF n
  <2> QED BY <1>1, <1>3, <1>7, <2>1, <2>2, <2>3, <2>4
<1>12. Follow("claude", next, r)
  BY <1>4, <1>8, <1>9, <1>10, <1>11
<1> QED BY <1>12 DEF r, e

(* A payload has no parts, one or two, read one after the other.           *)
GeminiRun(s, e, read, r) ==
    /\ read[0] = Flow!Result(s, <<>>)
    /\ \A i \in 1 .. Len(e.parts) : read[i] = Flow!GeminiPart(read[i - 1], e.parts[i])
    /\ r = Flow!Result([read[Len(e.parts)].state EXCEPT !.finish = IF e.finish = "none" THEN @ ELSE e.finish],
                       read[Len(e.parts)].out)

(* A Gemini payload: each call is new and brings its own arguments.        *)
LEMMA GeminiReads ==
    ASSUME NEW s, NEW e, Len(e.parts) \in 0 .. 2
    PROVE  \E read : GeminiRun(s, e, read, Flow!GeminiChunks(s, e))
<1> DEFINE n == Len(e.parts)
<1> DEFINE Is(f) == f = [i \in 0 .. Len(e.parts) |-> IF i = 0 THEN Flow!Result(s, <<>>)
                                                   ELSE Flow!GeminiPart(f[i - 1], e.parts[i])]
           read == CHOOSE f : Is(f)
           first == Flow!Result(s, <<>>)
           second == Flow!GeminiPart(first, e.parts[1])
           third == Flow!GeminiPart(second, e.parts[2])
           g == [i \in 0 .. n |-> IF i = 0 THEN first ELSE IF i = 1 THEN second ELSE third]
<1>1. Is(g)
  <2>1. DOMAIN g = 0 .. n
    OBVIOUS
  <2>2. ASSUME NEW i \in 0 .. n
        PROVE  g[i] = IF i = 0 THEN first ELSE Flow!GeminiPart(g[i - 1], e.parts[i])
    <3>1. CASE i = 0
      BY <3>1
    <3>2. CASE i = 1
      <4>1. 0 \in 0 .. n /\ g[0] = first /\ g[i] = second
        BY <3>2
      <4> HIDE DEF g
      <4> QED BY <3>2, <4>1
    <3>3. CASE i = 2
      <4>1. 1 \in 0 .. n /\ g[1] = second /\ g[i] = third
        BY <3>3
      <4> HIDE DEF g
      <4> QED BY <3>3, <4>1
    <3> QED BY <3>1, <3>2, <3>3
  <2>3. g = [i \in 0 .. n |-> g[i]]
    OBVIOUS
  <2> HIDE DEF g
  <2>4. g = [i \in 0 .. n |-> IF i = 0 THEN first ELSE Flow!GeminiPart(g[i - 1], e.parts[i])]
    BY <2>2, <2>3
  <2> QED BY <2>4
<1> HIDE DEF g
<1>2. Is(read)
  BY <1>1
<1>3. Flow!GeminiChunks(s, e) =
        Flow!Result([read[Len(e.parts)].state EXCEPT !.finish = IF e.finish = "none" THEN @ ELSE e.finish],
                    read[Len(e.parts)].out)
  BY Zenon DEF Flow!GeminiChunks
<1> HIDE DEF read
<1>4. \A i \in 0 .. n : read[i] = IF i = 0 THEN first ELSE Flow!GeminiPart(read[i - 1], e.parts[i])
  BY <1>2
<1>5. 0 \in 0 .. n /\ \A i \in 1 .. n : i \in 0 .. n /\ i # 0
  OBVIOUS
<1>6. read[0] = first /\ \A i \in 1 .. n : read[i] = Flow!GeminiPart(read[i - 1], e.parts[i])
  BY <1>4, <1>5
<1> QED BY <1>3, <1>6 DEF GeminiRun

(* A Gemini payload keeps the entries.                                     *)
LEMMA GeminiFollows ==
    ASSUME Keyed("gemini", env, source), NEW next \in Flow!GeminiUpstream
    PROVE  Follow("gemini", next, Flow!GeminiChunks(source, next.event))
<1> DEFINE n == env.calls
           e == next.event
           v == next.env
           r == Flow!GeminiChunks(source, e)
           text == Flow!Part("text", -1, -1)
           said == Flow!Chunk(<<text>>, "none", FALSE)
           call == Flow!Part("call", n, n)
           args == Flow!Part("args", n, n)
           called == Flow!Chunk(<<call, args>>, "none", FALSE)
           asks == Flow!Part("call", -1, n)
<1>1. env \in Upstreams /\ source \in Sources /\ Len(source.calls) = n /\ n \in Nat /\ n + 1 \in Nat
  <2>1. env \in Upstreams /\ source \in Sources /\ Len(source.calls) = n
    BY DEF Keyed
  <2>2. n \in Nat
    BY <2>1, UpstreamsAre
  <2> QED BY <2>1, <2>2
<1>2. PICK f \in {"none", "stop", "length"}, p \in {<<>>, <<text>>},
           c \in {<<>>} \cup {<<Flow!Part("call", -1, m)>> : m \in {k \in {n} : k < MaxCalls}} :
        next = Flow!GeminiSends(f, p, c)
  BY DEF Flow!GeminiUpstream, Flow!NoIndex
<1>3. /\ c \in {<<>>, <<asks>>}
      /\ e.finish = f /\ e.parts = p \o c /\ v = [env EXCEPT !.calls = n + Len(c), !.over = f # "none"]
  <2>1. c \in {<<>>, <<asks>>}
    OBVIOUS
  <2> QED BY <1>2, <2>1 DEF Flow!GeminiSends, Flow!Sent
<1>4. Len(c) \in Nat /\ v \in Upstreams /\ v.calls = n + Len(c)
  <2> DEFINE k == n + Len(c)
             u == f # "none"
  <2>1. Len(c) \in Nat /\ k \in Nat /\ u \in BOOLEAN
    BY <1>1, <1>3
  <2>2. v = [env EXCEPT !.calls = k, !.over = u]
    BY <1>3
  <2> HIDE DEF k, u, v
  <2>3. v \in Upstreams /\ v.calls = k
    BY <1>1, <2>1, <2>2 DEF Upstreams
  <2> QED BY <2>1, <2>3 DEF k
<1>5. f \in Ends
  BY DEF Ends
<1>6. /\ text.kind = "text" /\ text \in PartSet
      /\ asks.kind = "call" /\ asks.of = n
      /\ call \in PartSet /\ args \in PartSet /\ call.kind = "call" /\ args.kind = "args"
      /\ call.index = n /\ args.index = n
  BY <1>1, PartsAre
<1> HIDE DEF text, asks, call, args
<1>7. \A q : /\ Flow!GeminiPart(q, text) = Flow!Result([q.state EXCEPT !.role = TRUE], Append(q.out, said))
             /\ Len(q.state.calls) = n =>
                  Flow!GeminiPart(q, asks) =
                    Flow!Result([q.state EXCEPT !.calls = Append(@, n)], Append(q.out, called))
  <2>1. ASSUME NEW q PROVE Flow!GeminiPart(q, text) = Flow!Result([q.state EXCEPT !.role = TRUE], Append(q.out, said))
    BY <1>6 DEF Flow!GeminiPart
  <2>2. ASSUME NEW q, Len(q.state.calls) = n
        PROVE  Flow!GeminiPart(q, asks) =
                 Flow!Result([q.state EXCEPT !.calls = Append(@, n)], Append(q.out, called))
    BY <1>6, <2>2 DEF Flow!GeminiPart, call, args
  <2> QED BY <2>1, <2>2
<1>8. \A st, out : Flow!Result(st, out).state = st /\ Flow!Result(st, out).out = out
  BY DEF Flow!Result
<1>9. Streamed(<<said>>, n, n)
  BY <1>1, <1>6, StreamedSaid DEF Ends
<1>10. Streamed(<<called>>, n, n + 1)
  <2> DEFINE m == n + 1
  <2>1. m \in Nat /\ \A k \in 0 .. m - 1 : k < n \/ (call.kind = "call" /\ call.index = k) \/ (args.kind = "call" /\ args.index = k)
    BY <1>1, <1>6
  <2> HIDE DEF m
  <2>3. Streamed(<<called>>, n, m)
    BY <1>1, <1>6, <2>1, StreamedPair DEF Ends
  <2> QED BY <2>3 DEF m
<1> HIDE DEF e, v, r, said, called
<1>11. ASSUME NEW st \in Sources, Len(st.calls) = v.calls, NEW out, Streamed(out, n, v.calls),
              r = Flow!Result([st EXCEPT !.finish = IF f = "none" THEN @ ELSE f], out)
       PROVE  Follow("gemini", next, r)
  <2> DEFINE g == IF f = "none" THEN st.finish ELSE f
  <2>1. g \in Ends
    BY <1>5 DEF Sources
  <2> HIDE DEF g
  <2>2. r.state = [st EXCEPT !.finish = g] /\ r.out = out
    BY <1>8, <1>11 DEF g
  <2>3. r.state \in Sources /\ r.state.calls = st.calls
    BY <2>1, <2>2 DEF Sources
  <2> HIDE DEF n
  <2> QED BY <1>4, <1>11, <2>2, <2>3 DEF Keyed, Follow, n, v
<1>12. PICK read : GeminiRun(source, e, read, r)
  <2>1. Len(e.parts) \in 0 .. 2
    BY <1>3
  <2> QED BY <2>1, GeminiReads DEF r
<1>13. /\ read[0].state = source /\ read[0].out = <<>>
       /\ \A i \in 1 .. Len(e.parts) : read[i] = Flow!GeminiPart(read[i - 1], e.parts[i])
       /\ r = Flow!Result([read[Len(e.parts)].state EXCEPT !.finish = IF f = "none" THEN @ ELSE f],
                          read[Len(e.parts)].out)
  BY <1>3, <1>8, <1>12 DEF GeminiRun
<1> DEFINE handed == [source EXCEPT !.calls = Append(@, n)]
           spoken == [source EXCEPT !.role = TRUE]
           both == [spoken EXCEPT !.calls = Append(@, n)]
<1>14. /\ spoken \in Sources /\ spoken.calls = source.calls
       /\ handed \in Sources /\ Len(handed.calls) = n + 1
       /\ both \in Sources /\ Len(both.calls) = n + 1
  <2>1. spoken \in Sources /\ spoken.calls = source.calls
    BY <1>1 DEF Sources
  <2>2. n \in Int
    BY <1>1
  <2>3. handed \in Sources /\ Len(handed.calls) = n + 1
    BY <1>1, <2>2, SourcesCall
  <2> HIDE DEF spoken
  <2>4. both \in Sources /\ Len(both.calls) = n + 1
    BY <1>1, <2>1, <2>2, SourcesCall
  <2> QED BY <2>1, <2>3, <2>4
<1>15. ASSUME p = <<>> /\ c = <<>> PROVE Follow("gemini", next, r)
  <2>1. Len(e.parts) = 0 /\ v.calls = n
    BY <1>1, <1>3, <1>4, <1>15
  <2>2. Streamed(<<>>, n, n)
    BY <1>1, StreamedNone
  <2>3. r = Flow!Result([source EXCEPT !.finish = IF f = "none" THEN @ ELSE f], <<>>)
    BY <1>8, <1>13, <2>1
  <2> QED BY <1>1, <1>11, <2>1, <2>2, <2>3
<1>16. ASSUME p = <<text>> /\ c = <<>> PROVE Follow("gemini", next, r)
  <2>1. Len(e.parts) = 1 /\ e.parts[1] = text /\ v.calls = n
    BY <1>1, <1>3, <1>4, <1>16
  <2>2. read[1] = Flow!Result(spoken, <<said>>)
    <3>1. read[1] = Flow!GeminiPart(read[0], text)
      BY <1>13, <2>1
    <3>2. Append(<<>>, said) = <<said>>
      OBVIOUS
    <3> QED BY <1>7, <1>13, <3>1, <3>2
  <2> HIDE DEF spoken
  <2>3. r = Flow!Result([spoken EXCEPT !.finish = IF f = "none" THEN @ ELSE f], <<said>>)
    BY <1>8, <1>13, <2>1, <2>2
  <2> QED BY <1>1, <1>9, <1>11, <1>14, <2>1, <2>3
<1>17. ASSUME p = <<>> /\ c = <<asks>> PROVE Follow("gemini", next, r)
  <2>1. Len(e.parts) = 1 /\ e.parts[1] = asks /\ v.calls = n + 1
    BY <1>1, <1>3, <1>4, <1>17
  <2>2. read[1] = Flow!Result(handed, <<called>>)
    <3>1. read[1] = Flow!GeminiPart(read[0], asks)
      BY <1>13, <2>1
    <3>2. Append(<<>>, called) = <<called>>
      OBVIOUS
    <3> QED BY <1>1, <1>7, <1>13, <3>1, <3>2
  <2> HIDE DEF handed
  <2>3. r = Flow!Result([handed EXCEPT !.finish = IF f = "none" THEN @ ELSE f], <<called>>)
    BY <1>8, <1>13, <2>1, <2>2
  <2> QED BY <1>1, <1>10, <1>11, <1>14, <2>1, <2>3
<1>18. ASSUME p = <<text>> /\ c = <<asks>> PROVE Follow("gemini", next, r)
  <2>1. Len(e.parts) = 2 /\ e.parts[1] = text /\ e.parts[2] = asks /\ v.calls = n + 1
    BY <1>1, <1>3, <1>4, <1>18
  <2>2. read[1] = Flow!Result(spoken, <<said>>)
    <3>1. read[1] = Flow!GeminiPart(read[0], text)
      BY <1>13, <2>1
    <3>2. Append(<<>>, said) = <<said>>
      OBVIOUS
    <3> QED BY <1>7, <1>13, <3>1, <3>2
  <2>3. read[2] = Flow!GeminiPart(read[1], asks)
    BY <1>13, <2>1
  <2> HIDE DEF spoken
  <2>4. Len(read[1].state.calls) = n /\ read[1].state = spoken /\ read[1].out = <<said>>
    BY <1>1, <1>8, <1>14, <2>2
  <2>5. read[2] = Flow!Result(both, Append(<<said>>, called))
    BY <1>7, <2>3, <2>4
  <2> HIDE DEF both
  <2>6. r = Flow!Result([both EXCEPT !.finish = IF f = "none" THEN @ ELSE f], Append(<<said>>, called))
    BY <1>8, <1>13, <2>1, <2>5
  <2>7. Streamed(Append(<<said>>, called), n, n + 1)
    <3> DEFINE m == n + 1
               a == <<said>>
               b == <<called>>
               out == Append(a, called)
    <3>1. /\ a \in Seq(ChunkSet) /\ b \in Seq(ChunkSet)
          /\ Introduced(a[1].parts, n) /\ Introduced(b[1].parts, n) /\ Introduces(b, n, m)
      BY <1>9, <1>10 DEF Streamed
    <3>2. a[1] = said /\ b[1] = called /\ said \in ChunkSet /\ called \in ChunkSet
      BY <3>1
    <3>3. out \in Seq(ChunkSet) /\ Len(out) = 2 /\ out[1] = said /\ out[2] = called
      BY <3>2
    <3>4. \A k \in 0 .. m - 1 : k < n \/ (\E j \in 1 .. Len(called.parts) :
                                           called.parts[j].kind = "call" /\ called.parts[j].index = k)
      <4>1. Len(b) = 1
        OBVIOUS
      <4> HIDE DEF m, b
      <4> QED BY <3>1, <3>2, <4>1 DEF Introduces
    <3> HIDE DEF out, a, b, m
    <3>5. Streamed(out, n, m)
      BY <3>1, <3>2, <3>3, <3>4 DEF Streamed, Introduces
    <3> QED BY <3>5 DEF out, a, m
  <2> QED BY <1>11, <1>14, <2>1, <2>6, <2>7
<1>19. Follow("gemini", next, r)
  BY <1>3, <1>15, <1>16, <1>17, <1>18
<1> QED BY <1>19 DEF r, e

(* The chunks of a Responses event.                                        *)
ResponsesMade(s, e, r) ==
    /\ e.type = "created" =>
          /\ r.state = [s EXCEPT !.role = TRUE]
          /\ r.out = <<>> \/ r.out = <<Flow!Chunk(<<>>, "none", FALSE)>>
    /\ e.type = "text" =>
          /\ r.state = [s EXCEPT !.role = TRUE]
          /\ r.out = <<Flow!Chunk(<<Flow!Part("text", -1, -1)>>, "none", FALSE)>>
    /\ e.type = "reasoning" =>
          r.state = s /\ r.out = <<Flow!Chunk(<<Flow!Part("reasoning", -1, -1)>>, "none", FALSE)>>
    /\ e.type = "tool_start" =>
          /\ r.state = [s EXCEPT !.calls = Append(s.calls, e.key), !.tool = TRUE]
          /\ r.out = <<Flow!Chunk(<<Flow!Part("call", Len(s.calls), e.of)>>, "none", FALSE)>>
    /\ e.type = "args" /\ Flow!CallIndex(s, e.key) # -1 =>
          /\ r.state = s
          /\ r.out = <<Flow!Chunk(<<Flow!Part("args", Flow!CallIndex(s, e.key), e.of)>>, "none", FALSE)>>
    /\ e.type \in {"completed", "incomplete"} =>
          r.state = s /\ \E f \in Ends : r.out = <<Flow!Chunk(<<>>, f, e.usage)>>

(* The translator of Responses events, by the type of the event.           *)
LEMMA ResponsesChunksAre ==
    ASSUME NEW s, NEW e
    PROVE  ResponsesMade(s, e, Flow!ResponsesChunks(s, e))
<1>1. CASE e.type = "created"
  <2>1. CASE s.role
    BY <1>1, <2>1 DEF Flow!ResponsesChunks, Flow!Result, ResponsesMade
  <2>2. CASE ~s.role
    BY <1>1, <2>2 DEF Flow!ResponsesChunks, Flow!Result, ResponsesMade
  <2> QED BY <2>1, <2>2
<1>2. CASE e.type = "tool_start"
  BY <1>2 DEF Flow!ResponsesChunks, Flow!Result, ResponsesMade
<1>3. CASE e.type = "args"
  BY <1>3 DEF Flow!ResponsesChunks, Flow!Result, ResponsesMade, Flow!NoIndex
<1>4. CASE e.type = "text"
  BY <1>4 DEF Flow!ResponsesChunks, Flow!Result, ResponsesMade, Flow!NoIndex
<1>5. CASE e.type = "reasoning"
  BY <1>5 DEF Flow!ResponsesChunks, Flow!Result, ResponsesMade, Flow!NoIndex
<1>6. CASE e.type \in {"completed", "incomplete"}
  <2> DEFINE f == CASE e.type = "incomplete" -> "length"
                    [] e.type = "completed" /\ s.tool -> "tool_calls"
                    [] OTHER -> "stop"
  <2>1. f \in Ends
    BY DEF Ends
  <2>2. Flow!ResponsesChunks(s, e) = Flow!Result(s, <<Flow!Chunk(<<>>, f, e.usage)>>)
    BY <1>6 DEF Flow!ResponsesChunks
  <2> HIDE DEF f
  <2> DEFINE r == Flow!ResponsesChunks(s, e)
  <2>3. r.state = s /\ r.out = <<Flow!Chunk(<<>>, f, e.usage)>>
    BY <2>2 DEF Flow!Result
  <2> HIDE DEF r
  <2>4. ResponsesMade(s, e, r)
    BY <1>6, <2>1, <2>3 DEF ResponsesMade
  <2> QED BY <2>4 DEF r
<1> QED BY <1>1, <1>2, <1>3, <1>4, <1>5, <1>6 DEF ResponsesMade

(* The index of a Responses call is its key.                               *)
LEMMA IndexKey ==
    ASSUME NEW s, NEW n \in Nat, s.calls \in Seq(Int), Len(s.calls) = n, NEW i \in 0 .. n - 1,
           \A k \in 1 .. n : s.calls[k] = k - 1
    PROVE  Flow!CallIndex(s, i) = i
<1> DEFINE places == {k \in DOMAIN s.calls : s.calls[k] = i}
<1>1. places \in SUBSET (0 .. n) /\ i + 1 \in places /\ places # {} /\ \A k \in places : k = i + 1
  OBVIOUS
<1>2. Flow!CallIndex(s, i) = Flow!Max(places) - 1
  BY <1>1 DEF Flow!CallIndex
<1> HIDE DEF places
<1>3. Flow!Max(places) \in places
  BY <1>1, HighestIs
<1>4. Flow!Max(places) = i + 1
  BY <1>1, <1>3
<1> QED BY <1>2, <1>4

(* A Responses event keeps the entries: an item is keyed by its call.      *)
LEMMA ResponsesFollows ==
    ASSUME Keyed("responses", env, source), NEW next \in Flow!ResponsesUpstream
    PROVE  Follow("responses", next, Flow!ResponsesChunks(source, next.event))
<1> DEFINE n == env.calls
           e == next.event
           v == next.env
           r == Flow!ResponsesChunks(source, e)
<1>1. /\ env \in Upstreams /\ source \in Sources /\ Len(source.calls) = n /\ n \in Nat
      /\ source.calls \in Seq(Int)
      /\ \A k \in 1 .. n : source.calls[k] = k - 1
  <2>1. env \in Upstreams /\ source \in Sources /\ Len(source.calls) = n
    BY DEF Keyed
  <2>2. n \in Nat
    BY <2>1, UpstreamsAre
  <2>3. source.calls \in Seq(Int)
    BY <2>1 DEF Sources
  <2> QED BY <2>1, <2>2, <2>3 DEF Keyed
<1>2. \/ e.type \in {"created", "completed", "incomplete"} /\ e.usage \in BOOLEAN /\ v \in Upstreams /\ v.calls = n
      \/ e.type \in {"text", "reasoning"} /\ v = env
      \/ e.type = "args" /\ v = env /\ e.key \in 0 .. n - 1 /\ e.of = e.key
      \/ e.type = "tool_start" /\ v \in Upstreams /\ v.calls = n + 1 /\ e.key = n /\ e.of = n
  <2>1. CASE ~env.started
    <3>1. next = Flow!Sent(Flow!Event("created", 0, 0), [env EXCEPT !.started = TRUE])
      BY <2>1 DEF Flow!ResponsesUpstream
    <3>2. e.type = "created" /\ v = [env EXCEPT !.started = TRUE]
      BY <3>1, SentIs DEF Tells
    <3>3. e.usage = FALSE
      BY <3>1 DEF Flow!Sent, Flow!Event
    <3> HIDE DEF e, v
    <3> QED BY <1>1, <3>2, <3>3, UpstreamsFlag
  <2>2. CASE env.started
    <3>1. \/ \E k \in {"text", "reasoning"} : next = Flow!Sent(Flow!Event(k, 0, 0), env)
          \/ \E i \in 0 .. n - 1 : next = Flow!Sent(Flow!Event("args", i, i), env)
          \/ next = Flow!Sent(Flow!Event("tool_start", n, n), [env EXCEPT !.calls = n + 1])
          \/ \E k \in {"completed", "incomplete"}, u \in BOOLEAN : next = Flow!ResponsesEnds(k, u)
      <4> DEFINE A == {Flow!Sent(Flow!Event(k, 0, 0), env) : k \in {"text", "reasoning"}}
                 B == {Flow!Sent(Flow!Event("args", i, i), env) : i \in 0 .. n - 1}
                 C == {Flow!Sent(Flow!Event("tool_start", m, m), [env EXCEPT !.calls = m + 1]) :
                         m \in {k \in {n} : k < MaxCalls}}
                 E == {Flow!ResponsesEnds(k, u) : k \in {"completed", "incomplete"}, u \in BOOLEAN}
      <4>1. next \in A \cup B \cup C \cup E
        BY <2>2 DEF Flow!ResponsesUpstream
      <4>2. CASE next \in A
        BY <4>2, Zenon
      <4>3. CASE next \in B
        BY <4>3, Zenon
      <4>4. CASE next \in C
        BY <4>4, Zenon
      <4>5. CASE next \in E
        BY <4>5
      <4> HIDE DEF A, B, C, E
      <4> QED BY <4>1, <4>2, <4>3, <4>4, <4>5
    <3>2. ASSUME NEW k \in {"text", "reasoning"}, next = Flow!Sent(Flow!Event(k, 0, 0), env)
          PROVE  e.type \in {"text", "reasoning"} /\ v = env
      BY <3>2, SentIs DEF Tells
    <3>3. ASSUME NEW i \in 0 .. n - 1, next = Flow!Sent(Flow!Event("args", i, i), env)
          PROVE  e.type = "args" /\ v = env /\ e.key \in 0 .. n - 1 /\ e.of = e.key
      BY <3>3, SentIs DEF Tells
    <3>4. ASSUME next = Flow!Sent(Flow!Event("tool_start", n, n), [env EXCEPT !.calls = n + 1])
          PROVE  e.type = "tool_start" /\ v \in Upstreams /\ v.calls = n + 1 /\ e.key = n /\ e.of = n
      <4>1. e.type = "tool_start" /\ e.key = n /\ e.of = n /\ v = [env EXCEPT !.calls = n + 1]
        BY <3>4, SentIs DEF Tells
      <4>2. n + 1 \in Nat
        BY <1>1
      <4> HIDE DEF e, v
      <4>3. v \in Upstreams /\ v.calls = n + 1
        BY <1>1, <4>1, <4>2, UpstreamsCalls
      <4> QED BY <4>1, <4>3
    <3>5. ASSUME NEW k \in {"completed", "incomplete"}, NEW u \in BOOLEAN, next = Flow!ResponsesEnds(k, u)
          PROVE  e.type \in {"completed", "incomplete"} /\ e.usage \in BOOLEAN /\ v \in Upstreams /\ v.calls = n
      <4>2. e.type = k /\ e.usage = u /\ v = [env EXCEPT !.over = TRUE]
        BY <3>5 DEF Flow!ResponsesEnds, Flow!Sent, Flow!Event
      <4> HIDE DEF e, v
      <4>3. v \in Upstreams /\ v.calls = n
        BY <1>1, <4>2, UpstreamsFlag
      <4> QED BY <4>2, <4>3
    <3> HIDE DEF n, e, v
    <3> QED BY <3>1, <3>2, <3>3, <3>4, <3>5
  <2> QED BY <2>1, <2>2
<1>3. ResponsesMade(source, e, r)
  BY ResponsesChunksAre
<1>4. v \in Upstreams
  BY <1>1, <1>2
<1>5. v = env => v.calls = n
  OBVIOUS
<1> HIDE DEF n, e, v, r
<1>6. ASSUME r.state \in Sources, r.state.calls = source.calls, Streamed(r.out, n, n), v.calls = n
      PROVE  Follow("responses", next, r)
  BY <1>1, <1>4, <1>6 DEF Follow, Keyed, n, v
<1>7. ASSUME e.type \in {"created", "text", "reasoning", "completed", "incomplete"}
      PROVE  Follow("responses", next, r)
  <2>1. v.calls = n /\ (e.type \in {"completed", "incomplete"} => e.usage \in BOOLEAN)
    BY <1>2, <1>5, <1>7
  <2>2. r.state \in Sources /\ r.state.calls = source.calls
    <3>1. r.state \in {source, [source EXCEPT !.role = TRUE]}
      BY <1>3, <1>7 DEF ResponsesMade
    <3> QED BY <1>1, <3>1 DEF Sources
  <2>3. Streamed(r.out, n, n)
    <3>1. CASE e.type = "created"
      <4>1. r.out = <<>> \/ r.out = <<Flow!Chunk(<<>>, "none", FALSE)>>
        BY <1>3, <3>1 DEF ResponsesMade
      <4> QED BY <1>1, <4>1, StreamedEmpty, StreamedNone DEF Ends
    <3>2. CASE e.type \in {"text", "reasoning"}
      <4> DEFINE p == Flow!Part(e.type, -1, -1)
      <4>1. r.out = <<Flow!Chunk(<<p>>, "none", FALSE)>>
        BY <1>3, <3>2 DEF ResponsesMade
      <4>2. p \in PartSet /\ p.kind = e.type
        BY <3>2, PartsAre
      <4> HIDE DEF p
      <4> QED BY <1>1, <3>2, <4>1, <4>2, StreamedSaid DEF Ends
    <3>3. CASE e.type \in {"completed", "incomplete"}
      <4>1. PICK f \in Ends : r.out = <<Flow!Chunk(<<>>, f, e.usage)>>
        BY <1>3, <3>3 DEF ResponsesMade
      <4> QED BY <1>1, <2>1, <3>3, <4>1, StreamedEmpty
    <3> QED BY <1>7, <3>1, <3>2, <3>3
  <2> QED BY <1>6, <2>1, <2>2, <2>3
<1>8. ASSUME e.type = "args" PROVE Follow("responses", next, r)
  <2>1. v.calls = n /\ e.key \in 0 .. n - 1 /\ e.of = e.key
    BY <1>2, <1>5, <1>8
  <2>2. Flow!CallIndex(source, e.key) = e.key
    BY <1>1, <2>1, IndexKey
  <2>3. e.key \in Nat /\ e.key < n /\ e.key # -1
    BY <1>1, <2>1
  <2> DEFINE p == Flow!Part("args", e.key, e.key)
  <2>4. r.state = source /\ r.out = <<Flow!Chunk(<<p>>, "none", FALSE)>>
    BY <1>3, <1>8, <2>1, <2>2, <2>3 DEF ResponsesMade
  <2>5. p \in PartSet /\ p.index = e.key
    BY <2>3, PartsAre
  <2> HIDE DEF p
  <2>6. Streamed(r.out, n, n)
    BY <1>1, <2>3, <2>4, <2>5, StreamedSaid DEF Ends
  <2> QED BY <1>1, <1>6, <2>1, <2>4, <2>6
<1>9. ASSUME e.type = "tool_start" PROVE Follow("responses", next, r)
  <2>1. v.calls = n + 1 /\ e.key = n /\ e.of = n
    BY <1>2, <1>9
  <2> DEFINE s == [source EXCEPT !.calls = Append(@, n)]
  <2>2. /\ r.state = [source EXCEPT !.calls = Append(source.calls, n), !.tool = TRUE]
        /\ r.out = <<Flow!Chunk(<<Flow!Part("call", n, n)>>, "none", FALSE)>>
    BY <1>1, <1>3, <1>9, <2>1 DEF ResponsesMade
  <2>3. n \in Int
    BY <1>1
  <2>4. /\ s \in Sources /\ Len(s.calls) = n + 1 /\ s.calls[n + 1] = n
        /\ \A i \in 1 .. n : s.calls[i] = source.calls[i]
    BY <1>1, <2>3, SourcesCall
  <2>5. r.state = [s EXCEPT !.tool = TRUE]
    BY <2>2
  <2> HIDE DEF s
  <2>6. r.state \in Sources /\ r.state.calls = s.calls
    BY <2>4, <2>5 DEF Sources
  <2>7. \A i \in 1 .. n + 1 : s.calls[i] = i - 1
    <3>1. \A i \in 1 .. n + 1 : i \in 1 .. n \/ i = n + 1
      BY <1>1
    <3> QED BY <1>1, <2>4, <3>1
  <2>8. Streamed(r.out, n, n + 1)
    BY <1>1, <2>2, StreamedCall
  <2> QED BY <1>4, <2>1, <2>4, <2>6, <2>7, <2>8 DEF Follow, Keyed, n, v
<1>10. Follow("responses", next, r)
  BY <1>2, <1>7, <1>8, <1>9
<1> QED BY <1>10 DEF r, e

(* What an upstream sends and what its translator makes of it agree.       *)
LEMMA ChunksFollow ==
    ASSUME formats.from \in Flow!Dialects, Keyed(formats.from, env, source), NEW next \in Flow!Upstream
    PROVE  Follow(formats.from, next, Flow!Chunks(formats.from, source, next.event))
<1>1. CASE formats.from = "openai"
  BY <1>1, OpenaiFollows DEF Flow!Upstream, Flow!Chunks
<1>2. CASE formats.from = "claude"
  BY <1>2, ClaudeFollows DEF Flow!Upstream, Flow!Chunks
<1>3. CASE formats.from = "gemini"
  BY <1>3, GeminiFollows DEF Flow!Upstream, Flow!Chunks
<1>4. CASE formats.from = "responses"
  BY <1>4, ResponsesFollows DEF Flow!Upstream, Flow!Chunks
<1> QED BY <1>1, <1>2, <1>3, <1>4 DEF Flow!Dialects

-----------------------------------------------------------------------------
(* The frames of a client, and what announces the arguments in them.       *)

FrameTypes == {"text", "reasoning", "call", "args", "finish", "DONE",
               "message_start", "ping", "block_start", "block_delta", "block_stop", "message_delta", "message_stop",
               "created", "added", "part_added", "delta", "text_done", "part_done", "done", "completed", "incomplete"}

(* The frames of every client's dialect.                                   *)
FrameSet == [type : FrameTypes, index : Int, of : Int, seq : Nat]

(* What announces a call, what carries its arguments, and that a frame     *)
(* announced it.                                                           *)
Begins(f) == f.type \in {"call", "added", "block_start"}
Bears(f) == f.type \in {"args", "delta", "block_delta"} /\ f.of # -1
Announced(G, index, of) == \E j \in 1 .. Len(G) : Begins(G[j]) /\ G[j].index = index /\ G[j].of = of

(* Arguments follow the announcement of their call.                        *)
Reach(G) ==
    \A i \in 1 .. Len(G) :
        Bears(G[i]) => \E j \in 1 .. i - 1 : Begins(G[j]) /\ G[j].index = G[i].index /\ G[j].of = G[i].of

(* Frames that follow take no announcement back, and reach if their        *)
(* arguments were announced.                                               *)
LEMMA ReachMore ==
    ASSUME NEW G \in Seq(FrameSet), NEW E \in Seq(FrameSet), Reach(G),
           \A i \in 1 .. Len(E) :
               Bears(E[i]) => \/ Announced(G, E[i].index, E[i].of)
                              \/ \E j \in 1 .. i - 1 : Begins(E[j]) /\ E[j].index = E[i].index /\ E[j].of = E[i].of
    PROVE  /\ G \o E \in Seq(FrameSet) /\ Reach(G \o E)
           /\ \A x, o : Announced(G, x, o) \/ Announced(E, x, o) => Announced(G \o E, x, o)
<1> DEFINE F == G \o E
           n == Len(G)
           m == Len(E)
<1>1. /\ F \in Seq(FrameSet) /\ Len(F) = n + m /\ n \in Nat /\ m \in Nat
      /\ \A i \in 1 .. n : F[i] = G[i]
      /\ \A i \in 1 .. m : F[n + i] = E[i]
  OBVIOUS
<1> HIDE DEF F
<1>2. ASSUME NEW i \in 1 .. Len(F), Bears(F[i])
      PROVE  \E j \in 1 .. i - 1 : Begins(F[j]) /\ F[j].index = F[i].index /\ F[j].of = F[i].of
  <2>1. CASE i \in 1 .. n
    <3>1. F[i] = G[i]
      BY <1>1, <2>1
    <3>2. PICK j \in 1 .. i - 1 : Begins(G[j]) /\ G[j].index = G[i].index /\ G[j].of = G[i].of
      BY <1>2, <2>1, <3>1 DEF Reach
    <3>3. F[j] = G[j]
      BY <1>1, <2>1
    <3> QED BY <3>1, <3>2, <3>3
  <2>2. CASE i \notin 1 .. n
    <3>1. PICK k \in 1 .. m : i = n + k
      <4>1. i - n \in 1 .. m /\ i = n + (i - n)
        BY <1>1, <2>2
      <4> QED BY <4>1
    <3>2. F[i] = E[k]
      BY <1>1, <3>1
    <3>3. CASE Announced(G, E[k].index, E[k].of)
      <4>1. PICK j \in 1 .. n : Begins(G[j]) /\ G[j].index = E[k].index /\ G[j].of = E[k].of
        BY <3>3 DEF Announced
      <4>2. j \in 1 .. i - 1 /\ F[j] = G[j]
        BY <1>1, <3>1
      <4> QED BY <3>2, <4>1, <4>2
    <3>4. CASE \E j \in 1 .. k - 1 : Begins(E[j]) /\ E[j].index = E[k].index /\ E[j].of = E[k].of
      <4>1. PICK j \in 1 .. k - 1 : Begins(E[j]) /\ E[j].index = E[k].index /\ E[j].of = E[k].of
        BY <3>4
      <4>2. j \in 1 .. m /\ n + j \in 1 .. i - 1
        BY <1>1, <3>1
      <4>3. F[n + j] = E[j]
        BY <1>1, <4>2
      <4> QED BY <3>2, <4>1, <4>2, <4>3
    <3> QED BY <1>2, <3>2, <3>3, <3>4
  <2> QED BY <2>1, <2>2
<1>3. ASSUME NEW x, NEW o, Announced(G, x, o) \/ Announced(E, x, o) PROVE Announced(F, x, o)
  <2>1. CASE Announced(G, x, o)
    <3>1. PICK j \in 1 .. n : Begins(G[j]) /\ G[j].index = x /\ G[j].of = o
      BY <2>1 DEF Announced
    <3>2. j \in 1 .. Len(F) /\ F[j] = G[j]
      BY <1>1
    <3> QED BY <3>1, <3>2 DEF Announced
  <2>2. CASE Announced(E, x, o)
    <3>1. PICK j \in 1 .. m : Begins(E[j]) /\ E[j].index = x /\ E[j].of = o
      BY <2>2 DEF Announced
    <3>2. n + j \in 1 .. Len(F) /\ F[n + j] = E[j]
      BY <1>1
    <3> QED BY <3>1, <3>2 DEF Announced
  <2> QED BY <1>3, <2>1, <2>2
<1> QED BY <1>1, <1>2, <1>3 DEF Reach, F

(* Frames that bear no arguments always may follow.                        *)
LEMMA ReachPlain ==
    ASSUME NEW G \in Seq(FrameSet), NEW E \in Seq(FrameSet), Reach(G), \A i \in 1 .. Len(E) : ~Bears(E[i])
    PROVE  /\ G \o E \in Seq(FrameSet) /\ Reach(G \o E)
           /\ \A x, o : Announced(G, x, o) \/ Announced(E, x, o) => Announced(G \o E, x, o)
<1>1. \A i \in 1 .. Len(E) :
        Bears(E[i]) => \/ Announced(G, E[i].index, E[i].of)
                       \/ \E j \in 1 .. i - 1 : Begins(E[j]) /\ E[j].index = E[i].index /\ E[j].of = E[i].of
  OBVIOUS
<1> HIDE DEF Reach, Announced, Bears, Begins
<1> QED BY <1>1, ReachMore, Zenon

(* Frames that may come after those of G.                                  *)
MayFollow(G, E) ==
    /\ E \in Seq(FrameSet)
    /\ \A i \in 1 .. Len(E) :
          Bears(E[i]) => \/ Announced(G, E[i].index, E[i].of)
                         \/ \E j \in 1 .. i - 1 : Begins(E[j]) /\ E[j].index = E[i].index /\ E[j].of = E[i].of

(* A part adds a start, if any, and its own frame, if any.                 *)
LEMMA PartFollows ==
    ASSUME NEW G, NEW S \in FrameSet, NEW P \in FrameSet, NEW a \in BOOLEAN, NEW b \in BOOLEAN,
           ~Bears(S),
           Bears(P) => \/ Announced(G, P.index, P.of)
                       \/ a /\ Begins(S) /\ S.index = P.index /\ S.of = P.of,
           NEW E, E = (IF a THEN <<S>> ELSE <<>>) \o (IF b THEN <<P>> ELSE <<>>)
    PROVE  MayFollow(G, E) /\ (a /\ Begins(S) => Announced(E, S.index, S.of))
<1> DEFINE A == IF a THEN <<S>> ELSE <<>>
           B == IF b THEN <<P>> ELSE <<>>
<1>1. /\ A \in Seq(FrameSet) /\ (a => Len(A) = 1 /\ A[1] = S) /\ (~a => Len(A) = 0)
      /\ B \in Seq(FrameSet) /\ (b => Len(B) = 1 /\ B[1] = P) /\ (~b => Len(B) = 0)
  OBVIOUS
<1>2. E = A \o B
  OBVIOUS
<1> HIDE DEF A, B
<1>3. /\ E \in Seq(FrameSet) /\ Len(E) = Len(A) + Len(B) /\ Len(A) \in Nat /\ Len(B) \in Nat
      /\ \A i \in 1 .. Len(A) : E[i] = A[i]
      /\ \A i \in 1 .. Len(B) : E[Len(A) + i] = B[i]
  <2> HIDE DEF FrameSet
  <2> QED BY <1>1, <1>2
<1>4. /\ a => 1 \in 1 .. Len(E) /\ E[1] = S
      /\ \A i \in 1 .. Len(E) : (a /\ i = 1 /\ E[i] = S) \/ (b /\ E[i] = P /\ (a => i = 2))
  <2>1. ASSUME a PROVE 1 \in 1 .. Len(E) /\ E[1] = S
    BY <1>1, <1>3, <2>1
  <2>2. ASSUME NEW i \in 1 .. Len(E)
        PROVE  (a /\ i = 1 /\ E[i] = S) \/ (b /\ E[i] = P /\ (a => i = 2))
    <3>1. CASE i \in 1 .. Len(A)
      BY <1>1, <1>3, <3>1
    <3>2. CASE i \notin 1 .. Len(A)
      <4>1. i - Len(A) \in 1 .. Len(B) /\ i = Len(A) + (i - Len(A))
        BY <1>3, <3>2
      <4>2. b /\ i - Len(A) = 1
        BY <1>1, <4>1
      <4>3. E[Len(A) + 1] = B[1] /\ i = Len(A) + 1
        BY <1>3, <4>1, <4>2
      <4> QED BY <1>1, <4>2, <4>3
    <3> QED BY <3>1, <3>2
  <2> QED BY <2>1, <2>2
<1>5. ASSUME NEW i \in 1 .. Len(E), Bears(E[i])
      PROVE  \/ Announced(G, E[i].index, E[i].of)
             \/ \E j \in 1 .. i - 1 : Begins(E[j]) /\ E[j].index = E[i].index /\ E[j].of = E[i].of
  <2>1. E[i] = P /\ (a => i = 2)
    BY <1>4, <1>5
  <2>2. CASE Announced(G, P.index, P.of)
    BY <2>1, <2>2
  <2>3. CASE a /\ Begins(S) /\ S.index = P.index /\ S.of = P.of
    <3>1. 1 \in 1 .. i - 1 /\ E[1] = S
      BY <1>4, <2>1, <2>3
    <3> QED BY <2>1, <2>3, <3>1
  <2> QED BY <1>5, <2>1, <2>2, <2>3
<1>6. a /\ Begins(S) => Announced(E, S.index, S.of)
  BY <1>4 DEF Announced
<1> QED BY <1>3, <1>5, <1>6 DEF MayFollow

(* So the frames that may follow do.                                       *)
LEMMA ReachFollows ==
    ASSUME NEW G \in Seq(FrameSet), Reach(G), NEW E, MayFollow(G, E)
    PROVE  /\ E \in Seq(FrameSet) /\ G \o E \in Seq(FrameSet) /\ Reach(G \o E)
           /\ \A x, o : Announced(G, x, o) \/ Announced(E, x, o) => Announced(G \o E, x, o)
<1>1. /\ E \in Seq(FrameSet)
      /\ \A i \in 1 .. Len(E) :
          Bears(E[i]) => \/ Announced(G, E[i].index, E[i].of)
                         \/ \E j \in 1 .. i - 1 : Begins(E[j]) /\ E[j].index = E[i].index /\ E[j].of = E[i].of
  BY Zenon DEF MayFollow
<1> HIDE DEF Reach, Announced, Bears, Begins
<1> QED BY <1>1, ReachMore, Zenon

(* An announcement and then its arguments reach their call.                *)
LEMMA ReachPart ==
    ASSUME NEW G \in Seq(FrameSet), Reach(G), NEW S \in FrameSet, NEW P \in FrameSet, NEW a \in BOOLEAN, NEW b \in BOOLEAN,
           ~Bears(S),
           Bears(P) => \/ Announced(G, P.index, P.of)
                       \/ a /\ Begins(S) /\ S.index = P.index /\ S.of = P.of,
           NEW E, E = (IF a THEN <<S>> ELSE <<>>) \o (IF b THEN <<P>> ELSE <<>>)
    PROVE  /\ E \in Seq(FrameSet) /\ G \o E \in Seq(FrameSet) /\ Reach(G \o E)
           /\ \A x, o : Announced(G, x, o) => Announced(G \o E, x, o)
           /\ a /\ Begins(S) => Announced(G \o E, S.index, S.of)
<1> HIDE DEF Reach, Announced, Bears, Begins
<1>1. MayFollow(G, E) /\ (a /\ Begins(S) => Announced(E, S.index, S.of))
  BY PartFollows, Zenon
<1>2. /\ E \in Seq(FrameSet) /\ G \o E \in Seq(FrameSet) /\ Reach(G \o E)
      /\ \A x, o : Announced(G, x, o) \/ Announced(E, x, o) => Announced(G \o E, x, o)
  BY <1>1, ReachFollows
<1> QED BY <1>1, <1>2

(* Concatenation associates.                                               *)
LEMMA Associates ==
    ASSUME NEW A, NEW a \in Seq(A), NEW b \in Seq(A), NEW c \in Seq(A)
    PROVE  a \o (b \o c) = (a \o b) \o c
OBVIOUS

(* Frames join in any grouping.                                            *)
LEMMA FramesJoin ==
    \A x, y, z \in Seq(FrameSet) : x \o (y \o z) = (x \o y) \o z
<1>1. ASSUME NEW x \in Seq(FrameSet), NEW y \in Seq(FrameSet), NEW z \in Seq(FrameSet)
      PROVE  x \o (y \o z) = (x \o y) \o z
  BY <1>1, Associates
<1> QED BY <1>1

(* Frames after frames are frames.                                         *)
LEMMA FramesFollow ==
    ASSUME NEW x \in Seq(FrameSet), NEW y \in Seq(FrameSet)
    PROVE  x \o y \in Seq(FrameSet)
<1> HIDE DEF FrameSet
<1> QED OBVIOUS

-----------------------------------------------------------------------------
(* The sink of a Claude client: the block of a tool was announced with it. *)

Pairs == [call : Nat, block : Nat]

(* The Claude client's translator: its blocks, and the tool each is of.    *)
ClaudeSinks == [started : BOOLEAN, reasoning : Int, text : Int, count : Nat, reasoningOpen : BOOLEAN, textOpen : BOOLEAN,
                tools : Seq(Pairs), finished : BOOLEAN]

(* Its tools were announced, each under its block, and its frames reach.   *)
ClaudeOk(s, G) ==
    /\ s \in ClaudeSinks /\ G \in Seq(FrameSet) /\ Reach(G)
    /\ \A i \in 1 .. Len(s.tools) :
          s.tools[i].block <= s.count /\ Announced(G, s.tools[i].block, s.tools[i].call)

(* The sinks s became: the same tools, and no fewer blocks.                *)
Grown(s, t) == t \in ClaudeSinks /\ t.tools = s.tools /\ t.count >= s.count

(* The fields of the Claude client's translator.                           *)
LEMMA ClaudeSinksAre ==
    ASSUME NEW s \in ClaudeSinks
    PROVE  /\ s.reasoning \in Int /\ s.text \in Int /\ s.count \in Nat /\ s.tools \in Seq(Pairs)
           /\ s.started \in BOOLEAN /\ s.finished \in BOOLEAN /\ s.reasoningOpen \in BOOLEAN /\ s.textOpen \in BOOLEAN
           /\ \A i \in 1 .. Len(s.tools) : s.tools[i].call \in Nat /\ s.tools[i].block \in Nat
<1>1. /\ s.reasoning \in Int /\ s.text \in Int /\ s.count \in Nat /\ s.tools \in Seq(Pairs)
      /\ s.started \in BOOLEAN /\ s.finished \in BOOLEAN /\ s.reasoningOpen \in BOOLEAN /\ s.textOpen \in BOOLEAN
  BY DEF ClaudeSinks
<1>2. \A i \in 1 .. Len(s.tools) : s.tools[i] \in Pairs
  BY <1>1
<1> QED BY <1>1, <1>2 DEF Pairs

(* The block of a call is the one its tool was given.                      *)
LEMMA BlockIs ==
    ASSUME NEW s \in ClaudeSinks, NEW call
    PROVE  \/ /\ Flow!BlockOf(s, call) = -1
              /\ \A i \in 1 .. Len(s.tools) : s.tools[i].call # call
           \/ \E i \in 1 .. Len(s.tools) :
                 s.tools[i].call = call /\ s.tools[i].block = Flow!BlockOf(s, call)
<1> DEFINE places == {i \in DOMAIN s.tools : s.tools[i].call = call}
<1>1. DOMAIN s.tools = 1 .. Len(s.tools)
  BY ClaudeSinksAre
<1>2. CASE places = {}
  <2>1. Flow!BlockOf(s, call) = -1
    BY <1>2 DEF Flow!BlockOf, Flow!NoIndex
  <2> QED BY <1>1, <1>2, <2>1
<1>3. CASE places # {}
  <2> DEFINE i == CHOOSE k \in places : TRUE
  <2>1. i \in places
    BY <1>3
  <2>2. Flow!BlockOf(s, call) = s.tools[i].block
    BY <1>3, Zenon DEF Flow!BlockOf
  <2> HIDE DEF i
  <2> QED BY <1>1, <2>1, <2>2
<1> QED BY <1>2, <1>3

(* Text opens a block and no tool.                                         *)
LEMMA OpenedText ==
    ASSUME NEW s \in ClaudeSinks
    PROVE  Grown(s, Flow!OpenText(s))
<1>1. CASE s.text # -1
  BY <1>1, ClaudeSinksAre DEF Flow!OpenText, Flow!NoIndex, Grown
<1>2. CASE s.text = -1
  <2> DEFINE x == s.count
             n == s.count + 1
  <2>1. x \in Int /\ n \in Nat /\ n >= s.count
    BY ClaudeSinksAre
  <2>2. Flow!OpenText(s) = [s EXCEPT !.text = x, !.textOpen = TRUE, !.count = n]
    BY <1>2 DEF Flow!OpenText, Flow!NoIndex
  <2> HIDE DEF x, n
  <2>3. /\ [s EXCEPT !.text = x, !.textOpen = TRUE, !.count = n] \in ClaudeSinks
        /\ [s EXCEPT !.text = x, !.textOpen = TRUE, !.count = n].tools = s.tools
        /\ [s EXCEPT !.text = x, !.textOpen = TRUE, !.count = n].count = n
    BY <2>1 DEF ClaudeSinks
  <2> QED BY <2>1, <2>2, <2>3 DEF Grown
<1> QED BY <1>1, <1>2

(* So does reasoning.                                                      *)
LEMMA OpenedReasoning ==
    ASSUME NEW s \in ClaudeSinks
    PROVE  Grown(s, Flow!OpenReasoning(s))
<1>1. CASE s.reasoning # -1
  BY <1>1, ClaudeSinksAre DEF Flow!OpenReasoning, Flow!NoIndex, Grown
<1>2. CASE s.reasoning = -1
  <2> DEFINE x == IF s.text # -1 THEN Flow!AtLeastOne(s.count) ELSE 0
             n == IF s.text # -1 THEN x + 1 ELSE Flow!AtLeastOne(s.count)
  <2>1. x \in Int /\ n \in Nat /\ n >= s.count
    BY ClaudeSinksAre DEF Flow!AtLeastOne
  <2>2. Flow!OpenReasoning(s) = [s EXCEPT !.reasoning = x, !.reasoningOpen = TRUE, !.count = n]
    BY <1>2 DEF Flow!OpenReasoning, Flow!NoIndex
  <2> HIDE DEF x, n
  <2>3. /\ [s EXCEPT !.reasoning = x, !.reasoningOpen = TRUE, !.count = n] \in ClaudeSinks
        /\ [s EXCEPT !.reasoning = x, !.reasoningOpen = TRUE, !.count = n].tools = s.tools
        /\ [s EXCEPT !.reasoning = x, !.reasoningOpen = TRUE, !.count = n].count = n
    BY <2>1 DEF ClaudeSinks
  <2> QED BY <2>1, <2>2, <2>3 DEF Grown
<1> QED BY <1>1, <1>2

(* A call without a block gets one, and that is its block from then on.    *)
LEMMA OpenedTool ==
    ASSUME NEW s \in ClaudeSinks, NEW call \in Nat
    PROVE  \/ Flow!OpenTool(s, call) = s /\ Flow!BlockOf(s, call) # -1
           \/ \E b \in Nat :
                 /\ Flow!OpenTool(s, call) \in ClaudeSinks /\ Flow!OpenTool(s, call) # s
                 /\ Flow!OpenTool(s, call).tools = Append(s.tools, [call |-> call, block |-> b])
                 /\ b <= Flow!OpenTool(s, call).count /\ s.count <= Flow!OpenTool(s, call).count
                 /\ Flow!BlockOf(Flow!OpenTool(s, call), call) = b
<1>1. CASE Flow!BlockOf(s, call) # -1
  BY <1>1 DEF Flow!OpenTool, Flow!NoIndex
<1>2. CASE Flow!BlockOf(s, call) = -1
  <2> DEFINE b == IF s.text # -1 THEN Flow!AtLeastOne(s.count) ELSE s.count
             n == b + 1
             pair == [call |-> call, block |-> b]
             tools == Append(s.tools, pair)
             t == [s EXCEPT !.tools = tools, !.count = n]
  <2>1. b \in Nat /\ n \in Nat /\ b <= n /\ s.count <= n
    BY ClaudeSinksAre DEF Flow!AtLeastOne
  <2>2. Flow!OpenTool(s, call) = t
    BY <1>2, Zenon DEF Flow!OpenTool, Flow!NoIndex
  <2>3. pair \in Pairs /\ pair.call = call /\ pair.block = b
    BY <2>1 DEF Pairs
  <2>4. \A i \in 1 .. Len(s.tools) : s.tools[i].call # call
    <3>1. \A i \in 1 .. Len(s.tools) : s.tools[i].block # -1
      BY ClaudeSinksAre
    <3> QED BY <1>2, <3>1, BlockIs
  <2> HIDE DEF b, n
  <2>5. tools = Append(s.tools, [call |-> call, block |-> b])
    OBVIOUS
  <2> HIDE DEF pair
  <2>6. /\ tools \in Seq(Pairs) /\ Len(s.tools) \in Nat /\ Len(tools) = Len(s.tools) + 1
        /\ tools[Len(s.tools) + 1] = pair
        /\ \A i \in 1 .. Len(s.tools) : tools[i] = s.tools[i]
    <3> HIDE DEF Pairs
    <3> QED BY <2>3, ClaudeSinksAre
  <2> HIDE DEF tools
  <2>7. t \in ClaudeSinks /\ t.tools = tools /\ t.count = n
    BY <2>1, <2>6 DEF ClaudeSinks
  <2> HIDE DEF t
  <2>8. t # s
    BY <2>6, <2>7
  <2>9. Flow!BlockOf(t, call) = b
    <3>1. \A i \in 1 .. Len(tools) : tools[i].call = call => i = Len(s.tools) + 1
      BY <2>4, <2>6
    <3>2. Len(s.tools) + 1 \in 1 .. Len(tools)
      BY <2>6
    <3> QED BY <2>3, <2>6, <2>7, <3>1, <3>2, BlockIs
  <2> QED BY <2>1, <2>2, <2>5, <2>7, <2>8, <2>9
<1> QED BY <1>1, <1>2

(* What is said after the frames of G leaves the sink as it should be.     *)
ClaudeRun(G, r) == r.out \in Seq(FrameSet) /\ ClaudeOk(r.state, G \o r.out)

(* A block starts, when a, and something is said in it, when b.            *)
ClaudeAdds(H, out, t, S, P, a, b, q) ==
    /\ q.state = t /\ q.out = (out \o (IF a THEN <<S>> ELSE <<>>)) \o (IF b THEN <<P>> ELSE <<>>)
    /\ t \in ClaudeSinks /\ S \in FrameSet /\ P \in FrameSet /\ a \in BOOLEAN /\ b \in BOOLEAN
    /\ ~Bears(S)
    /\ Bears(P) => \/ Announced(H, P.index, P.of)
                   \/ a /\ Begins(S) /\ S.index = P.index /\ S.of = P.of
    /\ \A i \in 1 .. Len(t.tools) :
          /\ t.tools[i].block <= t.count
          /\ \/ Announced(H, t.tools[i].block, t.tools[i].call)
             \/ a /\ Begins(S) /\ S.index = t.tools[i].block /\ S.of = t.tools[i].call

(* A block that starts, or something said in one, keeps the invariant.     *)
LEMMA ClaudeExtends ==
    ASSUME NEW G \in Seq(FrameSet), NEW r, ClaudeRun(G, r), NEW t, NEW S, NEW P, NEW a, NEW b,
           NEW q, ClaudeAdds(G \o r.out, r.out, t, S, P, a, b, q)
    PROVE  ClaudeRun(G, q)
<1> DEFINE H == G \o r.out
           A == IF a THEN <<S>> ELSE <<>>
           B == IF b THEN <<P>> ELSE <<>>
           E == A \o B
<1>0. /\ t \in ClaudeSinks /\ S \in FrameSet /\ P \in FrameSet /\ a \in BOOLEAN /\ b \in BOOLEAN
      /\ ~Bears(S)
      /\ Bears(P) => \/ Announced(H, P.index, P.of)
                     \/ a /\ Begins(S) /\ S.index = P.index /\ S.of = P.of
      /\ \A i \in 1 .. Len(t.tools) :
            /\ t.tools[i].block <= t.count
            /\ \/ Announced(H, t.tools[i].block, t.tools[i].call)
               \/ a /\ Begins(S) /\ S.index = t.tools[i].block /\ S.of = t.tools[i].call
  BY Zenon DEF ClaudeAdds
<1>1. r.out \in Seq(FrameSet) /\ H \in Seq(FrameSet) /\ Reach(H)
  BY DEF ClaudeRun, ClaudeOk
<1>2. A \in Seq(FrameSet) /\ B \in Seq(FrameSet) /\ E = (IF a THEN <<S>> ELSE <<>>) \o (IF b THEN <<P>> ELSE <<>>)
  BY <1>0
<1>3. q.state = t /\ q.out = (r.out \o A) \o B
  BY Zenon DEF ClaudeAdds
<1> HIDE DEF E
<1>4. /\ E \in Seq(FrameSet) /\ H \o E \in Seq(FrameSet) /\ Reach(H \o E)
      /\ \A x, o : Announced(H, x, o) => Announced(H \o E, x, o)
      /\ a /\ Begins(S) => Announced(H \o E, S.index, S.of)
  <2> HIDE DEF Reach, Announced, Bears, Begins, FrameSet, H, A, B
  <2>1. Bears(P) => \/ Announced(H, P.index, P.of)
                    \/ a /\ Begins(S) /\ S.index = P.index /\ S.of = P.of
    BY <1>0 DEF H
  <2> QED BY <1>0, <1>1, <1>2, <2>1, ReachPart, Zenon
<1> HIDE DEF A, B, FrameSet
<1>5. q.out = r.out \o E /\ q.out \in Seq(FrameSet) /\ G \o q.out = H \o E
  <2> DEFINE o == r.out
  <2>0. G \in Seq(FrameSet) /\ o \in Seq(FrameSet) /\ A \in Seq(FrameSet) /\ B \in Seq(FrameSet) /\ E \in Seq(FrameSet)
    BY <1>1, <1>2, <1>4
  <2>1. o \o (A \o B) = (o \o A) \o B
    <3> HIDE DEF o
    <3> QED BY <2>0, FramesJoin, Zenon
  <2>2. G \o (o \o E) = (G \o o) \o E
    <3> HIDE DEF o
    <3> QED BY <2>0, FramesJoin, Zenon
  <2>3. o \o E \in Seq(FrameSet)
    BY <2>0, FramesFollow
  <2> QED BY <1>3, <2>1, <2>2, <2>3 DEF H, E
<1>6. \A i \in 1 .. Len(t.tools) :
         t.tools[i].block <= t.count /\ Announced(H \o E, t.tools[i].block, t.tools[i].call)
  <2> HIDE DEF Announced, Begins
  <2> QED BY <1>0, <1>4
<1> HIDE DEF H
<1> QED BY <1>0, <1>3, <1>4, <1>5, <1>6 DEF ClaudeRun, ClaudeOk

(* The fields of a frame.                                                  *)
LEMMA FrameIs ==
    ASSUME NEW t \in FrameTypes, NEW i \in Int, NEW o \in Int
    PROVE  /\ Flow!Frame(t, i, o) \in FrameSet
           /\ Flow!Frame(t, i, o).type = t /\ Flow!Frame(t, i, o).index = i /\ Flow!Frame(t, i, o).of = o
BY DEF FrameSet, Flow!Frame

(* One part of a delta keeps the invariant of the Claude client.           *)
LEMMA ClaudePartKeeps ==
    ASSUME NEW G \in Seq(FrameSet), NEW r, ClaudeRun(G, r), NEW p \in PartSet
    PROVE  ClaudeRun(G, Flow!ClaudePart(r, p))
<1> DEFINE s == r.state
           H == G \o r.out
           q == Flow!ClaudePart(r, p)
<1>1. /\ s \in ClaudeSinks /\ H \in Seq(FrameSet)
      /\ \A i \in 1 .. Len(s.tools) : s.tools[i].block <= s.count /\ Announced(H, s.tools[i].block, s.tools[i].call)
  BY DEF ClaudeRun, ClaudeOk
<1>2. /\ p.kind \in {"text", "reasoning", "call", "args"}
      /\ p.kind \in {"call", "args"} => p.index \in Nat /\ p.of = p.index
      /\ p.kind \in {"text", "reasoning"} => p.of = -1
      /\ p.of \in Int
  BY DEF PartSet
<1> DEFINE Goes(t, slot) ==
             /\ t \in ClaudeSinks /\ slot \in Int
             /\ q.state = t
             /\ q.out = (r.out \o (IF t # s THEN <<Flow!Frame("block_start", slot, p.of)>> ELSE <<>>))
                          \o (IF p.kind # "call" THEN <<Flow!Frame("block_delta", slot, p.of)>> ELSE <<>>)
             /\ p.of # -1 => t # s \/ Announced(H, slot, p.of)
             /\ \A i \in 1 .. Len(t.tools) :
                   /\ t.tools[i].block <= t.count
                   /\ \/ Announced(H, t.tools[i].block, t.tools[i].call)
                      \/ t # s /\ slot = t.tools[i].block /\ p.of = t.tools[i].call
<1>3. ASSUME NEW t, NEW slot, Goes(t, slot) PROVE ClaudeRun(G, q)
  <2> DEFINE S == Flow!Frame("block_start", slot, p.of)
             P == Flow!Frame("block_delta", slot, p.of)
             a == t # s
             b == p.kind # "call"
  <2>1. /\ S \in FrameSet /\ S.type = "block_start" /\ S.index = slot /\ S.of = p.of
        /\ P \in FrameSet /\ P.type = "block_delta" /\ P.index = slot /\ P.of = p.of
    <3>1. "block_start" \in FrameTypes /\ "block_delta" \in FrameTypes
      BY DEF FrameTypes
    <3>2. slot \in Int /\ p.of \in Int
      BY <1>2, <1>3
    <3> QED BY <3>1, <3>2, FrameIs
  <2>2. a \in BOOLEAN /\ b \in BOOLEAN /\ a = (t # s)
    OBVIOUS
  <2>3. q.out = (r.out \o (IF a THEN <<S>> ELSE <<>>)) \o (IF b THEN <<P>> ELSE <<>>)
    BY <1>3
  <2> HIDE DEF S, P, a, b, q, s
  <2>4. ~Bears(S) /\ Begins(S) /\ (Bears(P) => p.of # -1)
    BY <2>1 DEF Bears, Begins
  <2>5. q.state = t
    BY <1>3
  <2>6. ClaudeAdds(H, r.out, t, S, P, a, b, q)
    <3> HIDE DEF Announced, Bears, Begins
    <3> QED BY <1>3, <2>1, <2>2, <2>3, <2>4, <2>5 DEF ClaudeAdds
  <2> HIDE DEF ClaudeRun, H
  <2>7. ClaudeAdds(G \o r.out, r.out, t, S, P, a, b, q)
    BY <2>6 DEF H
  <2> QED BY <2>7, ClaudeExtends, Zenon
<1>4. ASSUME p.kind \in {"text", "reasoning"} PROVE ClaudeRun(G, q)
  <2> DEFINE t == IF p.kind = "text" THEN Flow!OpenText(s) ELSE Flow!OpenReasoning(s)
             slot == IF p.kind = "text" THEN t.text ELSE t.reasoning
  <2>1. Grown(s, t)
    BY <1>1, OpenedText, OpenedReasoning
  <2>2. /\ q.state = t
        /\ q.out = (r.out \o (IF t # s THEN <<Flow!Frame("block_start", slot, p.of)>> ELSE <<>>))
                       \o (IF p.kind # "call" THEN <<Flow!Frame("block_delta", slot, p.of)>> ELSE <<>>)
    <3>1. CASE p.kind = "text"
      BY <3>1 DEF Flow!ClaudePart, Flow!Result
    <3>2. CASE p.kind = "reasoning"
      BY <3>2 DEF Flow!ClaudePart, Flow!Result
    <3> QED BY <1>4, <3>1, <3>2
  <2>3. t \in ClaudeSinks /\ t.tools = s.tools /\ t.count >= s.count
    BY <2>1 DEF Grown
  <2>4. slot \in Int
    BY <2>3, ClaudeSinksAre
  <2> HIDE DEF t, q, s
  <2>5. \A i \in 1 .. Len(t.tools) : t.tools[i].block <= t.count /\ Announced(H, t.tools[i].block, t.tools[i].call)
    <3>1. \A i \in 1 .. Len(t.tools) : t.tools[i].block \in Nat
      BY <2>3, ClaudeSinksAre
    <3>2. s.count \in Nat /\ t.count \in Nat
      BY <1>1, <2>3, ClaudeSinksAre
    <3> HIDE DEF Announced
    <3> QED BY <1>1, <2>3, <3>1, <3>2
  <2> HIDE DEF slot, Announced, H
  <2>6. p.of = -1
    BY <1>2, <1>4
  <2>7. Goes(t, slot)
    BY <2>2, <2>3, <2>4, <2>5, <2>6
  <2> HIDE DEF Goes
  <2> QED BY <1>3, <2>7
<1>5. ASSUME p.kind \in {"call", "args"} PROVE ClaudeRun(G, q)
  <2> DEFINE t == Flow!OpenTool(s, p.index)
             slot == Flow!BlockOf(t, p.index)
  <2>1. /\ q.state = t
        /\ q.out = (r.out \o (IF t # s THEN <<Flow!Frame("block_start", slot, p.of)>> ELSE <<>>))
                       \o (IF p.kind # "call" THEN <<Flow!Frame("block_delta", slot, p.of)>> ELSE <<>>)
    <3>1. CASE p.kind = "call"
      BY <3>1 DEF Flow!ClaudePart, Flow!Result
    <3>2. CASE p.kind = "args"
      BY <3>2 DEF Flow!ClaudePart, Flow!Result
    <3> QED BY <1>5, <3>1, <3>2
  <2>2. p.index \in Nat /\ p.of = p.index
    BY <1>2, <1>5
  <2>3. \/ t = s /\ Flow!BlockOf(s, p.index) # -1
        \/ \E b \in Nat :
              /\ t \in ClaudeSinks /\ t # s
              /\ t.tools = Append(s.tools, [call |-> p.index, block |-> b])
              /\ b <= t.count /\ s.count <= t.count
              /\ Flow!BlockOf(t, p.index) = b
    BY <1>1, <2>2, OpenedTool
  <2> HIDE DEF q, t
  <2>4. ASSUME t = s, Flow!BlockOf(s, p.index) # -1 PROVE ClaudeRun(G, q)
    <3>1. PICK i \in 1 .. Len(s.tools) : s.tools[i].call = p.index /\ s.tools[i].block = slot
      BY <1>1, <2>4, BlockIs
    <3>2. slot \in Int /\ Announced(H, slot, p.of)
      <4> HIDE DEF Announced, s, slot, H
      <4>1. s.tools[i].block \in Nat
        BY <1>1, ClaudeSinksAre
      <4> QED BY <1>1, <2>2, <3>1, <4>1
    <3> HIDE DEF s, slot, Announced, H
    <3>3. Goes(t, slot)
      BY <1>1, <2>1, <2>4, <3>2
    <3> HIDE DEF Goes
    <3> QED BY <1>3, <3>3
  <2>5. ASSUME NEW b \in Nat, t \in ClaudeSinks, t # s,
               t.tools = Append(s.tools, [call |-> p.index, block |-> b]),
               b <= t.count, s.count <= t.count, Flow!BlockOf(t, p.index) = b
        PROVE  ClaudeRun(G, q)
    <3> DEFINE pair == [call |-> p.index, block |-> b]
    <3>1. pair \in Pairs /\ pair.call = p.index /\ pair.block = b
      BY <2>2 DEF Pairs
    <3>2. slot = b
      BY <2>5
    <3> HIDE DEF pair, s, slot, Pairs, Announced, H
    <3>3. t.tools = Append(s.tools, pair)
      BY <2>5 DEF pair
    <3>4. \A i \in 1 .. Len(t.tools) : t.tools[i] = pair \/ \E k \in 1 .. Len(s.tools) : t.tools[i] = s.tools[k]
      <4>1. s.tools \in Seq(Pairs)
        BY <1>1, ClaudeSinksAre
      <4> QED BY <3>1, <3>3, <4>1
    <3>5. s.count \in Nat /\ t.count \in Nat /\ \A k \in 1 .. Len(s.tools) : s.tools[k].block \in Nat
      BY <1>1, <2>5, ClaudeSinksAre
    <3>6. \A i \in 1 .. Len(t.tools) :
            /\ t.tools[i].block <= t.count
            /\ \/ Announced(H, t.tools[i].block, t.tools[i].call)
               \/ t # s /\ slot = t.tools[i].block /\ p.of = t.tools[i].call
      BY <1>1, <2>2, <2>5, <3>1, <3>2, <3>4, <3>5
    <3>7. slot \in Int /\ (p.of # -1 => t # s \/ Announced(H, slot, p.of))
      BY <2>5, <3>2
    <3>8. Goes(t, slot)
      BY <2>1, <2>5, <3>6, <3>7, Zenon
    <3> HIDE DEF Goes
    <3> QED BY <1>3, <3>8
  <2> QED BY <2>3, <2>4, <2>5
<1> QED BY <1>2, <1>4, <1>5 DEF q

(* Sequences of frames that bear no arguments.                             *)
Quiet(E) == E \in Seq(FrameSet) /\ \A i \in 1 .. Len(E) : ~Bears(E[i])

Hushed == {f \in FrameSet : ~Bears(f)}

(* A sequence of them is quiet.                                            *)
LEMMA QuietIs ==
    /\ \A E : Quiet(E) <=> E \in Seq(Hushed)
    /\ <<>> \in Seq(Hushed)
    /\ \A x, y : x \in Seq(Hushed) /\ y \in Seq(Hushed) => x \o y \in Seq(Hushed)
    /\ \A f \in Hushed : <<f>> \in Seq(Hushed)
    /\ \A f, g \in Hushed : <<f, g>> \in Seq(Hushed)
<1>1. ASSUME NEW E, Quiet(E) PROVE E \in Seq(Hushed)
  <2>1. E \in Seq(FrameSet) /\ \A i \in 1 .. Len(E) : E[i] \in FrameSet /\ ~Bears(E[i])
    <3>1. E \in Seq(FrameSet) /\ \A i \in 1 .. Len(E) : ~Bears(E[i])
      BY <1>1 DEF Quiet
    <3> HIDE DEF FrameSet, Bears
    <3> QED BY <3>1
  <2>2. \A i \in 1 .. Len(E) : E[i] \in Hushed
    BY <2>1 DEF Hushed
  <2> HIDE DEF Hushed, FrameSet
  <2> QED BY <2>1, <2>2
<1>2. ASSUME NEW E, E \in Seq(Hushed) PROVE Quiet(E)
  <2>1. \A i \in 1 .. Len(E) : E[i] \in Hushed
    <3> HIDE DEF Hushed
    <3> QED BY <1>2
  <2>2. \A i \in 1 .. Len(E) : E[i] \in FrameSet /\ ~Bears(E[i])
    BY <2>1 DEF Hushed
  <2>3. E \in Seq(FrameSet)
    <3> HIDE DEF Hushed, FrameSet
    <3> QED BY <1>2, <2>2
  <2> QED BY <2>2, <2>3 DEF Quiet
<1> HIDE DEF Hushed
<1>3. <<>> \in Seq(Hushed) /\ \A f \in Hushed : <<f>> \in Seq(Hushed)
  OBVIOUS
<1>4. \A f, g \in Hushed : <<f, g>> \in Seq(Hushed)
  OBVIOUS
<1>5. ASSUME NEW x \in Seq(Hushed), NEW y \in Seq(Hushed) PROVE x \o y \in Seq(Hushed)
  OBVIOUS
<1> HIDE DEF Quiet
<1> QED BY <1>1, <1>2, <1>3, <1>4, <1>5

(* Which frames they are.                                                  *)
LEMMA HushedFrames ==
    ASSUME NEW t \in FrameTypes \ {"args", "delta", "block_delta"}, NEW i \in Int, NEW o \in Int
    PROVE  Flow!Frame(t, i, o) \in Hushed
<1>1. Flow!Frame(t, i, o) \in FrameSet /\ Flow!Frame(t, i, o).type = t
  BY FrameIs
<1> QED BY <1>1 DEF Hushed, Bears

(* The invariant stays with the same tools, no fewer blocks and hushed     *)
(* frames.                                                                 *)
LEMMA ClaudePlain ==
    ASSUME NEW G \in Seq(FrameSet), NEW r, ClaudeRun(G, r), NEW E \in Seq(Hushed), NEW q,
           Grown(r.state, q.state), q.out = r.out \o E
    PROVE  ClaudeRun(G, q)
<1> DEFINE H == G \o r.out
           s == r.state
           t == q.state
<1>1. /\ r.out \in Seq(FrameSet) /\ H \in Seq(FrameSet) /\ Reach(H) /\ s \in ClaudeSinks
      /\ \A i \in 1 .. Len(s.tools) : s.tools[i].block <= s.count /\ Announced(H, s.tools[i].block, s.tools[i].call)
  BY DEF ClaudeRun, ClaudeOk
<1>2. t \in ClaudeSinks /\ t.tools = s.tools /\ t.count >= s.count
  BY DEF Grown
<1>3. E \in Seq(FrameSet) /\ \A i \in 1 .. Len(E) : ~Bears(E[i])
  BY QuietIs DEF Quiet
<1> HIDE DEF Reach, Announced, Bears, FrameSet
<1>4. /\ H \o E \in Seq(FrameSet) /\ Reach(H \o E)
      /\ \A x, o : Announced(H, x, o) => Announced(H \o E, x, o)
  <2> HIDE DEF H
  <2> QED BY <1>1, <1>3, ReachPlain
<1>5. q.out \in Seq(FrameSet) /\ G \o q.out = H \o E
  <2> DEFINE o == r.out
  <2>1. G \o (o \o E) = (G \o o) \o E
    <3>1. o \in Seq(FrameSet)
      BY <1>1
    <3> HIDE DEF o
    <3> QED BY <1>3, <3>1, FramesJoin, Zenon
  <2>2. o \o E \in Seq(FrameSet)
    BY <1>1, <1>3, FramesFollow
  <2> QED BY <2>1, <2>2
<1>6. \A i \in 1 .. Len(t.tools) : t.tools[i].block <= t.count /\ Announced(H \o E, t.tools[i].block, t.tools[i].call)
  <2>1. s.count \in Nat /\ t.count \in Nat /\ \A i \in 1 .. Len(s.tools) : s.tools[i].block \in Nat
    BY <1>1, <1>2, ClaudeSinksAre
  <2> HIDE DEF s, t, H
  <2> QED BY <1>1, <1>2, <1>4, <2>1
<1> QED BY <1>2, <1>4, <1>5, <1>6 DEF ClaudeRun, ClaudeOk

(* The message start is quiet.                                             *)
LEMMA ClaudeStarts ==
    ASSUME NEW G, NEW s, ClaudeOk(s, G)
    PROVE  ClaudeRun(G, Flow!StartClaude(s))
<1> DEFINE r == Flow!Result(s, <<>>)
           q == Flow!StartClaude(s)
           E == IF s.started THEN <<>> ELSE <<Flow!Frame("message_start", -1, -1), Flow!Frame("ping", -1, -1)>>
<1>1. G \in Seq(FrameSet) /\ s \in ClaudeSinks
  BY DEF ClaudeOk
<1>2. r.state = s /\ r.out = <<>> /\ <<>> \in Seq(FrameSet) /\ G \o <<>> = G
  <2> HIDE DEF FrameSet
  <2> QED BY <1>1 DEF Flow!Result
<1>3. ClaudeRun(G, r)
  BY <1>2 DEF ClaudeRun
<1>4. E \in Seq(Hushed)
  <2>1. {"message_start", "ping"} \in SUBSET (FrameTypes \ {"args", "delta", "block_delta"})
    BY DEF FrameTypes
  <2>2. Flow!Frame("message_start", -1, -1) \in Hushed /\ Flow!Frame("ping", -1, -1) \in Hushed
    BY <2>1, HushedFrames
  <2> HIDE DEF Hushed
  <2> QED BY <2>2, QuietIs
<1>5. q.state = [s EXCEPT !.started = TRUE] /\ q.out = E
  BY DEF Flow!StartClaude, Flow!Result, Flow!NoIndex
<1>6. Grown(s, q.state)
  <2>1. /\ [s EXCEPT !.started = TRUE] \in ClaudeSinks
        /\ [s EXCEPT !.started = TRUE].tools = s.tools
        /\ [s EXCEPT !.started = TRUE].count = s.count /\ s.count \in Nat
    BY <1>1 DEF ClaudeSinks
  <2> QED BY <1>5, <2>1 DEF Grown
<1> HIDE DEF E, r, q
<1>7. r.out \o E = E
  <2> HIDE DEF Hushed
  <2> QED BY <1>2, <1>4
<1>8. ClaudeRun(G, q)
  BY <1>1, <1>2, <1>3, <1>4, <1>5, <1>6, <1>7, ClaudePlain
<1> QED BY <1>8 DEF q

(* Nothing that closes a block bears arguments.                            *)
LEMMA ClosedBlocksAre ==
    ASSUME NEW s \in ClaudeSinks, \A i \in 1 .. Len(s.tools) : s.tools[i].block <= s.count
    PROVE  Flow!ClosedBlocks(s) \in Seq(Hushed)
<1> DEFINE Stop(b) == Flow!Frame("block_stop", b, -1)
           thoughts == IF s.reasoning # -1 /\ s.reasoningOpen THEN <<Stop(s.reasoning)>> ELSE <<>>
           text == IF s.text # -1 /\ s.textOpen THEN <<Stop(s.text)>> ELSE <<>>
           S == {s.tools[i].block : i \in DOMAIN s.tools}
           blocks == Flow!Ascending(S)
           stops == [i \in DOMAIN blocks |-> Stop(blocks[i])]
<1>1. \A b \in Int : Stop(b) \in Hushed
  <2>1. "block_stop" \in FrameTypes \ {"args", "delta", "block_delta"}
    BY DEF FrameTypes
  <2> QED BY <2>1, HushedFrames
<1>2. thoughts \in Seq(Hushed) /\ text \in Seq(Hushed)
  <2>1. Stop(s.reasoning) \in Hushed /\ Stop(s.text) \in Hushed
    BY <1>1, ClaudeSinksAre
  <2> HIDE DEF Stop, Hushed
  <2> QED BY <2>1, QuietIs
<1>3. S \in SUBSET (0 .. s.count)
  <2>1. /\ DOMAIN s.tools = 1 .. Len(s.tools) /\ s.count \in Nat
        /\ \A i \in 1 .. Len(s.tools) : s.tools[i].block \in Nat
    BY ClaudeSinksAre
  <2>2. \A i \in DOMAIN s.tools : s.tools[i].block \in 0 .. s.count
    BY <2>1
  <2> QED BY <2>2
<1>4. blocks \in Seq(S)
  <2> HIDE DEF S
  <2>1. s.count \in Nat
    BY ClaudeSinksAre
  <2> QED BY <1>3, <2>1, AscendingIs DEF Lists
<1>5. stops \in Seq(Hushed)
  <2>1. DOMAIN blocks = 1 .. Len(blocks) /\ Len(blocks) \in Nat /\ \A i \in 1 .. Len(blocks) : blocks[i] \in S
    <3> HIDE DEF blocks, S
    <3> QED BY <1>4
  <2>2. \A i \in 1 .. Len(blocks) : blocks[i] \in Int
    <3> HIDE DEF blocks, S
    <3>1. \A x \in S : x \in Int
      BY <1>3
    <3> QED BY <2>1, <3>1
  <2> HIDE DEF blocks, Hushed
  <2>3. \A i \in 1 .. Len(blocks) : Stop(blocks[i]) \in Hushed
    BY <1>1, <2>2
  <2> HIDE DEF Stop
  <2> QED BY <2>1, <2>3
<1>6. Flow!ClosedBlocks(s) = (thoughts \o text) \o stops
  BY Zenon DEF Flow!ClosedBlocks, Flow!NoIndex
<1> HIDE DEF thoughts, text, stops, Hushed
<1>7. thoughts \o text \in Seq(Hushed)
  BY <1>2, QuietIs
<1>8. (thoughts \o text) \o stops \in Seq(Hushed)
  BY <1>5, <1>7, QuietIs
<1> QED BY <1>6, <1>8

(* The end of the message is quiet.                                        *)
LEMMA ClaudeEnds ==
    ASSUME NEW G \in Seq(FrameSet), NEW r, ClaudeRun(G, r)
    PROVE  ClaudeRun(G, Flow!EndClaude(r))
<1> DEFINE s == r.state
           q == Flow!EndClaude(r)
           t == [s EXCEPT !.reasoningOpen = FALSE, !.textOpen = FALSE, !.finished = TRUE]
           last == <<Flow!Frame("message_delta", -1, -1), Flow!Frame("message_stop", -1, -1)>>
           closed == Flow!ClosedBlocks(s)
           E == closed \o last
<1>1. s \in ClaudeSinks /\ r.out \in Seq(FrameSet) /\ \A i \in 1 .. Len(s.tools) : s.tools[i].block <= s.count
  BY DEF ClaudeRun, ClaudeOk
<1>2. closed \in Seq(Hushed)
  BY <1>1, ClosedBlocksAre
<1>3. last \in Seq(Hushed)
  <2>1. {"message_delta", "message_stop"} \in SUBSET (FrameTypes \ {"args", "delta", "block_delta"})
    BY DEF FrameTypes
  <2>2. Flow!Frame("message_delta", -1, -1) \in Hushed /\ Flow!Frame("message_stop", -1, -1) \in Hushed
    BY <2>1, HushedFrames
  <2> HIDE DEF Hushed
  <2> QED BY <2>2, QuietIs
<1>4. q.state = t /\ q.out = (r.out \o closed) \o last
  BY DEF Flow!EndClaude, Flow!Result, Flow!NoIndex
<1>5. Grown(s, t)
  <2>1. t \in ClaudeSinks /\ t.tools = s.tools /\ t.count = s.count /\ s.count \in Nat
    BY <1>1 DEF ClaudeSinks
  <2> QED BY <2>1 DEF Grown
<1> HIDE DEF q, t, last, closed, Hushed
<1>6. E \in Seq(Hushed)
  BY <1>2, <1>3, QuietIs
<1>7. (r.out \o closed) \o last = r.out \o E
  <2> DEFINE o == r.out
  <2>1. o \in Seq(FrameSet) /\ closed \in Seq(FrameSet) /\ last \in Seq(FrameSet)
    BY <1>1, <1>2, <1>3, QuietIs DEF Quiet
  <2>2. (o \o closed) \o last = o \o (closed \o last)
    <3> HIDE DEF o
    <3> QED BY <2>1, FramesJoin, Zenon
  <2> QED BY <2>2
<1> HIDE DEF E
<1>8. ClaudeRun(G, q)
  BY <1>4, <1>5, <1>6, <1>7, ClaudePlain
<1> QED BY <1>8 DEF q

(* The parts of a chunk, one after the other.                              *)
SaysInTurn(said, G, s, parts) ==
    /\ said[0] = Flow!StartClaude(s)
    /\ \A i \in 1 .. Len(parts) : said[i] = Flow!ClaudePart(said[i - 1], parts[i])
    /\ \A i \in 0 .. Len(parts) : ClaudeRun(G, said[i])

(* They all keep the invariant of the Claude client.                       *)
LEMMA ClaudeSaysIs ==
    ASSUME NEW G, NEW s, ClaudeOk(s, G), NEW parts \in Seq(PartSet)
    PROVE  \E said : SaysInTurn(said, G, s, parts) /\ Flow!ClaudeSays(s, parts) = said[Len(parts)]
<1> DEFINE n == Len(parts)
           first == Flow!StartClaude(s)
           V == {r \in [state : ClaudeSinks, out : Seq(FrameSet)] : ClaudeRun(G, r)}
<1>1. n \in Nat /\ G \in Seq(FrameSet) /\ \A i \in 1 .. n : parts[i] \in PartSet
  <2> HIDE DEF PartSet
  <2> QED BY DEF ClaudeOk
<1>a. ASSUME NEW st, NEW out, ClaudeRun(G, Flow!Result(st, out)) PROVE Flow!Result(st, out) \in V
  <2>1. Flow!Result(st, out).state \in ClaudeSinks /\ Flow!Result(st, out).out \in Seq(FrameSet)
    BY <1>a DEF ClaudeRun, ClaudeOk
  <2>2. st \in ClaudeSinks /\ out \in Seq(FrameSet)
    <3> HIDE DEF ClaudeSinks, FrameSet
    <3> QED BY <2>1 DEF Flow!Result
  <2>3. Flow!Result(st, out) \in [state : ClaudeSinks, out : Seq(FrameSet)]
    <3> HIDE DEF ClaudeSinks, FrameSet
    <3> QED BY <2>2 DEF Flow!Result
  <2> HIDE DEF ClaudeRun
  <2> QED BY <1>a, <2>3
<1>2. first \in V
  <2>1. ClaudeRun(G, Flow!StartClaude(s))
    BY ClaudeStarts
  <2>2. \E st, out : Flow!StartClaude(s) = Flow!Result(st, out)
    BY Zenon DEF Flow!StartClaude
  <2> HIDE DEF V, ClaudeRun
  <2> QED BY <1>a, <2>1, <2>2
<1>3. ASSUME NEW r \in V, NEW i \in 1 .. n PROVE Flow!ClaudePart(r, parts[i]) \in V
  <2>1. ClaudeRun(G, Flow!ClaudePart(r, parts[i]))
    <3> HIDE DEF ClaudeRun
    <3> QED BY <1>1, ClaudePartKeeps
  <2>2. \E st, out : Flow!ClaudePart(r, parts[i]) = Flow!Result(st, out)
    BY Zenon DEF Flow!ClaudePart
  <2> HIDE DEF V, ClaudeRun
  <2> QED BY <1>a, <2>1, <2>2
<1> DEFINE Step(r, i) == Flow!ClaudePart(r, parts[i])
           Is(f) == f = [i \in 0 .. Len(parts) |-> IF i = 0 THEN Flow!StartClaude(s) ELSE Flow!ClaudePart(f[i - 1], parts[i])]
           said == CHOOSE f : Is(f)
           turn == [x \in (1 .. n) \X V |-> Step(x[2], x[1])]
<1>b. \A r \in V, i \in 1 .. n : Step(r, i) \in V
  <2> HIDE DEF n, V
  <2> QED BY <1>3
<1>4. turn \in Turns(V, n) /\ \A i \in 1 .. n, r \in V : turn[<<i, r>>] = Step(r, i)
  <2> HIDE DEF n, V, first, Step
  <2>1. \A x \in (1 .. n) \X V : x[2] \in V /\ x[1] \in 1 .. n
    OBVIOUS
  <2>2. \A x \in (1 .. n) \X V : Step(x[2], x[1]) \in V
    BY <1>b, <2>1
  <2> QED BY <2>2 DEF Turns
<1> HIDE DEF n, V, first, turn, Step
<1>5. Loops(V, n, first, turn)
  BY <1>1, <1>2, <1>4, LoopRuns, Zenon
<1>6. PICK f \in [0 .. n -> V] :
        f[0] = first /\ \A i \in 1 .. n : f[i] = turn[<<i, f[i - 1]>>]
  BY <1>5, Zenon DEF Loops
<1>7. ASSUME NEW i \in 0 .. n
      PROVE  f[i] = IF i = 0 THEN first ELSE Step(f[i - 1], i)
  <2>1. CASE i = 0
    BY <1>6, <2>1
  <2>2. CASE i # 0
    <3>1. i \in 1 .. n /\ i - 1 \in 0 .. n
      BY <1>1, <2>2
    <3>2. f[i - 1] \in V
      BY <1>6, <3>1
    <3> QED BY <1>4, <1>6, <2>2, <3>1, <3>2
  <2> QED BY <2>1, <2>2
<1>8. DOMAIN f = 0 .. n /\ f = [i \in DOMAIN f |-> f[i]]
  BY <1>6
<1>9. f = [i \in 0 .. n |-> IF i = 0 THEN first ELSE Step(f[i - 1], i)]
  BY <1>7, <1>8
<1>10. Is(f)
  BY <1>9, Zenon DEF Step, n, first
<1>11. Is(said)
  BY <1>10
<1>12. Flow!ClaudeSays(s, parts) = said[n]
  BY Zenon DEF Flow!ClaudeSays, said, n, first, Step
<1> HIDE DEF said
<1>13. said = [i \in 0 .. n |-> IF i = 0 THEN first ELSE Step(said[i - 1], i)]
  BY <1>11, Zenon DEF Step, n, first
<1> HIDE DEF Is
<1>14. said[0] = first /\ \A i \in 1 .. n : said[i] = Step(said[i - 1], i)
  <2>1. \A i \in 0 .. n : said[i] = IF i = 0 THEN first ELSE Step(said[i - 1], i)
    BY <1>13
  <2>2. 0 \in 0 .. n /\ \A i \in 1 .. n : i \in 0 .. n /\ i # 0
    BY <1>1
  <2> QED BY <2>1, <2>2
<1> DEFINE Q == {i \in 0 .. n : said[i] \in V}
<1>15. 0 \in Q
  BY <1>1, <1>2, <1>14
<1>16. ASSUME NEW i \in 1 .. n, i - 1 \in Q PROVE i \in Q
  BY <1>1, <1>b, <1>14, <1>16
<1>17. \A i \in 0 .. n : said[i] \in V
  <2> HIDE DEF Q
  <2>1. \A i \in 0 .. n : i \in Q
    BY <1>1, <1>15, <1>16, LoopKeeps
  <2> QED BY <2>1 DEF Q
<1>18. \A i \in 0 .. n : ClaudeRun(G, said[i])
  BY <1>17 DEF V
<1>19. SaysInTurn(said, G, s, parts)
  <2> HIDE DEF ClaudeRun
  <2> QED BY <1>14, <1>18 DEF SaysInTurn, Step, n, first
<1> QED BY <1>12, <1>19 DEF n

(* So does the last.                                                       *)
LEMMA ClaudeTells ==
    ASSUME NEW G, NEW s, ClaudeOk(s, G), NEW parts \in Seq(PartSet)
    PROVE  ClaudeRun(G, Flow!ClaudeSays(s, parts))
<1>1. PICK said : SaysInTurn(said, G, s, parts) /\ Flow!ClaudeSays(s, parts) = said[Len(parts)]
  BY ClaudeSaysIs
<1>2. Len(parts) \in 0 .. Len(parts)
  <2> HIDE DEF PartSet
  <2> QED OBVIOUS
<1> QED BY <1>1, <1>2 DEF SaysInTurn

(* A chunk keeps it, and so does the end.                                  *)
LEMMA ClaudeFramesAre ==
    ASSUME NEW G, NEW s, ClaudeOk(s, G), NEW c, c.parts \in Seq(PartSet), NEW end
    PROVE  ClaudeRun(G, Flow!ClaudeFrames(s, c, end))
<1> DEFINE r == Flow!ClaudeSays(s, c.parts)
           done == IF c.finish # "none" THEN Flow!EndClaude(r) ELSE r
<1>1. ClaudeRun(G, r) /\ G \in Seq(FrameSet)
  BY ClaudeTells DEF ClaudeOk
<1> HIDE DEF r
<1>2. ClaudeRun(G, done)
  BY <1>1, ClaudeEnds
<1> HIDE DEF done
<1>3. ClaudeRun(G, Flow!EndClaude(done))
  BY <1>1, <1>2, ClaudeEnds
<1>4. Flow!ClaudeFrames(s, c, end) \in {done, Flow!EndClaude(done)}
  BY Zenon DEF Flow!ClaudeFrames, Flow!EndedIf, done, r
<1> QED BY <1>2, <1>3, <1>4

-----------------------------------------------------------------------------
(* The sink of a Responses client: the item of a tool was announced.       *)

(* The output items of a Responses client and its translator.              *)
Items == {x \in [kind : {"tool", "text", "reasoning"}, call : Int] : x.kind = "tool" => x.call \in Nat}
ResponsesSinks == [started : BOOLEAN, seq : Nat, items : Seq(Items), finish : Ends]

(* The item of a tool was announced under its index, in G or in E.         *)
ItemsOf(t, G, E) ==
    \A i \in 1 .. Len(t.items) :
        t.items[i].kind = "tool" => \/ Announced(G, i - 1, t.items[i].call)
                                    \/ Announced(E, i - 1, t.items[i].call)

(* The invariant of the Responses client.                                  *)
ResponsesOk(s, G) ==
    /\ s \in ResponsesSinks /\ G \in Seq(FrameSet) /\ Reach(G) /\ ItemsOf(s, G, G)
    /\ \E n \in Nat : \A i \in 1 .. Len(s.items) : Flow!Rank(s.items[i]) <= n

(* A result that keeps it.                                                 *)
ResponsesRun(G, r) == r.out \in Seq(FrameSet) /\ ResponsesOk(r.state, G \o r.out)

(* The fields of the Responses client's translator.                        *)
LEMMA ResponsesSinksAre ==
    ASSUME NEW s \in ResponsesSinks
    PROVE  /\ s.seq \in Nat /\ s.items \in Seq(Items) /\ s.finish \in Ends /\ s.started \in BOOLEAN
           /\ \A i \in 1 .. Len(s.items) : s.items[i] \in Items
<1>1. s.seq \in Nat /\ s.items \in Seq(Items) /\ s.finish \in Ends /\ s.started \in BOOLEAN
  BY DEF ResponsesSinks
<1> HIDE DEF Items
<1> QED BY <1>1

(* Items are found by their kind and their call.                           *)
LEMMA ItemsAre ==
    ASSUME NEW x \in Items
    PROVE  /\ x.kind \in {"tool", "text", "reasoning"} /\ (x.kind = "tool" => x.call \in Nat)
           /\ Flow!Rank(x) \in Nat
<1>1. x.kind \in {"tool", "text", "reasoning"} /\ (x.kind = "tool" => x.call \in Nat)
  BY DEF Items
<1>2. CASE x.kind = "reasoning"
  BY <1>1, <1>2 DEF Flow!Rank
<1>3. CASE x.kind = "text"
  BY <1>1, <1>3 DEF Flow!Rank
<1>4. CASE x.kind = "tool"
  BY <1>1, <1>4 DEF Flow!Rank
<1> QED BY <1>1, <1>2, <1>3, <1>4

(* ItemOf finds the item, or there is none.                                *)
LEMMA ItemIs ==
    ASSUME NEW s \in ResponsesSinks, NEW item
    PROVE  \/ Flow!ItemOf(s, item) = -1
           \/ \E i \in 1 .. Len(s.items) : s.items[i] = item /\ Flow!ItemOf(s, item) = i - 1
<1> DEFINE places == {i \in DOMAIN s.items : s.items[i] = item}
<1>1. DOMAIN s.items = 1 .. Len(s.items)
  BY ResponsesSinksAre
<1>2. CASE places = {}
  BY <1>2 DEF Flow!ItemOf, Flow!NoIndex
<1>3. CASE places # {}
  <2> DEFINE i == CHOOSE k \in places : TRUE
  <2>1. i \in places
    BY <1>3
  <2>2. Flow!ItemOf(s, item) = i - 1
    BY <1>3, Zenon DEF Flow!ItemOf
  <2> HIDE DEF i
  <2> QED BY <1>1, <2>1, <2>2
<1> QED BY <1>2, <1>3

(* Frames that differ in their numbers.                                    *)
Like(E, F) ==
    /\ E \in Seq(FrameSet) /\ F \in Seq(FrameSet) /\ Len(E) = Len(F)
    /\ \A i \in 1 .. Len(E) : E[i].type = F[i].type /\ E[i].index = F[i].index /\ E[i].of = F[i].of

(* Numbering a frame changes nothing but the number.                       *)
LEMMA LikeFollows ==
    ASSUME NEW G, NEW E, NEW F, Like(E, F), MayFollow(G, E)
    PROVE  MayFollow(G, F) /\ \A x, o : Announced(E, x, o) => Announced(F, x, o)
<1>1. /\ Len(E) = Len(F) /\ F \in Seq(FrameSet) /\ Len(E) \in Nat
      /\ \A i \in 1 .. Len(E) : /\ E[i].type = F[i].type /\ E[i].index = F[i].index /\ E[i].of = F[i].of
                                /\ (Begins(E[i]) <=> Begins(F[i])) /\ (Bears(E[i]) <=> Bears(F[i]))
  <2>1. /\ E \in Seq(FrameSet) /\ F \in Seq(FrameSet) /\ Len(E) = Len(F)
        /\ \A i \in 1 .. Len(E) : E[i].type = F[i].type /\ E[i].index = F[i].index /\ E[i].of = F[i].of
    BY DEF Like
  <2>2. Len(E) \in Nat
    <3> HIDE DEF FrameSet
    <3> QED BY <2>1
  <2> HIDE DEF FrameSet
  <2> QED BY <2>1, <2>2 DEF Begins, Bears
<1> HIDE DEF FrameSet, Begins, Bears
<1>2. ASSUME NEW i \in 1 .. Len(F), Bears(F[i])
      PROVE  \/ Announced(G, F[i].index, F[i].of)
             \/ \E j \in 1 .. i - 1 : Begins(F[j]) /\ F[j].index = F[i].index /\ F[j].of = F[i].of
  <2>1. Bears(E[i]) /\ E[i].index = F[i].index /\ E[i].of = F[i].of
    BY <1>1, <1>2
  <2>2. CASE Announced(G, E[i].index, E[i].of)
    BY <2>1, <2>2
  <2>3. CASE \E j \in 1 .. i - 1 : Begins(E[j]) /\ E[j].index = E[i].index /\ E[j].of = E[i].of
    <3>1. PICK j \in 1 .. i - 1 : Begins(E[j]) /\ E[j].index = E[i].index /\ E[j].of = E[i].of
      BY <2>3
    <3>2. j \in 1 .. Len(E)
      BY <1>1
    <3> QED BY <1>1, <2>1, <3>1, <3>2
  <2> QED BY <1>1, <2>1, <2>2, <2>3 DEF MayFollow
<1>3. ASSUME NEW x, NEW o, Announced(E, x, o) PROVE Announced(F, x, o)
  <2>1. PICK j \in 1 .. Len(E) : Begins(E[j]) /\ E[j].index = x /\ E[j].of = o
    BY <1>3 DEF Announced
  <2> QED BY <1>1, <2>1 DEF Announced
<1> QED BY <1>1, <1>2, <1>3 DEF MayFollow

(* The numbers of frames are all that numbering them changes.              *)
LEMMA NumberedIs ==
    ASSUME NEW s \in ResponsesSinks, NEW E \in Seq(FrameSet)
    PROVE  /\ Like(E, Flow!Numbered(s, E).out)
           /\ Flow!Numbered(s, E).state \in ResponsesSinks /\ Flow!Numbered(s, E).state.items = s.items
<1> DEFINE n == Len(E)
           z == s.seq
           F == [i \in DOMAIN E |-> [E[i] EXCEPT !.seq = z + i]]
           k == z + n
           t == [s EXCEPT !.seq = k]
<1>1. n \in Nat /\ DOMAIN E = 1 .. n /\ z \in Nat /\ k \in Nat /\ \A i \in 1 .. n : E[i] \in FrameSet
  <2>1. z \in Nat
    BY ResponsesSinksAre
  <2> HIDE DEF FrameSet, z
  <2> QED BY <2>1
<1>2. Flow!Numbered(s, E).out = F /\ Flow!Numbered(s, E).state = t
  BY DEF Flow!Numbered, Flow!Result
<1>3. \A i \in 1 .. n : /\ F[i] \in FrameSet
                        /\ E[i].type = F[i].type /\ E[i].index = F[i].index /\ E[i].of = F[i].of
  <2> SUFFICES ASSUME NEW i \in 1 .. n
               PROVE  /\ F[i] \in FrameSet
                      /\ E[i].type = F[i].type /\ E[i].index = F[i].index /\ E[i].of = F[i].of
    OBVIOUS
  <2> DEFINE e == E[i]
             m == z + i
  <2>1. e \in FrameSet /\ m \in Nat /\ F[i] = [e EXCEPT !.seq = m]
    BY <1>1
  <2> HIDE DEF e, m, F
  <2>2. [e EXCEPT !.seq = m] \in FrameSet
    BY <2>1 DEF FrameSet
  <2>3. [e EXCEPT !.seq = m].type = e.type /\ [e EXCEPT !.seq = m].index = e.index /\ [e EXCEPT !.seq = m].of = e.of
    BY <2>1 DEF FrameSet
  <2> QED BY <2>1, <2>2, <2>3 DEF e
<1>4. DOMAIN F = 1 .. n /\ F = [i \in 1 .. n |-> F[i]]
  BY <1>1
<1>5. t \in ResponsesSinks /\ t.items = s.items
  <2> HIDE DEF k
  <2> QED BY <1>1 DEF ResponsesSinks
<1> HIDE DEF F, t, k, z
<1>6. F \in Seq(FrameSet) /\ Len(F) = n
  <2> HIDE DEF FrameSet, n
  <2> QED BY <1>1, <1>3, <1>4
<1> QED BY <1>2, <1>3, <1>5, <1>6 DEF Like

(* What is said next, numbered from where the sink is.                     *)
LEMMA ResponsesSpeaks ==
    ASSUME NEW G \in Seq(FrameSet), NEW r, ResponsesRun(G, r), NEW t \in ResponsesSinks, NEW E,
           MayFollow(G \o r.out, E), ItemsOf(t, G \o r.out, E),
           \E n \in Nat : \A i \in 1 .. Len(t.items) : Flow!Rank(t.items[i]) <= n
    PROVE  ResponsesRun(G, Flow!Then(r, Flow!Numbered(t, E)))
<1> DEFINE H == G \o r.out
           F == Flow!Numbered(t, E).out
           u == Flow!Numbered(t, E).state
           q == Flow!Then(r, Flow!Numbered(t, E))
           out == r.out
<1>1. out \in Seq(FrameSet) /\ H \in Seq(FrameSet) /\ Reach(H)
  BY DEF ResponsesRun, ResponsesOk
<1>2. E \in Seq(FrameSet)
  BY DEF MayFollow
<1>3. Like(E, F) /\ u \in ResponsesSinks /\ u.items = t.items /\ F \in Seq(FrameSet)
  BY <1>2, NumberedIs DEF Like
<1> HIDE DEF F, u
<1>4. MayFollow(H, F) /\ \A x, o : Announced(E, x, o) => Announced(F, x, o)
  BY <1>3, LikeFollows
<1> HIDE DEF Reach, Announced, FrameSet
<1>5. /\ H \o F \in Seq(FrameSet) /\ Reach(H \o F)
      /\ \A x, o : Announced(H, x, o) \/ Announced(F, x, o) => Announced(H \o F, x, o)
  <2> HIDE DEF H
  <2> QED BY <1>1, <1>4, ReachFollows
<1>6. q.state = u /\ q.out = out \o F
  BY DEF Flow!Then, Flow!Result, u, F
<1>7. out \o F \in Seq(FrameSet) /\ G \o (out \o F) = H \o F
  <2>1. out \o F \in Seq(FrameSet)
    BY <1>1, <1>3, FramesFollow
  <2>2. G \o (out \o F) = (G \o out) \o F
    <3> HIDE DEF out
    <3> QED BY <1>1, <1>3, FramesJoin, Zenon
  <2> QED BY <2>1, <2>2
<1>8. ItemsOf(u, H \o F, H \o F)
  <2> HIDE DEF H
  <2>1. \A i \in 1 .. Len(t.items) :
          t.items[i].kind = "tool" => Announced(H, i - 1, t.items[i].call) \/ Announced(E, i - 1, t.items[i].call)
    BY DEF ItemsOf, H
  <2> QED BY <1>3, <1>4, <1>5, <2>1 DEF ItemsOf
<1> HIDE DEF q, H, out, ItemsOf
<1>9. ResponsesRun(G, q)
  BY <1>3, <1>5, <1>6, <1>7, <1>8 DEF ResponsesRun, ResponsesOk
<1> QED BY <1>9 DEF q

(* Quiet frames keep the invariant.                                        *)
LEMMA QuietFollows ==
    ASSUME NEW G, NEW E \in Seq(Hushed)
    PROVE  MayFollow(G, E)
<1>1. E \in Seq(FrameSet) /\ \A i \in 1 .. Len(E) : ~Bears(E[i])
  BY QuietIs DEF Quiet
<1> QED BY <1>1 DEF MayFollow

(* The items' ranks are bounded.                                           *)
Ranked(s, k) == \A i \in 1 .. Len(s.items) : Flow!Rank(s.items[i]) <= k

(* What a new item changes in the translator.                              *)
Added(s, item, t) ==
    /\ t \in ResponsesSinks /\ Len(s.items) \in Nat
    /\ \A i \in 1 .. Len(t.items) :
          \/ i \in 1 .. Len(s.items) /\ t.items[i] = s.items[i]
          \/ i = Len(s.items) + 1 /\ t.items[i] = item
    /\ \E m \in Nat : Ranked(t, m)

(* An item that is added is announced under its index.                     *)
LEMMA ItemAdded ==
    ASSUME NEW s \in ResponsesSinks, NEW item \in Items, NEW k \in Nat, Ranked(s, k)
    PROVE  Added(s, item, [s EXCEPT !.items = Append(s.items, item)])
<1> DEFINE old == s.items
           new == Append(old, item)
           rank == Flow!Rank(item)
           m == k + rank
           t == [s EXCEPT !.items = Append(old, item)]
<1>1. old \in Seq(Items) /\ rank \in Nat /\ m \in Nat /\ k <= m /\ rank <= m
  <2>1. rank \in Nat
    BY ItemsAre
  <2> HIDE DEF rank
  <2> QED BY <2>1, ResponsesSinksAre
<1>2. \A i \in 1 .. Len(old) : Flow!Rank(old[i]) <= k /\ Flow!Rank(old[i]) \in Nat
  BY ResponsesSinksAre, ItemsAre DEF Ranked
<1> HIDE DEF old, Items
<1>3. /\ new \in Seq(Items) /\ Len(old) \in Nat /\ Len(new) = Len(old) + 1
      /\ \A i \in 1 .. Len(new) : \/ i \in 1 .. Len(old) /\ new[i] = old[i]
                                  \/ i = Len(old) + 1 /\ new[i] = item
  BY <1>1
<1>4. t = [s EXCEPT !.items = new]
  OBVIOUS
<1> HIDE DEF new, rank, m, t
<1>5. t \in ResponsesSinks /\ t.items = new
  BY <1>3, <1>4 DEF ResponsesSinks
<1>6. \A i \in 1 .. Len(new) : Flow!Rank(new[i]) <= m
  <2>1. ASSUME NEW i \in 1 .. Len(new) PROVE Flow!Rank(new[i]) <= m
    <3>1. CASE i \in 1 .. Len(old) /\ new[i] = old[i]
      BY <1>1, <1>2, <3>1
    <3>2. CASE new[i] = item
      BY <1>1, <3>2 DEF rank
    <3> QED BY <1>3, <3>1, <3>2
  <2> QED BY <2>1
<1>7. Added(s, item, t)
  BY <1>1, <1>3, <1>5, <1>6 DEF old, Added, Ranked
<1> QED BY <1>7 DEF t, old

(* One part of a delta keeps the invariant of the Responses client.        *)
LEMMA ResponsesPartKeeps ==
    ASSUME NEW G \in Seq(FrameSet), NEW r, ResponsesRun(G, r), NEW p \in PartSet
    PROVE  ResponsesRun(G, Flow!ResponsesPart(r, p))
<1> DEFINE s == r.state
           H == G \o r.out
           item == Flow!Item(IF p.kind \in {"call", "args"} THEN "tool" ELSE p.kind, p.index)
           known == Flow!ItemOf(s, item)
           index == IF known = -1 THEN Len(s.items) ELSE known
           S == Flow!Frame("added", index, p.of)
           T == Flow!Frame("part_added", index, p.of)
           P == Flow!Frame("delta", index, p.of)
           added == IF known # -1 THEN <<>> ELSE IF item.kind = "tool" THEN <<S>> ELSE <<S, T>>
           delta == IF p.kind = "call" THEN <<>> ELSE <<P>>
           E == added \o delta
           t == IF known # -1 THEN s ELSE [s EXCEPT !.items = Append(s.items, item)]
           q == Flow!ResponsesPart(r, p)
<1>1. s \in ResponsesSinks /\ H \in Seq(FrameSet) /\ Reach(H) /\ ItemsOf(s, H, H)
  BY DEF ResponsesRun, ResponsesOk
<1>2. PICK k \in Nat : \A i \in 1 .. Len(s.items) : Flow!Rank(s.items[i]) <= k
  BY DEF ResponsesRun, ResponsesOk
<1>3. /\ p.kind \in {"text", "reasoning", "call", "args"}
      /\ p.kind \in {"call", "args"} => p.index \in Nat /\ p.of = p.index
      /\ p.kind \in {"text", "reasoning"} => p.of = -1
      /\ p.of \in Int /\ p.index \in Int
  BY DEF PartSet
<1>4. /\ item \in Items /\ item.call = p.index
      /\ item.kind = "tool" <=> p.kind \in {"call", "args"}
  BY <1>3 DEF Flow!Item, Items
<1>5. q = Flow!Then(r, Flow!Numbered(t, E))
  BY Zenon DEF Flow!ResponsesPart, Flow!NoIndex
<1> HIDE DEF item
<1>6. \/ known = -1
      \/ \E i \in 1 .. Len(s.items) : s.items[i] = item /\ known = i - 1
  BY <1>1, ItemIs
<1> HIDE DEF known
<1>7. Len(s.items) \in Nat /\ index \in Int
  <2>1. s.items \in Seq(Items)
    BY <1>1, ResponsesSinksAre
  <2>2. Len(s.items) \in Nat
    <3> HIDE DEF Items, s
    <3> QED BY <2>1
  <2> QED BY <1>6, <2>2
<1> HIDE DEF index
<1>8. /\ S \in FrameSet /\ S.type = "added" /\ S.index = index /\ S.of = p.of
      /\ T \in FrameSet /\ T.type = "part_added" /\ T.index = index /\ T.of = p.of
      /\ P \in FrameSet /\ P.type = "delta" /\ P.index = index /\ P.of = p.of
  <2>1. "added" \in FrameTypes /\ "part_added" \in FrameTypes /\ "delta" \in FrameTypes
    BY DEF FrameTypes
  <2> QED BY <1>3, <1>7, <2>1, FrameIs
<1> HIDE DEF S, T, P
<1>9. ~Bears(S) /\ ~Bears(T) /\ Begins(S) /\ (Bears(P) => p.of # -1)
  BY <1>8 DEF Bears, Begins
<1>10. MayFollow(H, E) /\ (known = -1 /\ item.kind = "tool" => Announced(E, Len(s.items), item.call))
  <2>1. CASE item.kind = "tool"
    <3> DEFINE a == known = -1
               b == p.kind # "call"
    <3>1. a \in BOOLEAN /\ b \in BOOLEAN /\ E = (IF a THEN <<S>> ELSE <<>>) \o (IF b THEN <<P>> ELSE <<>>)
      BY <2>1
    <3>2. p.of = item.call
      BY <1>3, <1>4, <2>1
    <3>3. ~a => Announced(H, index, p.of)
      <4>1. ASSUME ~a PROVE Announced(H, index, p.of)
        <5>1. PICK i \in 1 .. Len(s.items) : s.items[i] = item /\ known = i - 1
          BY <1>6, <4>1
        <5>2. index = i - 1
          BY <4>1, <5>1 DEF index
        <5>3. Announced(H, i - 1, s.items[i].call)
          <6> HIDE DEF Announced
          <6> QED BY <1>1, <2>1, <5>1 DEF ItemsOf
        <5> HIDE DEF Announced, H, s
        <5> QED BY <3>2, <5>1, <5>2, <5>3
      <4> HIDE DEF Announced, a
      <4> QED BY <4>1
    <3>4. a => index = Len(s.items)
      BY DEF index
    <3> HIDE DEF a, b, E, H, Announced, Begins, Bears, MayFollow
    <3>5. Bears(P) => \/ Announced(H, P.index, P.of)
                      \/ a /\ Begins(S) /\ S.index = P.index /\ S.of = P.of
      BY <1>8, <1>9, <3>1, <3>3
    <3>6. MayFollow(H, E) /\ (a /\ Begins(S) => Announced(E, S.index, S.of))
      BY <1>8, <1>9, <3>1, <3>5, PartFollows, Zenon
    <3>7. a => Announced(E, Len(s.items), item.call)
      <4>1. ASSUME a PROVE Announced(E, Len(s.items), item.call)
        <5>1. Announced(E, S.index, S.of)
          BY <1>9, <3>6, <4>1
        <5>2. S.index = Len(s.items) /\ S.of = item.call
          BY <1>8, <3>2, <3>4, <4>1
        <5> QED BY <5>1, <5>2
      <4> QED BY <4>1
    <3> QED BY <3>6, <3>7 DEF a
  <2>2. CASE item.kind # "tool"
    <3>1. S \in Hushed /\ T \in Hushed /\ P \in Hushed
      <4>1. p.of = -1
        BY <1>3, <1>4, <2>2
      <4> QED BY <1>8, <1>9, <4>1 DEF Hushed
    <3> HIDE DEF Hushed
    <3>2. added \in Seq(Hushed) /\ delta \in Seq(Hushed)
      BY <2>2, <3>1, QuietIs
    <3> HIDE DEF added, delta
    <3>3. E \in Seq(Hushed)
      BY <3>2, QuietIs
    <3> QED BY <2>2, <3>3, QuietFollows
  <2> QED BY <2>1, <2>2
<1> HIDE DEF E, q
<1>11. /\ t \in ResponsesSinks /\ ItemsOf(t, H, E)
       /\ \E n \in Nat : \A i \in 1 .. Len(t.items) : Flow!Rank(t.items[i]) <= n
  <2>1. CASE known # -1
    <3>1. t = s
      BY <2>1
    <3>2. ItemsOf(s, H, E)
      <4> HIDE DEF Announced
      <4> QED BY <1>1 DEF ItemsOf
    <3> HIDE DEF t, s, H, ItemsOf
    <3> QED BY <1>1, <1>2, <3>1, <3>2
  <2>2. CASE known = -1
    <3>1. t = [s EXCEPT !.items = Append(s.items, item)]
      BY <2>2
    <3> HIDE DEF t, H, s
    <3>2. Added(s, item, t)
      <4>1. Ranked(s, k)
        BY <1>2 DEF Ranked
      <4> QED BY <1>1, <1>4, <3>1, <4>1, ItemAdded
    <3>3. ASSUME NEW i \in 1 .. Len(t.items), t.items[i].kind = "tool"
          PROVE  Announced(H, i - 1, t.items[i].call) \/ Announced(E, i - 1, t.items[i].call)
      <4>1. CASE i \in 1 .. Len(s.items) /\ t.items[i] = s.items[i]
        <5> HIDE DEF Announced
        <5> QED BY <1>1, <3>3, <4>1 DEF ItemsOf
      <4>2. CASE i = Len(s.items) + 1 /\ t.items[i] = item
        <5>1. i - 1 = Len(s.items)
          BY <1>7, <4>2
        <5>2. Announced(E, Len(s.items), item.call)
          BY <1>10, <2>2, <3>3, <4>2
        <5> HIDE DEF Announced
        <5> QED BY <4>2, <5>1, <5>2
      <4> QED BY <3>2, <4>1, <4>2 DEF Added
    <3> QED BY <3>2, <3>3 DEF ItemsOf, Added, Ranked
  <2> QED BY <2>1, <2>2
<1> HIDE DEF t, ResponsesRun, MayFollow, ItemsOf
<1>12. ResponsesRun(G, q)
  BY <1>5, <1>10, <1>11, ResponsesSpeaks
<1> QED BY <1>12 DEF q

(* The parts of a chunk, one after the other.                              *)
ItemsInTurn(said, G, q, parts) ==
    /\ said[0] = q
    /\ \A i \in 1 .. Len(parts) : said[i] = Flow!ResponsesPart(said[i - 1], parts[i])
    /\ \A i \in 0 .. Len(parts) : ResponsesRun(G, said[i])

(* They all keep it.                                                       *)
LEMMA ResponsesSaysIs ==
    ASSUME NEW G \in Seq(FrameSet), NEW q, ResponsesRun(G, q), NEW parts \in Seq(PartSet), q = Flow!Result(q.state, q.out)
    PROVE  \E said : ItemsInTurn(said, G, q, parts) /\ Flow!ResponsesSays(q, parts) = said[Len(parts)]
<1> DEFINE n == Len(parts)
           first == q
           V == {r \in [state : ResponsesSinks, out : Seq(FrameSet)] : ResponsesRun(G, r)}
<1>1. n \in Nat /\ \A i \in 1 .. n : parts[i] \in PartSet
  <2> HIDE DEF PartSet
  <2> QED OBVIOUS
<1>a. ASSUME NEW st, NEW out, ResponsesRun(G, Flow!Result(st, out)) PROVE Flow!Result(st, out) \in V
  <2>1. Flow!Result(st, out).state \in ResponsesSinks /\ Flow!Result(st, out).out \in Seq(FrameSet)
    BY <1>a DEF ResponsesRun, ResponsesOk
  <2>2. st \in ResponsesSinks /\ out \in Seq(FrameSet)
    <3> HIDE DEF ResponsesSinks, FrameSet
    <3> QED BY <2>1 DEF Flow!Result
  <2>3. Flow!Result(st, out) \in [state : ResponsesSinks, out : Seq(FrameSet)]
    <3> HIDE DEF ResponsesSinks, FrameSet
    <3> QED BY <2>2 DEF Flow!Result
  <2> HIDE DEF ResponsesRun
  <2> QED BY <1>a, <2>3
<1>2. first \in V
  <2> HIDE DEF V, ResponsesRun
  <2>1. ResponsesRun(G, Flow!Result(q.state, q.out))
    OBVIOUS
  <2>2. Flow!Result(q.state, q.out) \in V
    BY <1>a, <2>1
  <2> QED BY <2>2
<1>3. ASSUME NEW r \in V, NEW i \in 1 .. n PROVE Flow!ResponsesPart(r, parts[i]) \in V
  <2>1. ResponsesRun(G, Flow!ResponsesPart(r, parts[i]))
    <3> HIDE DEF ResponsesRun
    <3> QED BY <1>1, ResponsesPartKeeps
  <2>2. \E st, out : Flow!ResponsesPart(r, parts[i]) = Flow!Result(st, out)
    BY Zenon DEF Flow!ResponsesPart, Flow!Then
  <2> HIDE DEF V, ResponsesRun
  <2> QED BY <1>a, <2>1, <2>2
<1> DEFINE Step(r, i) == Flow!ResponsesPart(r, parts[i])
           Is(f) == f = [i \in 0 .. Len(parts) |-> IF i = 0 THEN q ELSE Flow!ResponsesPart(f[i - 1], parts[i])]
           said == CHOOSE f : Is(f)
           turn == [x \in (1 .. n) \X V |-> Step(x[2], x[1])]
<1>b. \A r \in V, i \in 1 .. n : Step(r, i) \in V
  <2> HIDE DEF n, V
  <2> QED BY <1>3
<1>4. turn \in Turns(V, n) /\ \A i \in 1 .. n, r \in V : turn[<<i, r>>] = Step(r, i)
  <2> HIDE DEF n, V, first, Step
  <2>1. \A x \in (1 .. n) \X V : x[2] \in V /\ x[1] \in 1 .. n
    OBVIOUS
  <2>2. \A x \in (1 .. n) \X V : Step(x[2], x[1]) \in V
    BY <1>b, <2>1
  <2> QED BY <2>2 DEF Turns
<1> HIDE DEF n, V, first, turn, Step
<1>5. Loops(V, n, first, turn)
  BY <1>1, <1>2, <1>4, LoopRuns, Zenon
<1>6. PICK f \in [0 .. n -> V] :
        f[0] = first /\ \A i \in 1 .. n : f[i] = turn[<<i, f[i - 1]>>]
  BY <1>5, Zenon DEF Loops
<1>7. ASSUME NEW i \in 0 .. n
      PROVE  f[i] = IF i = 0 THEN first ELSE Step(f[i - 1], i)
  <2>1. CASE i = 0
    BY <1>6, <2>1
  <2>2. CASE i # 0
    <3>1. i \in 1 .. n /\ i - 1 \in 0 .. n
      BY <1>1, <2>2
    <3>2. f[i - 1] \in V
      BY <1>6, <3>1
    <3> QED BY <1>4, <1>6, <2>2, <3>1, <3>2
  <2> QED BY <2>1, <2>2
<1>8. DOMAIN f = 0 .. n /\ f = [i \in DOMAIN f |-> f[i]]
  BY <1>6
<1>9. f = [i \in 0 .. n |-> IF i = 0 THEN first ELSE Step(f[i - 1], i)]
  BY <1>7, <1>8
<1>10. Is(f)
  BY <1>9, Zenon DEF Step, n, first
<1>11. Is(said)
  BY <1>10
<1>12. Flow!ResponsesSays(q, parts) = said[n]
  BY Zenon DEF Flow!ResponsesSays, said, n, first, Step
<1> HIDE DEF said
<1>13. said = [i \in 0 .. n |-> IF i = 0 THEN first ELSE Step(said[i - 1], i)]
  BY <1>11, Zenon DEF Step, n, first
<1> HIDE DEF Is
<1>14. said[0] = first /\ \A i \in 1 .. n : said[i] = Step(said[i - 1], i)
  <2>1. \A i \in 0 .. n : said[i] = IF i = 0 THEN first ELSE Step(said[i - 1], i)
    BY <1>13
  <2>2. 0 \in 0 .. n /\ \A i \in 1 .. n : i \in 0 .. n /\ i # 0
    BY <1>1
  <2> QED BY <2>1, <2>2
<1> DEFINE Q == {i \in 0 .. n : said[i] \in V}
<1>15. 0 \in Q
  BY <1>1, <1>2, <1>14
<1>16. ASSUME NEW i \in 1 .. n, i - 1 \in Q PROVE i \in Q
  BY <1>1, <1>b, <1>14, <1>16
<1>17. \A i \in 0 .. n : said[i] \in V
  <2> HIDE DEF Q
  <2>1. \A i \in 0 .. n : i \in Q
    BY <1>1, <1>15, <1>16, LoopKeeps
  <2> QED BY <2>1 DEF Q
<1>18. \A i \in 0 .. n : ResponsesRun(G, said[i])
  BY <1>17 DEF V
<1>19. ItemsInTurn(said, G, q, parts)
  <2> HIDE DEF ResponsesRun
  <2> QED BY <1>14, <1>18 DEF ItemsInTurn, Step, n, first
<1> QED BY <1>12, <1>19 DEF n

(* So does the last.                                                       *)
LEMMA ResponsesTells ==
    ASSUME NEW G \in Seq(FrameSet), NEW q, ResponsesRun(G, q), NEW parts \in Seq(PartSet), q = Flow!Result(q.state, q.out)
    PROVE  ResponsesRun(G, Flow!ResponsesSays(q, parts))
<1>1. PICK said : ItemsInTurn(said, G, q, parts) /\ Flow!ResponsesSays(q, parts) = said[Len(parts)]
  BY ResponsesSaysIs
<1>2. Len(parts) \in 0 .. Len(parts)
  <2> HIDE DEF PartSet
  <2> QED OBVIOUS
<1> QED BY <1>1, <1>2 DEF ItemsInTurn

(* A sink with the same items.                                             *)
LEMMA ResponsesSame ==
    ASSUME NEW G, NEW s, ResponsesOk(s, G), NEW t \in ResponsesSinks, t.items = s.items
    PROVE  ResponsesOk(t, G)
BY DEF ResponsesOk, ItemsOf

(* The flags and the numbers of the translator are not in it.              *)
LEMMA ResponsesFlags ==
    ASSUME NEW s \in ResponsesSinks, NEW f \in Ends, NEW z \in Nat
    PROVE  /\ [s EXCEPT !.finish = f] \in ResponsesSinks /\ [s EXCEPT !.finish = f].items = s.items
           /\ [s EXCEPT !.started = TRUE, !.seq = z] \in ResponsesSinks
           /\ [s EXCEPT !.started = TRUE, !.seq = z].items = s.items
BY DEF ResponsesSinks

(* Saying nothing keeps it.                                                *)
LEMMA ResponsesFresh ==
    ASSUME NEW G, NEW s, ResponsesOk(s, G)
    PROVE  ResponsesRun(G, Flow!Result(s, <<>>)) /\ G \in Seq(FrameSet)
<1>1. G \in Seq(FrameSet)
  BY DEF ResponsesOk
<1>2. <<>> \in Seq(FrameSet) /\ G \o <<>> = G
  <2> HIDE DEF FrameSet
  <2> QED BY <1>1
<1> HIDE DEF ResponsesOk
<1> QED BY <1>1, <1>2 DEF ResponsesRun, Flow!Result

(* The first event is quiet.                                               *)
LEMMA ResponsesStarts ==
    ASSUME NEW G, NEW s, ResponsesOk(s, G)
    PROVE  ResponsesRun(G, Flow!StartResponses(s))
<1>1. CASE s.started
  <2>1. Flow!StartResponses(s) = Flow!Result(s, <<>>)
    BY <1>1 DEF Flow!StartResponses
  <2> QED BY <2>1, ResponsesFresh
<1>2. CASE ~s.started
  <2> DEFINE z == s.seq + 1
             t == [s EXCEPT !.started = TRUE, !.seq = z]
             E == <<Flow!Frame("created", -1, -1)>>
             r == Flow!Result(s, <<>>)
             N == Flow!Numbered(t, E)
             q == Flow!Then(r, N)
  <2>1. /\ s \in ResponsesSinks /\ ItemsOf(s, G, G) /\ G \in Seq(FrameSet)
        /\ \E n \in Nat : \A i \in 1 .. Len(s.items) : Flow!Rank(s.items[i]) <= n
    BY DEF ResponsesOk
  <2>2. z \in Nat
    BY <2>1, ResponsesSinksAre
  <2>3. Flow!StartResponses(s) = N
    BY <1>2 DEF Flow!StartResponses, Flow!NoIndex
  <2> HIDE DEF z
  <2>4. t \in ResponsesSinks /\ t.items = s.items
    <3>1. "none" \in Ends
      BY DEF Ends
    <3> QED BY <2>1, <2>2, <3>1, ResponsesFlags
  <2>5. E \in Seq(Hushed)
    <3>1. "created" \in FrameTypes \ {"args", "delta", "block_delta"}
      BY DEF FrameTypes
    <3>2. Flow!Frame("created", -1, -1) \in Hushed
      BY <3>1, HushedFrames
    <3> HIDE DEF Hushed
    <3> QED BY <3>2, QuietIs
  <2>6. E \in Seq(FrameSet)
    BY <2>5, QuietIs DEF Quiet
  <2> HIDE DEF t, E
  <2>7. N.out \in Seq(FrameSet)
    BY <2>4, <2>6, NumberedIs DEF Like
  <2>8. r.state = s /\ r.out = <<>> /\ G \o r.out = G /\ ResponsesRun(G, r)
    <3>1. G \o <<>> = G
      <4> HIDE DEF FrameSet
      <4> QED BY <2>1
    <3>2. ResponsesRun(G, r)
      BY ResponsesFresh
    <3> HIDE DEF ResponsesRun
    <3> QED BY <3>1, <3>2 DEF Flow!Result
  <2> HIDE DEF r, N
  <2>9. MayFollow(G, E) /\ ItemsOf(t, G, E)
    <3>1. MayFollow(G, E)
      BY <2>5, QuietFollows
    <3> HIDE DEF Announced
    <3> QED BY <2>1, <2>4, <3>1 DEF ItemsOf
  <2>10. ResponsesRun(G, q)
    <3> HIDE DEF ResponsesRun, MayFollow, ItemsOf, q
    <3>1. MayFollow(G \o r.out, E) /\ ItemsOf(t, G \o r.out, E)
      BY <2>8, <2>9
    <3> QED BY <2>1, <2>4, <2>8, <3>1, ResponsesSpeaks DEF q, N
  <2>11. q.state = N.state /\ q.out = <<>> \o N.out
    BY <2>8 DEF Flow!Then, Flow!Result
  <2>12. <<>> \o N.out = N.out
    <3> HIDE DEF FrameSet
    <3> QED BY <2>7
  <2> HIDE DEF q
  <2>13. ResponsesRun(G, N)
    BY <2>10, <2>11, <2>12 DEF ResponsesRun
  <2> QED BY <2>3, <2>13
<1> QED BY <1>1, <1>2

(* Nothing that closes an item bears arguments.                            *)
LEMMA ClosingIs ==
    ASSUME NEW s \in ResponsesSinks, NEW rank \in {Flow!Rank(s.items[i]) : i \in DOMAIN s.items}
    PROVE  Flow!Closing(s, rank) \in Seq(Hushed)
<1> DEFINE i == Flow!ItemRanked(s, rank)
           index == i - 1
           A == Flow!Frame("part_done", index, -1)
           B == Flow!Frame("done", index, -1)
           C == Flow!Frame("text_done", index, -1)
<1>1. i \in DOMAIN s.items
  <2>1. \E k \in DOMAIN s.items : Flow!Rank(s.items[k]) = rank
    OBVIOUS
  <2> QED BY <2>1 DEF Flow!ItemRanked
<1>2. index \in Int
  <2>1. DOMAIN s.items = 1 .. Len(s.items) /\ Len(s.items) \in Nat
    <3>1. s.items \in Seq(Items)
      BY ResponsesSinksAre
    <3> HIDE DEF Items
    <3> QED BY <3>1
  <2> HIDE DEF i
  <2> QED BY <1>1, <2>1
<1>3. Flow!Closing(s, rank) = IF rank = 0 THEN <<C>> \o <<A, B>> ELSE <<A, B>>
  BY DEF Flow!Closing, Flow!NoIndex
<1> HIDE DEF index
<1>4. A \in Hushed /\ B \in Hushed /\ C \in Hushed
  <2>1. {"part_done", "done", "text_done"} \in SUBSET (FrameTypes \ {"args", "delta", "block_delta"})
    BY DEF FrameTypes
  <2> QED BY <1>2, <2>1, HushedFrames
<1> HIDE DEF A, B, C, Hushed
<1>5. <<C>> \in Seq(Hushed) /\ <<A, B>> \in Seq(Hushed)
  BY <1>4, QuietIs
<1>6. <<C>> \o <<A, B>> \in Seq(Hushed)
  BY <1>5, QuietIs
<1> QED BY <1>3, <1>5, <1>6

(* The events that close the items are quiet.                              *)
LEMMA ResponsesCloses ==
    ASSUME NEW G \in Seq(FrameSet), NEW r, ResponsesRun(G, r)
    PROVE  ResponsesRun(G, Flow!Then(r, Flow!CloseResponses(r.state)))
<1> DEFINE s == r.state
           H == G \o r.out
           S == {Flow!Rank(s.items[i]) : i \in DOMAIN s.items}
           ranks == Flow!Ascending(S)
           ss == [k \in DOMAIN ranks |-> Flow!Closing(s, ranks[k])]
           items == Flow!FlattenSeq(ss)
           last == IF s.finish \in {"length", "content_filter"} THEN "incomplete" ELSE "completed"
           final == <<Flow!Frame(last, -1, -1)>>
           E == items \o final
<1>1. s \in ResponsesSinks /\ H \in Seq(FrameSet) /\ ItemsOf(s, H, H)
  BY DEF ResponsesRun, ResponsesOk
<1>2. PICK n \in Nat : \A i \in 1 .. Len(s.items) : Flow!Rank(s.items[i]) <= n
  BY DEF ResponsesRun, ResponsesOk
<1>3. S \in SUBSET (0 .. n)
  <2>1. DOMAIN s.items = 1 .. Len(s.items)
    <3>1. s.items \in Seq(Items)
      BY <1>1, ResponsesSinksAre
    <3> HIDE DEF Items, s
    <3> QED BY <3>1
  <2>2. \A i \in DOMAIN s.items : Flow!Rank(s.items[i]) \in Nat
    BY <1>1, <2>1, ResponsesSinksAre, ItemsAre
  <2>3. \A i \in DOMAIN s.items : Flow!Rank(s.items[i]) \in 0 .. n
    BY <1>2, <2>1, <2>2
  <2> HIDE DEF s
  <2> QED BY <2>3
<1>4. ranks \in Seq(S)
  <2> HIDE DEF S
  <2> QED BY <1>3, AscendingIs DEF Lists
<1>5. DOMAIN ranks = 1 .. Len(ranks) /\ Len(ranks) \in Nat /\ \A k \in 1 .. Len(ranks) : ranks[k] \in S
  <2> HIDE DEF S, ranks
  <2> QED BY <1>4
<1>6. ss \in [1 .. Len(ranks) -> Seq(Hushed)]
  <2>1. ASSUME NEW k \in 1 .. Len(ranks) PROVE Flow!Closing(s, ranks[k]) \in Seq(Hushed)
    <3> HIDE DEF s, ranks, Hushed
    <3> QED BY <1>1, <1>5, ClosingIs
  <2> HIDE DEF Hushed, ranks, s
  <2> QED BY <1>5, <2>1
<1>7. Flow!FlattenSeq(ss) = Flat(ss)
  BY Zenon DEF Flow!FlattenSeq, Flat
<1> HIDE DEF ss, Hushed
<1>8. items \in Seq(Hushed)
  BY <1>5, <1>6, <1>7, FlatSpreads
<1>9. final \in Seq(Hushed)
  <2>1. last \in FrameTypes \ {"args", "delta", "block_delta"}
    <3>1. last \in {"incomplete", "completed"}
      OBVIOUS
    <3> HIDE DEF last
    <3> QED BY <3>1 DEF FrameTypes
  <2> HIDE DEF last
  <2>2. Flow!Frame(last, -1, -1) \in Hushed
    BY <2>1, HushedFrames
  <2> QED BY <2>2, QuietIs
<1>10. Flow!CloseResponses(s) = Flow!Numbered(s, E)
  BY Zenon DEF Flow!CloseResponses, Flow!NoIndex, ss
<1> HIDE DEF items, final
<1>11. E \in Seq(Hushed)
  BY <1>8, <1>9, QuietIs
<1> HIDE DEF E
<1>12. MayFollow(H, E) /\ ItemsOf(s, H, E)
  <2>1. MayFollow(H, E)
    BY <1>11, QuietFollows
  <2> HIDE DEF Announced
  <2> QED BY <1>1, <2>1 DEF ItemsOf
<1>13. ResponsesRun(G, Flow!Then(r, Flow!Numbered(s, E)))
  <2> DEFINE t == s
  <2>1. /\ t \in ResponsesSinks /\ MayFollow(G \o r.out, E) /\ ItemsOf(t, G \o r.out, E)
        /\ \E m \in Nat : \A i \in 1 .. Len(t.items) : Flow!Rank(t.items[i]) <= m
    BY <1>1, <1>2, <1>12
  <2> HIDE DEF t, ResponsesRun, MayFollow, ItemsOf
  <2>2. ResponsesRun(G, Flow!Then(r, Flow!Numbered(t, E)))
    BY <2>1, ResponsesSpeaks
  <2> QED BY <2>2 DEF t
<1> QED BY <1>10, <1>13

(* The frames of a chunk keep the invariant of the Responses client.       *)
LEMMA ResponsesFramesAre ==
    ASSUME NEW G, NEW s, ResponsesOk(s, G), NEW c, c.parts \in Seq(PartSet), c.finish \in Ends, NEW end
    PROVE  ResponsesRun(G, Flow!ResponsesFrames(s, c, end))
<1> DEFINE begin == IF end THEN Flow!Result(s, <<>>) ELSE Flow!StartResponses(s)
           f == IF c.finish = "none" THEN begin.state.finish ELSE c.finish
           st == [begin.state EXCEPT !.finish = f]
           noted == Flow!Result(st, begin.out)
           said == Flow!ResponsesSays(noted, c.parts)
<1>1. ResponsesRun(G, begin) /\ G \in Seq(FrameSet)
  <2>1. ResponsesRun(G, Flow!Result(s, <<>>)) /\ G \in Seq(FrameSet)
    BY ResponsesFresh
  <2>2. ResponsesRun(G, Flow!StartResponses(s))
    BY ResponsesStarts
  <2> HIDE DEF ResponsesRun
  <2> QED BY <2>1, <2>2
<1>2. Flow!ResponsesFrames(s, c, end) = IF end THEN Flow!Then(said, Flow!CloseResponses(said.state)) ELSE said
  BY Zenon DEF Flow!ResponsesFrames
<1> HIDE DEF begin
<1>3. begin.state \in ResponsesSinks /\ begin.out \in Seq(FrameSet) /\ ResponsesOk(begin.state, G \o begin.out)
  BY <1>1 DEF ResponsesRun, ResponsesOk
<1>4. f \in Ends
  BY <1>3, ResponsesSinksAre
<1> HIDE DEF f
<1>5. st \in ResponsesSinks /\ st.items = begin.state.items
  BY <1>3, <1>4, ResponsesFlags
<1> HIDE DEF st
<1>6. ResponsesOk(st, G \o begin.out)
  BY <1>3, <1>5, ResponsesSame
<1>7. noted.state = st /\ noted.out = begin.out
  BY DEF Flow!Result
<1>8. ResponsesRun(G, noted) /\ noted = Flow!Result(noted.state, noted.out)
  <2>1. noted = Flow!Result(noted.state, noted.out)
    BY <1>7
  <2> HIDE DEF noted
  <2>2. ResponsesRun(G, noted)
    BY <1>3, <1>6, <1>7 DEF ResponsesRun
  <2> QED BY <2>1, <2>2
<1> HIDE DEF noted
<1>9. ResponsesRun(G, said)
  BY <1>1, <1>8, ResponsesTells
<1> HIDE DEF said
<1>10. ResponsesRun(G, Flow!Then(said, Flow!CloseResponses(said.state)))
  BY <1>1, <1>9, ResponsesCloses
<1> QED BY <1>2, <1>9, <1>10

-----------------------------------------------------------------------------
(* The chat clients: chunks go as they are.                                *)

(* What Those keeps of parts is parts.                                     *)
LEMMA ThoseKept ==
    ASSUME NEW A, NEW s \in Seq(A), NEW stay, NEW B, \A i \in 1 .. Len(s) : i \in stay => s[i] \in B
    PROVE  Those(s, stay) \in Seq(B)
<1> DEFINE n == Len(s)
<1>1. PICK taken : Takes(A, s, stay, taken) /\ Those(s, stay) = taken[n]
  BY ThoseRuns
<1>2. /\ n \in Nat /\ taken[0] = <<>>
      /\ \A i \in 1 .. n : taken[i] = IF i \in stay THEN Append(taken[i - 1], s[i]) ELSE taken[i - 1]
  BY <1>1 DEF Takes
<1> HIDE DEF n
<1> DEFINE Q == {i \in 0 .. n : taken[i] \in Seq(B)}
<1>3. 0 \in Q
  <2>1. <<>> \in Seq(B)
    OBVIOUS
  <2>2. taken[0] \in Seq(B) /\ 0 \in 0 .. n
    BY <1>2, <2>1
  <2> QED BY <2>2
<1>4. ASSUME NEW i \in 1 .. n, i - 1 \in Q PROVE i \in Q
  <2> DEFINE old == taken[i - 1]
  <2>1. old \in Seq(B)
    BY <1>4
  <2>2. taken[i] = IF i \in stay THEN Append(old, s[i]) ELSE old
    BY <1>2
  <2>3. i \in stay => s[i] \in B
    BY DEF n
  <2> HIDE DEF old
  <2>4. taken[i] \in Seq(B)
    BY <2>1, <2>2, <2>3
  <2> QED BY <1>2, <2>4
<1>5. \A i \in 0 .. n : i \in Q
  <2> HIDE DEF Q
  <2> QED BY <1>2, <1>3, <1>4, LoopKeeps
<1> QED BY <1>1, <1>2, <1>5 DEF n

(* The frames of the parts of a chat chunk.                                *)
Parted(c) == [i \in DOMAIN c.parts |-> Flow!Frame(c.parts[i].kind, c.parts[i].index, c.parts[i].of)]

(* They are those of the parts, one for one.                               *)
LEMMA PartedIs ==
    ASSUME NEW c, c.parts \in Seq(PartSet)
    PROVE  /\ Parted(c) \in Seq(FrameSet) /\ Len(Parted(c)) = Len(c.parts) /\ Len(c.parts) \in Nat
           /\ \A i \in 1 .. Len(c.parts) :
                 /\ c.parts[i] \in PartSet /\ Parted(c)[i].type = c.parts[i].kind
                 /\ Parted(c)[i].index = c.parts[i].index /\ Parted(c)[i].of = c.parts[i].of
<1> DEFINE n == Len(c.parts)
           F == [i \in DOMAIN c.parts |-> Flow!Frame(c.parts[i].kind, c.parts[i].index, c.parts[i].of)]
<1>1. n \in Nat /\ DOMAIN c.parts = 1 .. n /\ \A i \in 1 .. n : c.parts[i] \in PartSet
  <2> HIDE DEF PartSet
  <2> QED OBVIOUS
<1>2. ASSUME NEW i \in 1 .. n
      PROVE  /\ F[i] \in FrameSet /\ F[i].type = c.parts[i].kind
             /\ F[i].index = c.parts[i].index /\ F[i].of = c.parts[i].of
  <2> DEFINE p == c.parts[i]
  <2>1. p.kind \in FrameTypes /\ p.index \in Int /\ p.of \in Int
    <3>1. p \in PartSet
      BY <1>1
    <3> HIDE DEF p
    <3> QED BY <3>1 DEF PartSet, FrameTypes
  <2>2. F[i] = Flow!Frame(p.kind, p.index, p.of)
    BY <1>1
  <2> HIDE DEF F, p
  <2>3. F[i] \in FrameSet /\ F[i].type = p.kind /\ F[i].index = p.index /\ F[i].of = p.of
    BY <2>1, <2>2, FrameIs
  <2> QED BY <2>3 DEF p
<1>3. DOMAIN F = 1 .. n /\ F = [i \in 1 .. n |-> F[i]]
  BY <1>1
<1>4. Parted(c) = F
  BY DEF Parted
<1> HIDE DEF F
<1>5. F \in Seq(FrameSet) /\ Len(F) = n
  <2> HIDE DEF FrameSet, n
  <2> QED BY <1>1, <1>2, <1>3
<1> QED BY <1>1, <1>2, <1>4, <1>5

(* Frames that say no more after E change nothing.                         *)
LEMMA FollowsQuiet ==
    ASSUME NEW G, NEW E, MayFollow(G, E), NEW L \in Seq(Hushed)
    PROVE  MayFollow(G, E \o L) /\ \A x, o : Announced(E, x, o) => Announced(E \o L, x, o)
<1> DEFINE F == E \o L
           n == Len(E)
<1>1. E \in Seq(FrameSet) /\ L \in Seq(FrameSet) /\ \A i \in 1 .. Len(L) : ~Bears(L[i])
  BY QuietIs DEF Quiet, MayFollow
<1>2. /\ F \in Seq(FrameSet) /\ n \in Nat /\ Len(F) = n + Len(L) /\ Len(L) \in Nat
      /\ \A i \in 1 .. n : F[i] = E[i]
      /\ \A i \in 1 .. Len(L) : F[n + i] = L[i]
  <2> HIDE DEF FrameSet
  <2> QED BY <1>1
<1> HIDE DEF F
<1>3. ASSUME NEW i \in 1 .. Len(F), Bears(F[i])
      PROVE  \/ Announced(G, F[i].index, F[i].of)
             \/ \E j \in 1 .. i - 1 : Begins(F[j]) /\ F[j].index = F[i].index /\ F[j].of = F[i].of
  <2> HIDE DEF Announced, Begins, Bears
  <2>1. i \in 1 .. n /\ F[i] = E[i]
    <3>1. CASE i \in 1 .. n
      BY <1>2, <3>1
    <3>2. CASE i \notin 1 .. n
      <4>1. i - n \in 1 .. Len(L) /\ i = n + (i - n)
        BY <1>2, <3>2
      <4>2. F[i] = L[i - n]
        BY <1>2, <4>1
      <4> QED BY <1>1, <1>3, <4>1, <4>2
    <3> QED BY <3>1, <3>2
  <2>2. CASE Announced(G, E[i].index, E[i].of)
    BY <2>1, <2>2
  <2>3. CASE \E j \in 1 .. i - 1 : Begins(E[j]) /\ E[j].index = E[i].index /\ E[j].of = E[i].of
    <3>1. PICK j \in 1 .. i - 1 : Begins(E[j]) /\ E[j].index = E[i].index /\ E[j].of = E[i].of
      BY <2>3
    <3>2. F[j] = E[j]
      BY <1>2, <2>1
    <3> QED BY <2>1, <3>1, <3>2
  <2> QED BY <1>3, <2>1, <2>2, <2>3 DEF MayFollow
<1>4. ASSUME NEW x, NEW o, Announced(E, x, o) PROVE Announced(F, x, o)
  <2>1. PICK j \in 1 .. n : Begins(E[j]) /\ E[j].index = x /\ E[j].of = o
    BY <1>4 DEF Announced
  <2>2. j \in 1 .. Len(F) /\ F[j] = E[j]
    BY <1>2
  <2> QED BY <2>1, <2>2 DEF Announced
<1> QED BY <1>2, <1>3, <1>4 DEF MayFollow, F

(* The frames of a chat chunk: its parts, then its finish reason.          *)
LEMMA ChatFramesAre ==
    ASSUME NEW G, NEW n \in Nat, NEW c, c.parts \in Seq(PartSet),
           Introduced(c.parts, n), \A k \in 0 .. n - 1 : Announced(G, k, k)
    PROVE  /\ MayFollow(G, Flow!ChatFrames(c))
           /\ \A i \in 1 .. Len(c.parts) :
                 c.parts[i].kind = "call" =>
                    Announced(Flow!ChatFrames(c), c.parts[i].index, c.parts[i].index)
<1> DEFINE F == Parted(c)
           L == IF c.finish = "none" THEN <<>> ELSE <<Flow!Frame("finish", -1, -1)>>
<1>1. /\ F \in Seq(FrameSet) /\ Len(F) = Len(c.parts) /\ Len(c.parts) \in Nat
      /\ \A i \in 1 .. Len(c.parts) :
            /\ c.parts[i] \in PartSet /\ F[i].type = c.parts[i].kind
            /\ F[i].index = c.parts[i].index /\ F[i].of = c.parts[i].of
  BY PartedIs
<1>2. Flow!ChatFrames(c) = F \o L
  BY Zenon DEF Flow!ChatFrames, Parted, Flow!NoIndex
<1>3. L \in Seq(Hushed)
  <2>1. "finish" \in FrameTypes \ {"args", "delta", "block_delta"}
    BY DEF FrameTypes
  <2>2. Flow!Frame("finish", -1, -1) \in Hushed
    BY <2>1, HushedFrames
  <2> HIDE DEF Hushed
  <2> QED BY <2>2, QuietIs
<1> HIDE DEF F, L
<1>4. \A i \in 1 .. Len(c.parts) :
         /\ (Bears(F[i]) => c.parts[i].kind = "args")
         /\ (Begins(F[i]) <=> c.parts[i].kind = "call")
         /\ c.parts[i].kind \in {"call", "args"} => F[i].of = F[i].index /\ F[i].index = c.parts[i].index /\ F[i].index \in Nat
  <2> SUFFICES ASSUME NEW i \in 1 .. Len(c.parts)
               PROVE  /\ (Bears(F[i]) => c.parts[i].kind = "args")
                      /\ (Begins(F[i]) <=> c.parts[i].kind = "call")
                      /\ c.parts[i].kind \in {"call", "args"} =>
                            F[i].of = F[i].index /\ F[i].index = c.parts[i].index /\ F[i].index \in Nat
    OBVIOUS
  <2>1. /\ c.parts[i].kind \in {"text", "reasoning", "call", "args"}
        /\ c.parts[i].kind \in {"call", "args"} => c.parts[i].index \in Nat /\ c.parts[i].of = c.parts[i].index
    <3> DEFINE p == c.parts[i]
    <3>1. p \in PartSet
      BY <1>1
    <3> HIDE DEF p
    <3>2. p.kind \in {"text", "reasoning", "call", "args"} /\ (p.kind \in {"call", "args"} => p.index \in Nat /\ p.of = p.index)
      BY <3>1 DEF PartSet
    <3> QED BY <3>2 DEF p
  <2> QED BY <1>1, <2>1 DEF Bears, Begins
<1> HIDE DEF FrameSet, PartSet
<1>5. MayFollow(G, F)
  <2>1. ASSUME NEW i \in 1 .. Len(F), Bears(F[i])
        PROVE  \/ Announced(G, F[i].index, F[i].of)
               \/ \E j \in 1 .. i - 1 : Begins(F[j]) /\ F[j].index = F[i].index /\ F[j].of = F[i].of
    <3>1. /\ i \in 1 .. Len(c.parts) /\ c.parts[i].kind = "args"
          /\ F[i].of = F[i].index /\ F[i].index = c.parts[i].index /\ F[i].index \in Nat
      BY <1>1, <1>4, <2>1
    <3>2. CASE c.parts[i].index < n
      <4>1. F[i].index \in 0 .. n - 1
        BY <3>1, <3>2
      <4> HIDE DEF Announced
      <4> QED BY <3>1, <4>1
    <3>3. CASE \E j \in 1 .. i - 1 : c.parts[j].kind = "call" /\ c.parts[j].index = c.parts[i].index
      <4>1. PICK j \in 1 .. i - 1 : c.parts[j].kind = "call" /\ c.parts[j].index = c.parts[i].index
        BY <3>3
      <4>2. j \in 1 .. Len(c.parts)
        BY <1>1, <3>1
      <4> HIDE DEF Announced, Begins, Bears
      <4>3. Begins(F[j]) /\ F[j].index = F[i].index /\ F[j].of = F[i].of
        BY <1>4, <3>1, <4>1, <4>2
      <4> QED BY <4>1, <4>3
    <3> QED BY <3>1, <3>2, <3>3 DEF Introduced
  <2> QED BY <1>1, <2>1 DEF MayFollow
<1>6. \A i \in 1 .. Len(c.parts) : c.parts[i].kind = "call" => Announced(F, c.parts[i].index, c.parts[i].index)
  <2> HIDE DEF Begins
  <2> QED BY <1>1, <1>4 DEF Announced
<1> HIDE DEF Announced
<1>7. MayFollow(G, F \o L) /\ \A x, o : Announced(F, x, o) => Announced(F \o L, x, o)
  BY <1>3, <1>5, FollowsQuiet
<1> QED BY <1>2, <1>6, <1>7

(* A legacy completion has text alone.                                     *)
LEMMA CompletionIs ==
    ASSUME NEW c \in ChunkSet
    PROVE  \A G : MayFollow(G, Flow!ChatFrames(Flow!CompletionChunk(c)))
<1> DEFINE d == Flow!CompletionChunk(c)
           stay == {i \in DOMAIN c.parts : c.parts[i].kind = "text"}
           Words == {p \in PartSet : p.kind = "text"}
<1>1. c.parts \in Seq(PartSet)
  BY DEF ChunkSet
<1>2. \A i \in 1 .. Len(c.parts) : i \in stay => c.parts[i] \in Words
  <2> HIDE DEF PartSet
  <2> QED BY <1>1
<1>3. d.parts = Those(c.parts, stay)
  <2>1. d.parts = Flow!Those(c.parts, stay)
    BY DEF Flow!CompletionChunk, Flow!Chunk
  <2> HIDE DEF stay
  <2>2. Flow!Those(c.parts, stay) = Those(c.parts, stay)
    BY Zenon DEF Flow!Those, Those
  <2> QED BY <2>1, <2>2
<1> HIDE DEF stay, d
<1>4. d.parts \in Seq(Words)
  <2> HIDE DEF Words
  <2> QED BY <1>1, <1>2, <1>3, ThoseKept
<1>5. /\ Len(d.parts) \in Nat /\ d.parts \in Seq(PartSet)
      /\ \A i \in 1 .. Len(d.parts) : d.parts[i].kind = "text"
  <2>1. \A i \in 1 .. Len(d.parts) : d.parts[i] \in Words
    <3> HIDE DEF Words
    <3> QED BY <1>4
  <2>2. \A i \in 1 .. Len(d.parts) : d.parts[i] \in PartSet /\ d.parts[i].kind = "text"
    <3> HIDE DEF PartSet
    <3> QED BY <2>1
  <2> HIDE DEF Words, PartSet
  <2> QED BY <1>4, <2>2
<1>6. Introduced(d.parts, 0)
  BY <1>5 DEF Introduced
<1>7. ASSUME NEW G PROVE MayFollow(G, Flow!ChatFrames(d))
  <2>1. \A k \in 0 .. 0 - 1 : Announced(G, k, k)
    OBVIOUS
  <2> HIDE DEF Announced, Introduced
  <2> QED BY <1>5, <1>6, <2>1, ChatFramesAre
<1> QED BY <1>7 DEF d

-----------------------------------------------------------------------------
(* The sink of any client, n calls into the stream.                        *)

(* The invariant of the client's translator, whatever its dialect.         *)
Sinks == ClaudeSinks \cup ResponsesSinks \cup {<<>>}
SinkOk(cl, n, s, G) ==
    /\ G \in Seq(FrameSet) /\ Reach(G) /\ s \in Sinks
    /\ cl = "claude" => ClaudeOk(s, G)
    /\ cl = "responses" => ResponsesOk(s, G)
    /\ cl \in {"openai", "completions"} => s = <<>>
    /\ cl = "openai" => \A k \in 0 .. n - 1 : Announced(G, k, k)

(* A result that keeps it.                                                 *)
SinkRun(cl, n, G, r) == r.out \in Seq(FrameSet) /\ SinkOk(cl, n, r.state, G \o r.out)

(* What a chunk may be, n calls into the stream.                           *)
Says(c, n) == c \in ChunkSet /\ Introduced(c.parts, n)

(* The chat client has every call of it.                                   *)
Brings(cl, c, G) ==
    cl = "openai" =>
        \A j \in 1 .. Len(c.parts) : c.parts[j].kind = "call" => Announced(G, c.parts[j].index, c.parts[j].index)

(* A chunk that introduces what it must keeps it.                          *)
LEMMA EmitIs ==
    ASSUME NEW cl \in Flow!Clients, NEW n \in Nat, NEW s, NEW G, SinkOk(cl, n, s, G), NEW c, Says(c, n)
    PROVE  SinkRun(cl, n, G, Flow!Emit(cl, s, c)) /\ Brings(cl, c, G \o Flow!Emit(cl, s, c).out)
<1> DEFINE r == Flow!Emit(cl, s, c)
<1>1. c \in ChunkSet /\ Introduced(c.parts, n) /\ c.parts \in Seq(PartSet) /\ c.finish \in Ends
  BY DEF Says, ChunkSet
<1>2. G \in Seq(FrameSet) /\ Reach(G) /\ s \in Sinks
  BY DEF SinkOk
<1>3. CASE cl = "claude"
  <2>1. r = Flow!ClaudeFrames(s, c, FALSE) /\ ClaudeOk(s, G)
    BY <1>3, Zenon DEF Flow!Emit, SinkOk
  <2> HIDE DEF r
  <2>2. ClaudeRun(G, r)
    BY <1>1, <2>1, ClaudeFramesAre
  <2> HIDE DEF Reach
  <2> QED BY <1>3, <2>2 DEF ClaudeRun, SinkRun, SinkOk, Brings, ClaudeOk, Sinks, r
<1>4. CASE cl = "responses"
  <2>1. r = Flow!ResponsesFrames(s, c, FALSE) /\ ResponsesOk(s, G)
    BY <1>4, Zenon DEF Flow!Emit, SinkOk
  <2> HIDE DEF r
  <2>2. ResponsesRun(G, r)
    BY <1>1, <2>1, ResponsesFramesAre
  <2> HIDE DEF Reach
  <2> QED BY <1>4, <2>2 DEF ResponsesRun, SinkRun, SinkOk, Brings, ResponsesOk, Sinks, r
<1>5. CASE cl = "completions"
  <2> DEFINE F == Flow!ChatFrames(Flow!CompletionChunk(c))
  <2>1. r.state = s /\ r.out = F /\ s = <<>>
    <3>1. r = Flow!Result(s, F) /\ s = <<>>
      BY <1>5, Zenon DEF Flow!Emit, SinkOk
    <3> HIDE DEF r, F
    <3> QED BY <3>1 DEF Flow!Result
  <2> HIDE DEF r, F, Reach, Announced, MayFollow
  <2>2. F \in Seq(FrameSet) /\ G \o F \in Seq(FrameSet) /\ Reach(G \o F)
    <3>1. MayFollow(G, F)
      BY <1>1, CompletionIs DEF F
    <3> QED BY <1>2, <3>1, ReachFollows
  <2> QED BY <1>2, <1>5, <2>1, <2>2 DEF SinkRun, SinkOk, Brings, r
<1>6. CASE cl = "openai"
  <2> DEFINE F == Flow!ChatFrames(c)
  <2>1. r.state = s /\ r.out = F /\ s = <<>> /\ \A k \in 0 .. n - 1 : Announced(G, k, k)
    <3>1. r = Flow!Result(s, F) /\ s = <<>> /\ \A k \in 0 .. n - 1 : Announced(G, k, k)
      BY <1>6, Zenon DEF Flow!Emit, SinkOk
    <3> HIDE DEF r, F
    <3> QED BY <3>1 DEF Flow!Result
  <2> HIDE DEF r, F, Reach, Announced, MayFollow, Introduced
  <2>2. MayFollow(G, F)
        /\ \A i \in 1 .. Len(c.parts) :
              c.parts[i].kind = "call" => Announced(F, c.parts[i].index, c.parts[i].index)
    BY <1>1, <2>1, ChatFramesAre DEF F
  <2>3. /\ F \in Seq(FrameSet) /\ G \o F \in Seq(FrameSet) /\ Reach(G \o F)
        /\ \A x, o : Announced(G, x, o) \/ Announced(F, x, o) => Announced(G \o F, x, o)
    BY <1>2, <2>2, ReachFollows
  <2>4. SinkOk(cl, n, s, G \o F)
    BY <1>2, <1>6, <2>1, <2>3 DEF SinkOk
  <2>5. Brings(cl, c, G \o F)
    BY <2>2, <2>3 DEF Brings
  <2> QED BY <2>1, <2>3, <2>4, <2>5 DEF SinkRun, r
<1> HIDE DEF r
<1> QED BY <1>3, <1>4, <1>5, <1>6 DEF Flow!Clients, r

(* What was announced stays so.                                            *)
LEMMA AnnouncedStays ==
    ASSUME NEW G \in Seq(FrameSet), NEW E \in Seq(FrameSet), NEW x, NEW o, Announced(G, x, o)
    PROVE  Announced(G \o E, x, o)
<1> DEFINE F == G \o E
<1>1. /\ Len(F) = Len(G) + Len(E) /\ Len(G) \in Nat /\ Len(E) \in Nat
      /\ \A i \in 1 .. Len(G) : F[i] = G[i]
  <2> HIDE DEF FrameSet
  <2> QED OBVIOUS
<1> HIDE DEF F
<1>2. PICK j \in 1 .. Len(G) : Begins(G[j]) /\ G[j].index = x /\ G[j].of = o
  BY DEF Announced
<1>3. j \in 1 .. Len(F) /\ F[j] = G[j]
  BY <1>1
<1>4. Announced(F, x, o)
  BY <1>2, <1>3 DEF Announced
<1> QED BY <1>4 DEF F

(* So does the next of several chunks.                                     *)
LEMMA EmitNextIs ==
    ASSUME NEW cl \in Flow!Clients, NEW n \in Nat, NEW G \in Seq(FrameSet), NEW r, SinkRun(cl, n, G, r), NEW c, Says(c, n)
    PROVE  /\ SinkRun(cl, n, G, Flow!EmitNext(cl, r, c))
           /\ Brings(cl, c, G \o Flow!EmitNext(cl, r, c).out)
           /\ \A x, o : Announced(G \o r.out, x, o) => Announced(G \o Flow!EmitNext(cl, r, c).out, x, o)
<1> DEFINE H == G \o r.out
           e == Flow!Emit(cl, r.state, c)
           q == Flow!EmitNext(cl, r, c)
           o == r.out
           w == e.out
<1>1. o \in Seq(FrameSet) /\ SinkOk(cl, n, r.state, H) /\ H \in Seq(FrameSet)
  BY DEF SinkRun, SinkOk
<1> HIDE DEF H, SinkOk
<1>2. SinkRun(cl, n, H, e) /\ Brings(cl, c, H \o w)
  BY <1>1, EmitIs
<1>3. w \in Seq(FrameSet) /\ SinkOk(cl, n, e.state, H \o w)
  BY <1>2 DEF SinkRun
<1>4. q.state = e.state /\ q.out = o \o w
  BY DEF Flow!EmitNext, Flow!Then, Flow!Result
<1> HIDE DEF e, w, q, FrameSet
<1>5. o \o w \in Seq(FrameSet) /\ G \o (o \o w) = H \o w
  <2>1. G \o (o \o w) = (G \o o) \o w
    <3> HIDE DEF o
    <3> QED BY <1>1, <1>3, FramesJoin, Zenon
  <2> QED BY <1>1, <1>3, <2>1, FramesFollow DEF H
<1>6. \A x, y : Announced(H, x, y) => Announced(H \o w, x, y)
  BY <1>1, <1>3, AnnouncedStays
<1> HIDE DEF Announced, Brings
<1>7. SinkRun(cl, n, G, q) /\ Brings(cl, c, G \o q.out)
  BY <1>2, <1>3, <1>4, <1>5 DEF SinkRun
<1>8. \A x, y : Announced(H, x, y) => Announced(G \o q.out, x, y)
  BY <1>4, <1>5, <1>6
<1> QED BY <1>7, <1>8 DEF q, H

(* The end of the client's stream keeps it.                                *)
LEMMA FinishIs ==
    ASSUME NEW cl \in Flow!Clients, NEW n \in Nat, NEW s, NEW G, SinkOk(cl, n, s, G)
    PROVE  SinkRun(cl, n, G, Flow!Finish(cl, s))
<1> DEFINE r == Flow!Finish(cl, s)
<1>1. Flow!Nothing.parts \in Seq(PartSet) /\ Flow!Nothing.finish \in Ends
  <2>1. Flow!Nothing.parts = <<>> /\ Flow!Nothing.finish = "none"
    BY DEF Flow!Nothing, Flow!Chunk
  <2> HIDE DEF PartSet
  <2> QED BY <2>1 DEF Ends
<1>2. G \in Seq(FrameSet) /\ Reach(G) /\ s \in Sinks
  BY DEF SinkOk
<1>3. CASE cl = "claude"
  <2>1. r = Flow!ClaudeFrames(s, Flow!Nothing, TRUE) /\ ClaudeOk(s, G)
    BY <1>3, Zenon DEF Flow!Finish, SinkOk
  <2> HIDE DEF r
  <2>2. ClaudeRun(G, r)
    BY <1>1, <2>1, ClaudeFramesAre
  <2> HIDE DEF Reach
  <2> QED BY <1>3, <2>2 DEF ClaudeRun, SinkRun, SinkOk, ClaudeOk, Sinks, r
<1>4. CASE cl = "responses"
  <2>1. r = Flow!ResponsesFrames(s, Flow!Nothing, TRUE) /\ ResponsesOk(s, G)
    BY <1>4, Zenon DEF Flow!Finish, SinkOk
  <2> HIDE DEF r
  <2>2. ResponsesRun(G, r)
    BY <1>1, <2>1, ResponsesFramesAre
  <2> HIDE DEF Reach
  <2> QED BY <1>4, <2>2 DEF ResponsesRun, SinkRun, SinkOk, ResponsesOk, Sinks, r
<1>5. CASE cl \in {"openai", "completions"}
  <2> DEFINE F == <<Flow!Frame("DONE", -1, -1)>>
  <2>1. r.state = s /\ r.out = F /\ s = <<>>
    <3>1. r = Flow!Result(s, F)
      BY <1>5 DEF Flow!Finish, Flow!NoIndex
    <3> HIDE DEF r, F
    <3> QED BY <1>5, <3>1 DEF Flow!Result, SinkOk
  <2>2. F \in Seq(Hushed)
    <3>1. "DONE" \in FrameTypes \ {"args", "delta", "block_delta"}
      BY DEF FrameTypes
    <3>2. Flow!Frame("DONE", -1, -1) \in Hushed
      BY <3>1, HushedFrames
    <3> HIDE DEF Hushed
    <3> QED BY <3>2, QuietIs
  <2> HIDE DEF r, F, Reach, Announced, MayFollow
  <2>3. /\ F \in Seq(FrameSet) /\ G \o F \in Seq(FrameSet) /\ Reach(G \o F)
        /\ \A x, o : Announced(G, x, o) \/ Announced(F, x, o) => Announced(G \o F, x, o)
    <3>1. MayFollow(G, F)
      BY <2>2, QuietFollows
    <3> QED BY <1>2, <3>1, ReachFollows
  <2> QED BY <1>2, <1>5, <2>1, <2>3 DEF SinkRun, SinkOk, r
<1> HIDE DEF r
<1> QED BY <1>3, <1>4, <1>5 DEF Flow!Clients, r

(* One chunk after the other.                                              *)
EmitsInTurn(said, cl, n, G, s, chunks) ==
    /\ said[0] = Flow!Result(s, <<>>)
    /\ \A i \in 1 .. Len(chunks) : said[i] = Flow!EmitNext(cl, said[i - 1], chunks[i])
    /\ \A i \in 0 .. Len(chunks) : SinkRun(cl, n, G, said[i])

LEMMA EmitAllRuns ==
    ASSUME NEW cl \in Flow!Clients, NEW n \in Nat, NEW s, NEW G, SinkOk(cl, n, s, G),
           NEW chunks \in Seq(ChunkSet), \A k \in 1 .. Len(chunks) : Introduced(chunks[k].parts, n)
    PROVE  \E said : EmitsInTurn(said, cl, n, G, s, chunks) /\ Flow!EmitAll(cl, s, chunks) = said[Len(chunks)]
<1> DEFINE last == Len(chunks)
           first == Flow!Result(s, <<>>)
           V == {r \in [state : Sinks, out : Seq(FrameSet)] : SinkRun(cl, n, G, r)}
<1>1. last \in Nat /\ G \in Seq(FrameSet) /\ \A k \in 1 .. last : Says(chunks[k], n)
  <2>1. last \in Nat /\ \A k \in 1 .. last : chunks[k] \in ChunkSet
    <3> HIDE DEF ChunkSet
    <3> QED OBVIOUS
  <2> QED BY <2>1 DEF SinkOk, Says
<1>a. ASSUME NEW st, NEW out, SinkRun(cl, n, G, Flow!Result(st, out)) PROVE Flow!Result(st, out) \in V
  <2>1. Flow!Result(st, out).state \in Sinks /\ Flow!Result(st, out).out \in Seq(FrameSet)
    <3> HIDE DEF Sinks, FrameSet
    <3> QED BY <1>a DEF SinkRun, SinkOk
  <2>2. st \in Sinks /\ out \in Seq(FrameSet)
    <3> HIDE DEF Sinks, FrameSet
    <3> QED BY <2>1 DEF Flow!Result
  <2>3. Flow!Result(st, out) \in [state : Sinks, out : Seq(FrameSet)]
    <3> HIDE DEF Sinks, FrameSet
    <3> QED BY <2>2 DEF Flow!Result
  <2> HIDE DEF SinkRun
  <2> QED BY <1>a, <2>3
<1>2. first \in V
  <2>1. <<>> \in Seq(FrameSet) /\ G \o <<>> = G
    <3> HIDE DEF FrameSet
    <3> QED BY <1>1
  <2>2. SinkRun(cl, n, G, Flow!Result(s, <<>>))
    <3> HIDE DEF FrameSet, SinkOk
    <3> QED BY <2>1 DEF SinkRun, Flow!Result
  <2> HIDE DEF V, SinkRun
  <2> QED BY <1>a, <2>2
<1>3. ASSUME NEW r \in V, NEW i \in 1 .. last PROVE Flow!EmitNext(cl, r, chunks[i]) \in V
  <2>1. SinkRun(cl, n, G, Flow!EmitNext(cl, r, chunks[i]))
    <3> HIDE DEF SinkRun, Says, last
    <3> QED BY <1>1, EmitNextIs
  <2>2. \E st, out : Flow!EmitNext(cl, r, chunks[i]) = Flow!Result(st, out)
    BY Zenon DEF Flow!EmitNext, Flow!Then
  <2> HIDE DEF V, SinkRun
  <2> QED BY <1>a, <2>1, <2>2
<1> DEFINE Step(r, i) == Flow!EmitNext(cl, r, chunks[i])
           Is(f) == f = [i \in 0 .. Len(chunks) |-> IF i = 0 THEN Flow!Result(s, <<>>) ELSE Flow!EmitNext(cl, f[i - 1], chunks[i])]
           said == CHOOSE f : Is(f)
           turn == [x \in (1 .. last) \X V |-> Step(x[2], x[1])]
<1>b. \A r \in V, i \in 1 .. last : Step(r, i) \in V
  <2> HIDE DEF last, V
  <2> QED BY <1>3
<1>4. turn \in Turns(V, last) /\ \A i \in 1 .. last, r \in V : turn[<<i, r>>] = Step(r, i)
  <2> HIDE DEF last, V, first, Step
  <2>1. \A x \in (1 .. last) \X V : x[2] \in V /\ x[1] \in 1 .. last
    OBVIOUS
  <2>2. \A x \in (1 .. last) \X V : Step(x[2], x[1]) \in V
    BY <1>b, <2>1
  <2> QED BY <2>2 DEF Turns
<1> HIDE DEF last, V, first, turn, Step
<1>5. Loops(V, last, first, turn)
  BY <1>1, <1>2, <1>4, LoopRuns, Zenon
<1>6. PICK f \in [0 .. last -> V] :
        f[0] = first /\ \A i \in 1 .. last : f[i] = turn[<<i, f[i - 1]>>]
  BY <1>5, Zenon DEF Loops
<1>7. ASSUME NEW i \in 0 .. last
      PROVE  f[i] = IF i = 0 THEN first ELSE Step(f[i - 1], i)
  <2>1. CASE i = 0
    BY <1>6, <2>1
  <2>2. CASE i # 0
    <3>1. i \in 1 .. last /\ i - 1 \in 0 .. last
      BY <1>1, <2>2
    <3>2. f[i - 1] \in V
      BY <1>6, <3>1
    <3> QED BY <1>4, <1>6, <2>2, <3>1, <3>2
  <2> QED BY <2>1, <2>2
<1>8. DOMAIN f = 0 .. last /\ f = [i \in DOMAIN f |-> f[i]]
  BY <1>6
<1>9. f = [i \in 0 .. last |-> IF i = 0 THEN first ELSE Step(f[i - 1], i)]
  BY <1>7, <1>8
<1>10. Is(f)
  BY <1>9, Zenon DEF Step, last, first
<1>11. Is(said)
  BY <1>10
<1>12. Flow!EmitAll(cl, s, chunks) = said[last]
  BY Zenon DEF Flow!EmitAll, said, last, first, Step
<1> HIDE DEF said
<1>13. said = [i \in 0 .. last |-> IF i = 0 THEN first ELSE Step(said[i - 1], i)]
  BY <1>11, Zenon DEF Step, last, first
<1> HIDE DEF Is
<1>14. said[0] = first /\ \A i \in 1 .. last : said[i] = Step(said[i - 1], i)
  <2>1. \A i \in 0 .. last : said[i] = IF i = 0 THEN first ELSE Step(said[i - 1], i)
    BY <1>13
  <2>2. 0 \in 0 .. last /\ \A i \in 1 .. last : i \in 0 .. last /\ i # 0
    BY <1>1
  <2> QED BY <2>1, <2>2
<1> DEFINE Q == {i \in 0 .. last : said[i] \in V}
<1>15. 0 \in Q
  BY <1>1, <1>2, <1>14
<1>16. ASSUME NEW i \in 1 .. last, i - 1 \in Q PROVE i \in Q
  BY <1>1, <1>b, <1>14, <1>16
<1>17. \A i \in 0 .. last : said[i] \in V
  <2> HIDE DEF Q
  <2>1. \A i \in 0 .. last : i \in Q
    BY <1>1, <1>15, <1>16, LoopKeeps
  <2> QED BY <2>1 DEF Q
<1>18. \A i \in 0 .. last : SinkRun(cl, n, G, said[i])
  BY <1>17 DEF V
<1>19. EmitsInTurn(said, cl, n, G, s, chunks)
  <2> HIDE DEF SinkRun
  <2> QED BY <1>14, <1>18 DEF EmitsInTurn, Step, last, first
<1> QED BY <1>12, <1>19 DEF last

(* They keep the invariant, and bring every call.                          *)
LEMMA EmitAllIs ==
    ASSUME NEW cl \in Flow!Clients, NEW n \in Nat, NEW s, NEW G, SinkOk(cl, n, s, G),
           NEW chunks \in Seq(ChunkSet), \A k \in 1 .. Len(chunks) : Introduced(chunks[k].parts, n)
    PROVE  /\ SinkRun(cl, n, G, Flow!EmitAll(cl, s, chunks))
           /\ \A k \in 1 .. Len(chunks) : Brings(cl, chunks[k], G \o Flow!EmitAll(cl, s, chunks).out)
<1> DEFINE last == Len(chunks)
<1>1. last \in Nat /\ G \in Seq(FrameSet) /\ \A k \in 1 .. last : Says(chunks[k], n)
  <2>1. last \in Nat /\ \A k \in 1 .. last : chunks[k] \in ChunkSet
    <3> HIDE DEF ChunkSet
    <3> QED OBVIOUS
  <2> QED BY <2>1 DEF SinkOk, Says
<1>2. PICK said : EmitsInTurn(said, cl, n, G, s, chunks) /\ Flow!EmitAll(cl, s, chunks) = said[last]
  BY EmitAllRuns
<1>3. /\ \A i \in 1 .. last : said[i] = Flow!EmitNext(cl, said[i - 1], chunks[i])
      /\ \A i \in 0 .. last : SinkRun(cl, n, G, said[i])
  <2> HIDE DEF SinkRun
  <2> QED BY <1>2 DEF EmitsInTurn
<1> HIDE DEF last
<1> DEFINE Done(i) == \A k \in 1 .. i : Brings(cl, chunks[k], G \o said[i].out)
           R == {i \in 0 .. last : Done(i)}
<1>4. 0 \in R
  BY <1>1
<1>5. ASSUME NEW i \in 1 .. last, i - 1 \in R PROVE i \in R
  <2> DEFINE old == said[i - 1]
             new == said[i]
  <2>1. SinkRun(cl, n, G, old) /\ new = Flow!EmitNext(cl, old, chunks[i]) /\ Says(chunks[i], n)
    <3>1. i - 1 \in 0 .. last
      BY <1>1
    <3> HIDE DEF SinkRun, Says
    <3> QED BY <1>1, <1>3, <3>1
  <2>2. \A k \in 1 .. i - 1 : Brings(cl, chunks[k], G \o old.out)
    BY <1>5
  <2> HIDE DEF old, new, SinkRun, Says, Announced
  <2>3. /\ Brings(cl, chunks[i], G \o new.out)
        /\ \A x, o : Announced(G \o old.out, x, o) => Announced(G \o new.out, x, o)
    BY <1>1, <2>1, EmitNextIs
  <2>4. ASSUME NEW k \in 1 .. i PROVE Brings(cl, chunks[k], G \o new.out)
    <3>1. CASE k = i
      BY <2>3, <3>1
    <3>2. CASE k # i
      <4>1. k \in 1 .. i - 1
        BY <1>1, <3>2
      <4>2. Brings(cl, chunks[k], G \o old.out)
        BY <2>2, <4>1
      <4> QED BY <2>3, <4>2 DEF Brings
    <3> QED BY <3>1, <3>2
  <2>5. Done(i)
    BY <2>4 DEF new
  <2> HIDE DEF Done
  <2> QED BY <1>1, <2>5
<1>6. Done(last)
  <2> HIDE DEF R, Done
  <2>1. \A i \in 0 .. last : i \in R
    BY <1>1, <1>4, <1>5, LoopKeeps
  <2> QED BY <1>1, <2>1 DEF R
<1>7. SinkRun(cl, n, G, said[last])
  BY <1>1, <1>3
<1> HIDE DEF SinkRun, Brings
<1> QED BY <1>2, <1>6, <1>7 DEF last

-----------------------------------------------------------------------------
(* The stream: the invariant that carries the promise.                     *)

(* The inductive invariant of the stream: the translator of the upstream   *)
(* has an entry for each call, the one of the client announced each.       *)
FlowInv ==
    /\ formats \in [from : Flow!Dialects, to : Flow!Clients]
    /\ Keyed(formats.from, env, source)
    /\ SinkOk(formats.to, env.calls, sink, frames)
    /\ stage = "idle" => env = Flow!NewEnv /\ source = Flow!NewSource /\ frames = <<>>

(* A new stream has it.                                                    *)
LEMMA FlowStarts ==
    /\ \A from \in Flow!Dialects : Keyed(from, Flow!NewEnv, Flow!NewSource)
    /\ Flow!NewEnv.calls = 0
    /\ \A to \in Flow!Clients : SinkOk(to, 0, Flow!NewSink(to), <<>>)
<1>1. ASSUME NEW from PROVE Keyed(from, Flow!NewEnv, Flow!NewSource)
  <2>1. Flow!NewEnv \in Upstreams /\ Flow!NewEnv.calls = 0 /\ Flow!NewEnv.open = "none"
    BY DEF Flow!NewEnv, Upstreams
  <2>2. Flow!NewSource \in Sources /\ Flow!NewSource.calls = <<>>
    BY DEF Flow!NewSource, Sources, Ends
  <2>3. Len(Flow!NewSource.calls) = 0
    BY <2>2
  <2> QED BY <2>1, <2>2, <2>3 DEF Keyed
<1>2. Flow!NewEnv.calls = 0
  BY DEF Flow!NewEnv
<1>3. <<>> \in Seq(FrameSet) /\ Reach(<<>>)
  <2>1. Reach(<<>>)
    BY DEF Reach
  <2> HIDE DEF FrameSet, Reach
  <2> QED BY <2>1
<1>4. ASSUME NEW to \in Flow!Clients PROVE SinkOk(to, 0, Flow!NewSink(to), <<>>)
  <2> DEFINE s == Flow!NewSink(to)
  <2>1. to = "claude" => ClaudeOk(s, <<>>)
    <3>1. ASSUME to = "claude" PROVE ClaudeOk(s, <<>>)
      <4>1. s = Flow!NewClaudeSink
        BY <3>1 DEF Flow!NewSink
      <4>2. Flow!NewClaudeSink \in ClaudeSinks /\ Flow!NewClaudeSink.tools = <<>>
        BY DEF Flow!NewClaudeSink, Flow!NoIndex, ClaudeSinks
      <4>3. Len(Flow!NewClaudeSink.tools) = 0
        BY <4>2
      <4> HIDE DEF Reach, s, FrameSet
      <4> QED BY <1>3, <4>1, <4>2, <4>3 DEF ClaudeOk
    <3> QED BY <3>1
  <2>2. to = "responses" => ResponsesOk(s, <<>>)
    <3>1. ASSUME to = "responses" PROVE ResponsesOk(s, <<>>)
      <4>1. s = Flow!NewResponsesSink
        BY <3>1 DEF Flow!NewSink
      <4>2. Flow!NewResponsesSink \in ResponsesSinks /\ Flow!NewResponsesSink.items = <<>>
        BY DEF Flow!NewResponsesSink, ResponsesSinks, Ends
      <4>3. Len(Flow!NewResponsesSink.items) = 0
        BY <4>2
      <4>4. \E n \in Nat : \A i \in 1 .. Len(Flow!NewResponsesSink.items) : Flow!Rank(Flow!NewResponsesSink.items[i]) <= n
        <5>1. \A i \in 1 .. Len(Flow!NewResponsesSink.items) : Flow!Rank(Flow!NewResponsesSink.items[i]) <= 0
          BY <4>3
        <5> QED BY <5>1
      <4>5. ItemsOf(Flow!NewResponsesSink, <<>>, <<>>)
        BY <4>3 DEF ItemsOf
      <4> HIDE DEF Reach, s, FrameSet
      <4> QED BY <1>3, <4>1, <4>2, <4>4, <4>5 DEF ResponsesOk
    <3> QED BY <3>1
  <2>3. to \in {"openai", "completions"} => s = <<>>
    BY DEF Flow!NewSink
  <2>4. s \in Sinks
    BY <2>1, <2>2, <2>3 DEF Flow!Clients, Sinks, ClaudeOk, ResponsesOk
  <2> HIDE DEF s, Reach, Announced
  <2>5. SinkOk(to, 0, s, <<>>)
    BY <1>3, <2>1, <2>2, <2>3, <2>4 DEF SinkOk
  <2> QED BY <2>5 DEF s
<1> QED BY <1>1, <1>2, <1>4

(* The number of events sent is none of the translators' concern.          *)
LEMMA KeyedSent ==
    ASSUME NEW from, NEW v, NEW s, Keyed(from, v, s), NEW n \in Nat
    PROVE  Keyed(from, [v EXCEPT !.sent = n], s) /\ [v EXCEPT !.sent = n].calls = v.calls
<1> DEFINE w == [v EXCEPT !.sent = n]
<1>1. v \in Upstreams
  BY DEF Keyed
<1>2. w \in Upstreams /\ w.calls = v.calls /\ w.open = v.open /\ w.block = v.block
  BY <1>1 DEF Upstreams
<1> HIDE DEF w
<1>3. Keyed(from, w, s) /\ w.calls = v.calls
  BY <1>2 DEF Keyed
<1> QED BY <1>3 DEF w

(* An upstream event keeps it.                                             *)
LEMMA TranslateKeeps ==
    ASSUME FlowInv, Flow!Translate
    PROVE  FlowInv'
<1> DEFINE from == formats.from
           to == formats.to
           n == env.calls
<1>1. PICK next \in Flow!Upstream :
        /\ env' = [next.env EXCEPT !.sent = env.sent + 1]
        /\ Flow!Reads(Flow!Chunks(from, source, next.event))
  BY DEF Flow!Translate
<1> DEFINE up == Flow!Chunks(from, source, next.event)
           r == Flow!EmitAll(to, sink, up.out)
           m == next.env.calls
<1>2. formats' = formats /\ stage' = "open" /\ from \in Flow!Dialects /\ to \in Flow!Clients
  BY DEF Flow!Translate, FlowInv
<1>3. source' = up.state /\ sink' = r.state /\ frames' = frames \o r.out
  BY <1>1 DEF Flow!Reads, Flow!Sends
<1>4. Keyed(from, env, source) /\ SinkOk(to, n, sink, frames)
  BY DEF FlowInv
<1>5. Keyed(from, next.env, up.state) /\ Streamed(up.out, n, m)
  <2>1. Follow(from, next, up)
    <3> HIDE DEF Keyed, Follow
    <3> QED BY <1>2, <1>4, ChunksFollow
  <2> QED BY <2>1 DEF Follow
<1>6. n \in Nat /\ env.sent \in Nat /\ m \in Nat
  <2>1. env \in Upstreams /\ next.env \in Upstreams
    BY <1>4, <1>5 DEF Keyed
  <2> QED BY <2>1, UpstreamsAre
<1> HIDE DEF up, Keyed, SinkOk
<1>7. Keyed(from, env', source') /\ env'.calls = m
  <2> DEFINE k == env.sent + 1
  <2>1. k \in Nat
    BY <1>6
  <2> HIDE DEF k
  <2>2. Keyed(from, [next.env EXCEPT !.sent = k], up.state) /\ [next.env EXCEPT !.sent = k].calls = m
    BY <1>5, <2>1, KeyedSent
  <2>3. env' = [next.env EXCEPT !.sent = k]
    BY <1>1 DEF k
  <2> QED BY <1>3, <2>2, <2>3
<1> HIDE DEF n, m
<1>8. up.out \in Seq(ChunkSet) /\ (\A c \in 1 .. Len(up.out) : Introduced(up.out[c].parts, n)) /\ Introduces(up.out, n, m)
  BY <1>5 DEF Streamed
<1>9. /\ SinkRun(to, n, frames, r)
      /\ \A k \in 1 .. Len(up.out) : Brings(to, up.out[k], frames \o r.out)
  <2> HIDE DEF to, Brings, SinkRun, Introduced, Introduces, ChunkSet
  <2> QED BY <1>2, <1>4, <1>6, <1>8, EmitAllIs DEF r
<1> HIDE DEF r
<1>10. SinkOk(to, n, sink', frames')
  BY <1>3, <1>9 DEF SinkRun
<1>11. ASSUME to = "openai", NEW k \in 0 .. m - 1 PROVE Announced(frames', k, k)
  <2>1. CASE k < n
    <3>1. k \in 0 .. n - 1
      BY <1>6, <2>1
    <3> HIDE DEF to, Announced
    <3> QED BY <1>10, <1>11, <3>1 DEF SinkOk
  <2>2. CASE \E c \in 1 .. Len(up.out) : \E j \in 1 .. Len(up.out[c].parts) :
               up.out[c].parts[j].kind = "call" /\ up.out[c].parts[j].index = k
    <3>1. PICK c \in 1 .. Len(up.out) : \E j \in 1 .. Len(up.out[c].parts) :
               up.out[c].parts[j].kind = "call" /\ up.out[c].parts[j].index = k
      BY <2>2
    <3>2. PICK j \in 1 .. Len(up.out[c].parts) :
               up.out[c].parts[j].kind = "call" /\ up.out[c].parts[j].index = k
      BY <3>1
    <3> HIDE DEF to, Announced
    <3> QED BY <1>3, <1>9, <1>11, <3>2 DEF Brings
  <2> QED BY <1>8, <2>1, <2>2 DEF Introduces
<1>12. SinkOk(to, m, sink', frames')
  <2> HIDE DEF to, Announced, Reach, FrameSet
  <2> QED BY <1>10, <1>11 DEF SinkOk
<1> HIDE DEF from, to
<1>13. from = formats'.from /\ to = formats'.to
  BY <1>2 DEF from, to
<1>14. Keyed(formats'.from, env', source') /\ SinkOk(formats'.to, env'.calls, sink', frames')
  BY <1>7, <1>12, <1>13
<1>15. formats' \in [from : Flow!Dialects, to : Flow!Clients]
  BY <1>2 DEF FlowInv
<1> QED BY <1>2, <1>14, <1>15 DEF FlowInv

(* The end of the stream keeps it.                                         *)
LEMMA EndKeeps ==
    ASSUME FlowInv, Flow!EndOfStream
    PROVE  FlowInv'
<1> DEFINE to == formats.to
           n == env.calls
           e == Flow!Estimate(to, sink)
           f == Flow!Finish(to, e.state)
           c == Flow!Chunk(<<>>, "none", TRUE)
<1>1. formats' = formats /\ env' = env /\ source' = source /\ stage' = "closed"
  BY DEF Flow!EndOfStream
<1>2. sink' = f.state /\ frames' = frames \o (e.out \o f.out)
  <2>1. sink' = Flow!Closed(to, e).state /\ frames' = frames \o Flow!Closed(to, e).out
    BY DEF Flow!EndOfStream, Flow!Sends
  <2> HIDE DEF e, to
  <2>2. Flow!Closed(to, e).state = f.state /\ Flow!Closed(to, e).out = e.out \o f.out
    BY DEF Flow!Closed, Flow!Then, Flow!Result
  <2> QED BY <2>1, <2>2
<1>3. to \in Flow!Clients /\ Keyed(formats.from, env, source) /\ SinkOk(to, n, sink, frames)
  BY DEF FlowInv
<1>4. n \in Nat
  BY <1>3, UpstreamsAre DEF Keyed
<1>5. Says(c, n)
  <2>1. c.parts = <<>> /\ c.finish = "none" /\ c.usage = TRUE /\ c = [parts |-> <<>>, finish |-> "none", usage |-> TRUE]
    BY DEF Flow!Chunk
  <2>2. <<>> \in Seq(PartSet) /\ Len(c.parts) = 0
    <3> HIDE DEF PartSet, c
    <3> QED BY <2>1
  <2>3. c \in ChunkSet
    <3> HIDE DEF PartSet, c
    <3> QED BY <2>1, <2>2 DEF ChunkSet, Ends
  <2>4. Introduced(c.parts, n)
    <3>1. 1 .. Len(c.parts) = {}
      <4> DEFINE z == Len(c.parts)
      <4>1. z = 0
        BY <2>2
      <4> HIDE DEF z
      <4>2. 1 .. z = {}
        BY <4>1
      <4> QED BY <4>2 DEF z
    <3> HIDE DEF c, n
    <3> QED BY <3>1 DEF Introduced
  <2> HIDE DEF c, n
  <2> QED BY <2>3, <2>4 DEF Says
<1> HIDE DEF c, n, to
<1>6. frames \in Seq(FrameSet)
  BY <1>3 DEF SinkOk
<1>7. SinkRun(to, n, frames, e)
  <2>1. SinkRun(to, n, frames, Flow!Emit(to, sink, c))
    <3> HIDE DEF SinkRun, SinkOk, Says, Brings
    <3> QED BY <1>3, <1>4, <1>5, EmitIs
  <2>2. SinkRun(to, n, frames, Flow!Result(sink, <<>>))
    <3>1. <<>> \in Seq(FrameSet) /\ frames \o <<>> = frames
      <4> HIDE DEF FrameSet
      <4> QED BY <1>6
    <3> HIDE DEF FrameSet, SinkOk
    <3> QED BY <1>3, <3>1 DEF SinkRun, Flow!Result
  <2>3. e \in {Flow!Emit(to, sink, c), Flow!Result(sink, <<>>)}
    BY DEF Flow!Estimate, c
  <2> HIDE DEF e, SinkRun
  <2> QED BY <2>1, <2>2, <2>3
<1> HIDE DEF e
<1> DEFINE H == frames \o e.out
           o == e.out
           w == f.out
<1>8. o \in Seq(FrameSet) /\ SinkOk(to, n, e.state, H)
  BY <1>7 DEF SinkRun
<1>9. w \in Seq(FrameSet) /\ SinkOk(to, n, f.state, H \o w)
  <2> HIDE DEF H
  <2>1. SinkRun(to, n, H, f)
    <3> HIDE DEF SinkRun, SinkOk
    <3> QED BY <1>3, <1>4, <1>8, FinishIs
  <2> QED BY <2>1 DEF SinkRun
<1> HIDE DEF f, w
<1>10. frames \o (o \o w) = H \o w
  <2> DEFINE g == frames
  <2>1. g \in Seq(FrameSet)
    BY <1>6
  <2> HIDE DEF o, g
  <2>2. g \o (o \o w) = (g \o o) \o w
    BY <1>8, <1>9, <2>1, FramesJoin, Zenon
  <2> QED BY <2>2 DEF g, o
<1>11. SinkOk(to, n, sink', frames')
  <2> HIDE DEF SinkOk
  <2> QED BY <1>2, <1>9, <1>10 DEF w
<1> HIDE DEF SinkOk, Keyed
<1> QED BY <1>1, <1>3, <1>11 DEF FlowInv, to, n

(* It is an invariant.                                                     *)
LEMMA FlowInvIs ==
    Flow!StreamSpec => []FlowInv
<1>1. Flow!StreamInit => FlowInv
  <2> SUFFICES ASSUME Flow!StreamInit PROVE FlowInv
    OBVIOUS
  <2>1. /\ formats = [from |-> "openai", to |-> "openai"] /\ env = Flow!NewEnv /\ source = Flow!NewSource
        /\ sink = Flow!NewSink("openai") /\ frames = <<>>
    BY DEF Flow!StreamInit
  <2>2. "openai" \in Flow!Dialects /\ "openai" \in Flow!Clients
    BY DEF Flow!Dialects, Flow!Clients
  <2> HIDE DEF Keyed, SinkOk
  <2>3. Keyed(formats.from, env, source) /\ SinkOk(formats.to, env.calls, sink, frames)
    BY <2>1, <2>2, FlowStarts
  <2> QED BY <2>1, <2>2, <2>3 DEF FlowInv
<1>2. ASSUME FlowInv, [Flow!StreamNext]_Flow!streamVars PROVE FlowInv'
  <2>1. CASE Flow!Connect
    <3>1. PICK from \in Flow!Dialects, to \in Flow!Clients :
            formats' = [from |-> from, to |-> to] /\ sink' = Flow!NewSink(to)
      BY <2>1 DEF Flow!Connect
    <3>2. env' = Flow!NewEnv /\ source' = Flow!NewSource /\ frames' = <<>> /\ stage' = "open"
      BY <1>2, <2>1 DEF Flow!Connect, FlowInv
    <3> HIDE DEF Keyed, SinkOk
    <3>3. Keyed(from, env', source') /\ SinkOk(to, env'.calls, sink', frames')
      BY <3>1, <3>2, FlowStarts
    <3>4. formats'.from = from /\ formats'.to = to /\ formats' \in [from : Flow!Dialects, to : Flow!Clients]
      BY <3>1
    <3> QED BY <3>2, <3>3, <3>4 DEF FlowInv
  <2>2. CASE Flow!Translate
    BY <1>2, <2>2, TranslateKeeps
  <2>3. CASE Flow!EndOfStream
    BY <1>2, <2>3, EndKeeps
  <2>4. CASE UNCHANGED Flow!streamVars
    <3> HIDE DEF Keyed, SinkOk
    <3> QED BY <1>2, <2>4 DEF FlowInv, Flow!streamVars
  <2> QED BY <1>2, <2>1, <2>2, <2>3, <2>4 DEF Flow!StreamNext
<1> QED BY <1>1, <1>2, PTL DEF Flow!StreamSpec

(* The arguments of a call reach the client under the block, item or index *)
(* its start announced, whatever the dialects and however calls interleave *)
(* (StreamTranslation, EmitAll, Finish).                                   *)
THEOREM ArgumentsReach == Flow!StreamSpec => []ArgumentsReachTheirCall
<1>1. FlowInv => ArgumentsReachTheirCall
  <2> SUFFICES ASSUME FlowInv,
                      NEW i \in DOMAIN frames,
                      frames[i].type \in {"args", "delta", "block_delta"}, frames[i].of # -1
               PROVE  \E j \in 1 .. i - 1 :
                         /\ frames[j].type \in {"call", "added", "block_start"}
                         /\ frames[j].index = frames[i].index
                         /\ frames[j].of = frames[i].of
    BY Zenon DEF ArgumentsReachTheirCall, Flow!ArgumentsReachTheirCall, Flow!NoIndex
  <2>1. frames \in Seq(FrameSet) /\ Reach(frames)
    BY DEF FlowInv, SinkOk
  <2>2. i \in 1 .. Len(frames) /\ Bears(frames[i])
    <3>1. DOMAIN frames = 1 .. Len(frames)
      <4> HIDE DEF FrameSet
      <4> QED BY <2>1
    <3> QED BY <3>1 DEF Bears
  <2> QED BY <2>1, <2>2 DEF Reach, Begins
<1> QED BY <1>1, FlowInvIs, PTL
=============================================================================
