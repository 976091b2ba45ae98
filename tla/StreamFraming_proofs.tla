------------------------- MODULE StreamFraming_proofs -------------------------
(***************************************************************************)
(* The framing of an answer's stream (StreamTranslation, FramesNest).      *)
(* Claude: while a message is open its blocks have each started, under an  *)
(* index of their own, and none has stopped; the end stops each of them    *)
(* once.  Responses: the items of an open stream are those its frames      *)
(* added, numbered in order; the end is done with each of them once.  The  *)
(* message ends once because the upstream's finish reason comes once and   *)
(* nothing but the usage follows it.                                       *)
(***************************************************************************)
EXTENDS StreamTranslation_proofs
-----------------------------------------------------------------------------
(* The blocks of a Claude message while it is open.                        *)

(* The places of the frames of a type.                                     *)
Places(G, type) == {i \in 1 .. Len(G) : G[i].type = type}

(* One frame of the type, and it comes first.                              *)
Headed(G, type) == \A i \in 1 .. Len(G) : (i = 1) <=> G[i].type = type

(* The blocks of the calls, and of everything said.                        *)
ToolBlocks(s) == {s.tools[i].block : i \in 1 .. Len(s.tools)}
BlocksOf(s) == ({s.reasoning, s.text} \ {-1}) \cup ToolBlocks(s)

(* Reasoning took block 0 a second time.                                   *)
Overlaps(s) == s.reasoning = 0 /\ 0 \in ToolBlocks(s)

(* The blocks are below the count, and apart.                              *)
Apart(s) ==
    /\ ~s.finished
    /\ (s.reasoningOpen <=> s.reasoning # -1) /\ (s.textOpen <=> s.text # -1)
    /\ \A b \in BlocksOf(s) : b \in Nat /\ b < s.count
    /\ ~Overlaps(s) => /\ s.reasoning # s.text \/ s.text = -1
                       /\ s.reasoning \notin ToolBlocks(s) /\ s.text \notin ToolBlocks(s)

(* The frames of an open message: every block started, no two under one    *)
(* index, and nothing stopped.                                             *)
Opened(s, G) ==
    /\ Headed(G, "message_start")
    /\ Places(G, "block_stop") = {} /\ Places(G, "message_stop") = {}
    /\ \A i \in Places(G, "block_start") : G[i].index \in BlocksOf(s)
    /\ \A b \in BlocksOf(s) : \E i \in Places(G, "block_start") : G[i].index = b
    /\ \A i \in Places(G, "block_delta") : \E j \in Places(G, "block_start") : j < i /\ G[j].index = G[i].index
    /\ ~Overlaps(s) => \A i, j \in Places(G, "block_start") : G[i].index = G[j].index => i = j

(* A frame more.                                                           *)
LEMMA OneFrame ==
    ASSUME NEW G \in Seq(FrameSet), NEW f \in FrameSet
    PROVE  /\ G \o <<f>> \in Seq(FrameSet) /\ Len(G) \in Nat /\ Len(G \o <<f>>) = Len(G) + 1
           /\ \A i \in 1 .. Len(G) : (G \o <<f>>)[i] = G[i]
           /\ (G \o <<f>>)[Len(G) + 1] = f
<1> HIDE DEF FrameSet
<1> QED OBVIOUS

(* What a step of the sink may be when it starts block b.                  *)
Starting(s, t, b) ==
    /\ BlocksOf(t) = BlocksOf(s) \cup {b}
    /\ Overlaps(s) => Overlaps(t)
    /\ b \in BlocksOf(s) => Overlaps(t)

(* A block that starts: its frame, and the state it leaves.                *)
LEMMA StartOpens ==
    ASSUME NEW G \in Seq(FrameSet), Len(G) > 0, NEW s, NEW t, NEW b, Opened(s, G), Starting(s, t, b),
           NEW S \in FrameSet, S.type = "block_start", S.index = b
    PROVE  Opened(t, G \o <<S>>)
<1> DEFINE F == G \o <<S>>
           n == Len(G)
<1>1. /\ F \in Seq(FrameSet) /\ n \in Nat /\ Len(F) = n + 1 /\ F[n + 1] = S
      /\ \A i \in 1 .. n : F[i] = G[i]
  BY OneFrame
<1> HIDE DEF F
<1>2. /\ Places(F, "block_start") = Places(G, "block_start") \cup {n + 1}
      /\ \A k \in {"block_stop", "message_stop", "block_delta"} : Places(F, k) = Places(G, k)
  BY <1>1 DEF Places
<1>3. \A k : \A i \in Places(G, k) : i \in 1 .. n /\ F[i] = G[i]
  BY <1>1 DEF Places
<1> DEFINE A == Places(G, "block_start")
           D == Places(G, "block_delta")
<1>4. /\ Headed(G, "message_start")
      /\ Places(G, "block_stop") = {} /\ Places(G, "message_stop") = {}
      /\ \A i \in A : G[i].index \in BlocksOf(s)
      /\ \A k \in BlocksOf(s) : \E i \in A : G[i].index = k
      /\ \A i \in D : \E j \in A : j < i /\ G[j].index = G[i].index
      /\ ~Overlaps(s) => \A i, j \in A : G[i].index = G[j].index => i = j
  BY DEF Opened
<1>5. BlocksOf(t) = BlocksOf(s) \cup {b} /\ (Overlaps(s) => Overlaps(t)) /\ (b \in BlocksOf(s) => Overlaps(t))
  BY DEF Starting
<1>6. Headed(F, "message_start")
  BY <1>1, <1>4 DEF Headed
<1>7. Places(F, "block_start") = A \cup {n + 1} /\ Places(F, "block_delta") = D
  BY <1>2
<1>8. \A i \in A \cup D : i \in 1 .. n /\ F[i] = G[i]
  BY <1>3
<1>9. Places(F, "block_stop") = {} /\ Places(F, "message_stop") = {}
  BY <1>2, <1>4
<1> HIDE DEF A, D, n, Overlaps, BlocksOf, Places
<1>10. \A i \in A \cup {n + 1} : F[i].index \in BlocksOf(t)
  BY <1>1, <1>4, <1>5, <1>8
<1>11. \A k \in BlocksOf(t) : \E i \in A \cup {n + 1} : F[i].index = k
  BY <1>1, <1>4, <1>5, <1>8
<1>12. \A i \in D : \E j \in A \cup {n + 1} : j < i /\ F[j].index = F[i].index
  BY <1>4, <1>8
<1>13. ~Overlaps(t) => \A i, j \in A \cup {n + 1} : F[i].index = F[j].index => i = j
  BY <1>1, <1>4, <1>5, <1>8
<1>14. Opened(t, F)
  BY <1>6, <1>7, <1>9, <1>10, <1>11, <1>12, <1>13 DEF Opened
<1> QED BY <1>14 DEF F

(* Something said in a block that has started.                             *)
LEMMA DeltaOpens ==
    ASSUME NEW G \in Seq(FrameSet), Len(G) > 0, NEW s, Opened(s, G),
           NEW P \in FrameSet, P.type = "block_delta", P.index \in BlocksOf(s)
    PROVE  Opened(s, G \o <<P>>)
<1> DEFINE F == G \o <<P>>
           n == Len(G)
<1>1. /\ F \in Seq(FrameSet) /\ n \in Nat /\ Len(F) = n + 1 /\ F[n + 1] = P
      /\ \A i \in 1 .. n : F[i] = G[i]
  BY OneFrame
<1> HIDE DEF F
<1>2. /\ Places(F, "block_delta") = Places(G, "block_delta") \cup {n + 1}
      /\ \A k \in {"block_stop", "message_stop", "block_start"} : Places(F, k) = Places(G, k)
  BY <1>1 DEF Places
<1> DEFINE A == Places(G, "block_start")
           D == Places(G, "block_delta")
<1>3. \A i \in A \cup D : i \in 1 .. n /\ F[i] = G[i]
  BY <1>1 DEF Places
<1>4. /\ Headed(G, "message_start")
      /\ Places(G, "block_stop") = {} /\ Places(G, "message_stop") = {}
      /\ \A i \in A : G[i].index \in BlocksOf(s)
      /\ \A k \in BlocksOf(s) : \E i \in A : G[i].index = k
      /\ \A i \in D : \E j \in A : j < i /\ G[j].index = G[i].index
      /\ ~Overlaps(s) => \A i, j \in A : G[i].index = G[j].index => i = j
  BY DEF Opened
<1>5. Headed(F, "message_start")
  BY <1>1, <1>4 DEF Headed
<1>6. Places(F, "block_start") = A /\ Places(F, "block_delta") = D \cup {n + 1}
  BY <1>2
<1>7. Places(F, "block_stop") = {} /\ Places(F, "message_stop") = {}
  BY <1>2, <1>4
<1> HIDE DEF A, D, n, Overlaps, BlocksOf, Places
<1>8. \A i \in D \cup {n + 1} : \E j \in A : j < i /\ F[j].index = F[i].index
  <2>1. \E j \in A : j < n + 1 /\ F[j].index = F[n + 1].index
    <3>1. PICK j \in A : G[j].index = P.index
      BY <1>4
    <3> QED BY <1>1, <1>3, <3>1
  <2> QED BY <1>3, <1>4, <2>1
<1>9. /\ \A i \in A : F[i].index \in BlocksOf(s)
      /\ \A k \in BlocksOf(s) : \E i \in A : F[i].index = k
      /\ ~Overlaps(s) => \A i, j \in A : F[i].index = F[j].index => i = j
  BY <1>3, <1>4
<1>10. Opened(s, F)
  BY <1>5, <1>6, <1>7, <1>8, <1>9 DEF Opened
<1> QED BY <1>10 DEF F

(* The block a part speaks in: one of the sink, or the one it starts.      *)
Into(s, t, b) ==
    \/ t = s /\ b \in BlocksOf(s)
    \/ t # s /\ Starting(s, t, b) /\ Apart(t) /\ t.started = s.started

(* Text speaks in its own block.                                           *)
LEMMA TextInto ==
    ASSUME NEW s \in ClaudeSinks, Apart(s)
    PROVE  Into(s, Flow!OpenText(s), Flow!OpenText(s).text)
<1> DEFINE t == Flow!OpenText(s)
<1>1. CASE s.text # -1
  BY <1>1 DEF Flow!OpenText, Flow!NoIndex, Into, BlocksOf
<1>2. CASE s.text = -1
  <2> DEFINE x == s.count
             n == s.count + 1
  <2>1. x \in Nat /\ n = x + 1
    BY ClaudeSinksAre
  <2>2. t = [s EXCEPT !.text = x, !.textOpen = TRUE, !.count = n]
    BY <1>2 DEF Flow!OpenText, Flow!NoIndex
  <2>3. /\ t.text = x /\ t.textOpen = TRUE /\ t.count = n /\ t.tools = s.tools /\ t.reasoning = s.reasoning
        /\ t.reasoningOpen = s.reasoningOpen /\ t.finished = s.finished /\ t.started = s.started
    <3> HIDE DEF t, x, n
    <3> QED BY <2>2 DEF ClaudeSinks
  <2> HIDE DEF t, n
  <2>4. ToolBlocks(t) = ToolBlocks(s) /\ (Overlaps(t) <=> Overlaps(s))
    BY <2>3 DEF ToolBlocks, Overlaps
  <2>5. /\ ~s.finished /\ (s.reasoningOpen <=> s.reasoning # -1)
        /\ \A b \in BlocksOf(s) : b \in Nat /\ b < x
        /\ ~Overlaps(s) => s.reasoning \notin ToolBlocks(s)
    BY DEF Apart
  <2> HIDE DEF x, Overlaps
  <2>6. BlocksOf(t) = BlocksOf(s) \cup {x} /\ x \notin BlocksOf(s)
    <3>1. BlocksOf(t) = BlocksOf(s) \cup {x}
      BY <1>2, <2>1, <2>3, <2>4 DEF BlocksOf
    <3> QED BY <2>1, <2>5, <3>1
  <2>7. Starting(s, t, x)
    BY <2>4, <2>6 DEF Starting
  <2>8. Apart(t)
    <3>1. \A b \in BlocksOf(t) : b \in Nat /\ b < n
      BY <2>1, <2>5, <2>6
    <3>2. ~Overlaps(t) => /\ t.reasoning # t.text \/ t.text = -1
                          /\ t.reasoning \notin ToolBlocks(t) /\ t.text \notin ToolBlocks(t)
      <4>1. x \notin ToolBlocks(s) /\ (s.reasoning # x \/ x = -1)
        BY <2>1, <2>6 DEF BlocksOf
      <4> QED BY <2>3, <2>4, <2>5, <4>1
    <3> QED BY <2>1, <2>3, <2>5, <3>1, <3>2 DEF Apart
  <2>9. t # s
    BY <1>2, <2>1, <2>3
  <2> QED BY <2>3, <2>7, <2>8, <2>9 DEF Into, t
<1> QED BY <1>1, <1>2

(* Reasoning does, though it may have taken block 0 a second time.         *)
LEMMA ReasoningInto ==
    ASSUME NEW s \in ClaudeSinks, Apart(s)
    PROVE  Into(s, Flow!OpenReasoning(s), Flow!OpenReasoning(s).reasoning)
<1> DEFINE t == Flow!OpenReasoning(s)
<1>1. CASE s.reasoning # -1
  BY <1>1 DEF Flow!OpenReasoning, Flow!NoIndex, Into, BlocksOf
<1>2. CASE s.reasoning = -1
  <2> DEFINE x == IF s.text # -1 THEN Flow!AtLeastOne(s.count) ELSE 0
             n == IF s.text # -1 THEN x + 1 ELSE Flow!AtLeastOne(s.count)
  <2>1. /\ ~s.finished /\ (s.textOpen <=> s.text # -1)
        /\ \A b \in BlocksOf(s) : b \in Nat /\ b < s.count
        /\ ~Overlaps(s) => s.text \notin ToolBlocks(s)
    BY DEF Apart
  <2>2. s.text # -1 => s.text \in BlocksOf(s)
    BY DEF BlocksOf
  <2>3. /\ x \in Nat /\ n \in Nat /\ x < n /\ s.count <= n
        /\ s.text # -1 => x = s.count
        /\ s.text = -1 => x = 0
    <3>1. s.count \in Nat /\ (s.text # -1 => s.text \in Nat /\ s.text < s.count)
      BY <2>1, <2>2, ClaudeSinksAre
    <3> QED BY <3>1 DEF Flow!AtLeastOne
  <2>4. t = [s EXCEPT !.reasoning = x, !.reasoningOpen = TRUE, !.count = n]
    BY <1>2 DEF Flow!OpenReasoning, Flow!NoIndex
  <2> HIDE DEF t, x, n
  <2>5. /\ t.reasoning = x /\ t.reasoningOpen = TRUE /\ t.count = n /\ t.tools = s.tools /\ t.text = s.text
        /\ t.textOpen = s.textOpen /\ t.finished = s.finished /\ t.started = s.started
    BY <2>4 DEF ClaudeSinks
  <2>6. ToolBlocks(t) = ToolBlocks(s) /\ ~Overlaps(s)
    BY <1>2, <2>5 DEF ToolBlocks, Overlaps
  <2>7. BlocksOf(t) = BlocksOf(s) \cup {x}
    BY <1>2, <2>3, <2>5, <2>6 DEF BlocksOf
  <2>8. x \in BlocksOf(s) => Overlaps(t)
    <3>1. CASE s.text # -1
      <4>1. s.count \in Nat
        BY ClaudeSinksAre
      <4> QED BY <2>1, <2>3, <3>1, <4>1
    <3>2. CASE s.text = -1
      BY <1>2, <2>3, <2>5, <2>6, <3>2 DEF BlocksOf, Overlaps
    <3> QED BY <3>1, <3>2
  <2> HIDE DEF Overlaps
  <2>9. Starting(s, t, x)
    BY <2>6, <2>7, <2>8 DEF Starting
  <2>10. Apart(t)
    <3>1. \A b \in BlocksOf(t) : b \in Nat /\ b < n
      <4>1. s.count \in Nat
        BY ClaudeSinksAre
      <4> QED BY <2>1, <2>3, <2>7, <4>1
    <3>2. ~Overlaps(t) => /\ t.reasoning # t.text \/ t.text = -1
                          /\ t.reasoning \notin ToolBlocks(t) /\ t.text \notin ToolBlocks(t)
      <4>1. x \notin BlocksOf(s) => x \notin ToolBlocks(s) /\ (x # s.text \/ s.text = -1)
        BY DEF BlocksOf
      <4> QED BY <2>1, <2>5, <2>6, <2>8, <4>1
    <3>3. (t.reasoningOpen <=> t.reasoning # -1)
      BY <2>3, <2>5
    <3> QED BY <2>1, <2>5, <3>1, <3>2, <3>3 DEF Apart
  <2>11. t # s
    BY <1>2, <2>3, <2>5
  <2> QED BY <2>5, <2>9, <2>10, <2>11 DEF Into, t
<1> QED BY <1>1, <1>2

(* A call does.                                                            *)
LEMMA ToolInto ==
    ASSUME NEW s \in ClaudeSinks, Apart(s), NEW call \in Nat
    PROVE  Into(s, Flow!OpenTool(s, call), Flow!BlockOf(Flow!OpenTool(s, call), call))
<1> DEFINE t == Flow!OpenTool(s, call)
<1>1. CASE Flow!BlockOf(s, call) # -1
  <2>1. t = s
    BY <1>1 DEF Flow!OpenTool, Flow!NoIndex
  <2>2. \E i \in 1 .. Len(s.tools) : s.tools[i].block = Flow!BlockOf(s, call)
    BY <1>1, BlockIs
  <2>3. Flow!BlockOf(s, call) \in BlocksOf(s)
    BY <2>2 DEF BlocksOf, ToolBlocks
  <2> QED BY <2>1, <2>3 DEF Into
<1>2. CASE Flow!BlockOf(s, call) = -1
  <2> DEFINE b == IF s.text # -1 THEN Flow!AtLeastOne(s.count) ELSE s.count
             n == b + 1
             pair == [call |-> call, block |-> b]
  <2>1. /\ ~s.finished /\ (s.textOpen <=> s.text # -1) /\ (s.reasoningOpen <=> s.reasoning # -1)
        /\ \A k \in BlocksOf(s) : k \in Nat /\ k < s.count
        /\ ~Overlaps(s) => /\ s.reasoning # s.text \/ s.text = -1
                           /\ s.reasoning \notin ToolBlocks(s) /\ s.text \notin ToolBlocks(s)
    BY DEF Apart
  <2>2. s.text # -1 => s.text \in BlocksOf(s)
    BY DEF BlocksOf
  <2>3. b = s.count /\ b \in Nat /\ n = b + 1
    <3>1. s.count \in Nat /\ (s.text # -1 => s.text \in Nat /\ s.text < s.count)
      BY <2>1, <2>2, ClaudeSinksAre
    <3> QED BY <3>1 DEF Flow!AtLeastOne
  <2>4. t = [s EXCEPT !.tools = Append(s.tools, pair), !.count = n]
    BY <1>2, Zenon DEF Flow!OpenTool, Flow!NoIndex
  <2> HIDE DEF n
  <2>5. /\ t.tools = Append(s.tools, pair) /\ t.count = n /\ t.text = s.text /\ t.reasoning = s.reasoning
        /\ t.textOpen = s.textOpen /\ t.reasoningOpen = s.reasoningOpen /\ t.finished = s.finished /\ t.started = s.started
    <3> HIDE DEF t, pair
    <3> QED BY <2>4 DEF ClaudeSinks
  <2>6. pair \in Pairs /\ pair.call = call /\ pair.block = b
    BY <2>3 DEF Pairs
  <2> HIDE DEF b, pair, Pairs
  <2>7. /\ Len(s.tools) \in Nat /\ Len(t.tools) = Len(s.tools) + 1 /\ t.tools[Len(s.tools) + 1] = pair
        /\ \A i \in 1 .. Len(s.tools) : t.tools[i] = s.tools[i]
    <3>1. s.tools \in Seq(Pairs)
      BY ClaudeSinksAre
    <3> HIDE DEF t
    <3> QED BY <2>5, <2>6, <3>1
  <2>8. Flow!BlockOf(t, call) = b
    <3>1. t \in ClaudeSinks /\ Flow!BlockOf(t, call) # -1 /\ t # s
      <4>1. \/ t = s /\ Flow!BlockOf(s, call) # -1
            \/ \E k \in Nat : t \in ClaudeSinks /\ Flow!BlockOf(t, call) = k /\ t # s
        BY OpenedTool
      <4> QED BY <1>2, <4>1
    <3> HIDE DEF t
    <3>2. PICK i \in 1 .. Len(t.tools) : t.tools[i].call = call /\ t.tools[i].block = Flow!BlockOf(t, call)
      BY <3>1, BlockIs
    <3>3. \A k \in 1 .. Len(s.tools) : s.tools[k].call # call
      <4>1. \A k \in 1 .. Len(s.tools) : s.tools[k].block # -1
        BY ClaudeSinksAre
      <4> QED BY <1>2, <4>1, BlockIs
    <3>4. i = Len(s.tools) + 1
      BY <2>7, <3>2, <3>3
    <3> QED BY <2>6, <2>7, <3>2, <3>4
  <2> HIDE DEF t
  <2>9. ToolBlocks(t) = ToolBlocks(s) \cup {b}
    <3>1. \A i \in 1 .. Len(t.tools) : i \in 1 .. Len(s.tools) \/ i = Len(s.tools) + 1
      BY <2>7
    <3>2. \A i \in 1 .. Len(s.tools) : i \in 1 .. Len(t.tools)
      BY <2>7
    <3>3. Len(s.tools) + 1 \in 1 .. Len(t.tools)
      BY <2>7
    <3> QED BY <2>6, <2>7, <3>1, <3>2, <3>3 DEF ToolBlocks
  <2>10. BlocksOf(t) = BlocksOf(s) \cup {b} /\ b \notin BlocksOf(s)
    <3>1. BlocksOf(t) = BlocksOf(s) \cup {b}
      BY <2>5, <2>9 DEF BlocksOf
    <3> QED BY <2>1, <2>3, <3>1
  <2>11. Overlaps(s) => Overlaps(t)
    BY <2>5, <2>9 DEF Overlaps
  <2>12. Starting(s, t, b)
    BY <2>10, <2>11 DEF Starting
  <2>13. Apart(t)
    <3>1. \A k \in BlocksOf(t) : k \in Nat /\ k < n
      BY <2>1, <2>3, <2>10
    <3>2. ~Overlaps(t) => /\ t.reasoning # t.text \/ t.text = -1
                          /\ t.reasoning \notin ToolBlocks(t) /\ t.text \notin ToolBlocks(t)
      <4>1. b # s.text /\ b # s.reasoning
        BY <2>3, <2>10 DEF BlocksOf
      <4> QED BY <2>1, <2>5, <2>9, <2>11, <4>1
    <3> HIDE DEF Overlaps
    <3> QED BY <2>1, <2>5, <3>1, <3>2 DEF Apart
  <2>14. t # s
    BY <2>7
  <2> QED BY <2>5, <2>8, <2>12, <2>13, <2>14 DEF Into, t
<1> QED BY <1>1, <1>2

(* A part of a delta: the start of its block, when it has none, and what   *)
(* is said in it.                                                          *)
Spoken(H, s, t, slot, S, P, b) ==
    (H \o (IF t # s THEN <<S>> ELSE <<>>)) \o (IF b THEN <<P>> ELSE <<>>)

(* A part that may be said in a message.                                   *)
Voices(H, s, t, slot, S, P, b) ==
    /\ H \in Seq(FrameSet) /\ Len(H) > 0 /\ Opened(s, H) /\ Apart(s) /\ Into(s, t, slot)
    /\ S \in FrameSet /\ S.type = "block_start" /\ S.index = slot
    /\ P \in FrameSet /\ P.type = "block_delta" /\ P.index = slot /\ b \in BOOLEAN

(* A message hears it and stays open.                                      *)
LEMMA Speaks ==
    ASSUME NEW H, NEW s, NEW t, NEW slot, NEW S, NEW P, NEW b, Voices(H, s, t, slot, S, P, b)
    PROVE  /\ Opened(t, Spoken(H, s, t, slot, S, P, b)) /\ Apart(t) /\ t.started = s.started
           /\ Len(Spoken(H, s, t, slot, S, P, b)) > 0
<1> DEFINE F == H \o (IF t # s THEN <<S>> ELSE <<>>)
           E == F \o (IF b THEN <<P>> ELSE <<>>)
<1>0. /\ H \in Seq(FrameSet) /\ Len(H) > 0 /\ Opened(s, H) /\ Apart(s) /\ Into(s, t, slot)
      /\ S \in FrameSet /\ S.type = "block_start" /\ S.index = slot
      /\ P \in FrameSet /\ P.type = "block_delta" /\ P.index = slot /\ b \in BOOLEAN
  BY DEF Voices
<1>1. slot \in BlocksOf(t) /\ Apart(t) /\ t.started = s.started
  BY <1>0 DEF Into, Starting
<1>2. F \in Seq(FrameSet) /\ Len(F) > 0 /\ Opened(t, F)
  <2>1. CASE t = s
    <3>1. F = H
      <4> HIDE DEF FrameSet
      <4> QED BY <1>0, <2>1
    <3> QED BY <1>0, <2>1, <3>1
  <2>2. CASE t # s
    <3>1. F = H \o <<S>> /\ Starting(s, t, slot)
      BY <1>0, <2>2 DEF Into
    <3> HIDE DEF F
    <3>2. Opened(t, F)
      BY <1>0, <3>1, StartOpens
    <3>3. F \in Seq(FrameSet) /\ Len(F) > 0
      BY <1>0, <3>1, OneFrame
    <3> QED BY <3>2, <3>3
  <2> QED BY <2>1, <2>2
<1> HIDE DEF F
<1>3. Len(E) > 0 /\ Opened(t, E)
  <2>1. CASE ~b
    <3>1. E = F
      <4> HIDE DEF FrameSet
      <4> QED BY <1>2, <2>1
    <3> QED BY <1>2, <3>1
  <2>2. CASE b
    <3>1. E = F \o <<P>>
      BY <2>2
    <3> HIDE DEF E
    <3>2. Opened(t, E)
      BY <1>0, <1>1, <1>2, <3>1, DeltaOpens
    <3>3. Len(E) > 0
      BY <1>0, <1>2, <3>1, OneFrame
    <3> QED BY <3>2, <3>3
  <2> QED BY <1>0, <2>1, <2>2
<1>4. E = Spoken(H, s, t, slot, S, P, b)
  BY DEF Spoken, F
<1> HIDE DEF E
<1> QED BY <1>1, <1>3, <1>4

(* A Claude message that is open.                                          *)
InMessage(s, G) == ClaudeOk(s, G) /\ s.started /\ Len(G) > 0 /\ Apart(s) /\ Opened(s, G)

(* A result that keeps it open.                                            *)
MessageRun(G, r) == r.out \in Seq(FrameSet) /\ InMessage(r.state, G \o r.out)

(* A part of a delta does (OpenaiToClaudeStream::translate_chunk).         *)
LEMMA PartOpens ==
    ASSUME NEW G \in Seq(FrameSet), NEW r, MessageRun(G, r), NEW p \in PartSet
    PROVE  MessageRun(G, Flow!ClaudePart(r, p))
<1> DEFINE s == r.state
           o == r.out
           H == G \o o
           q == Flow!ClaudePart(r, p)
           t == CASE p.kind = "reasoning" -> Flow!OpenReasoning(s)
                  [] p.kind = "text" -> Flow!OpenText(s)
                  [] OTHER -> Flow!OpenTool(s, p.index)
           slot == CASE p.kind = "reasoning" -> t.reasoning
                     [] p.kind = "text" -> t.text
                     [] OTHER -> Flow!BlockOf(t, p.index)
           S == Flow!Frame("block_start", slot, p.of)
           P == Flow!Frame("block_delta", slot, p.of)
           b == p.kind # "call"
           A == IF t # s THEN <<S>> ELSE <<>>
           B == IF b THEN <<P>> ELSE <<>>
<1>1. ClaudeRun(G, r) /\ o \in Seq(FrameSet) /\ H \in Seq(FrameSet) /\ s \in ClaudeSinks
  BY DEF MessageRun, InMessage, ClaudeRun, ClaudeOk
<1>2. s.started /\ Len(H) > 0 /\ Apart(s) /\ Opened(s, H)
  BY DEF MessageRun, InMessage
<1>3. ClaudeRun(G, q)
  BY <1>1, ClaudePartKeeps
<1>4. q.state = t /\ q.out = (o \o A) \o B
  <2>1. q = Flow!Result(t, (r.out \o (IF t = s THEN <<>> ELSE <<S>>)) \o (IF p.kind = "call" THEN <<>> ELSE <<P>>))
    BY Zenon DEF Flow!ClaudePart
  <2> HIDE DEF t, slot, S, P, q
  <2>2. q.state = t /\ q.out = (o \o (IF t = s THEN <<>> ELSE <<S>>)) \o (IF p.kind = "call" THEN <<>> ELSE <<P>>)
    BY <2>1 DEF Flow!Result
  <2> QED BY <2>2
<1>5. /\ p.kind \in {"text", "reasoning", "call", "args"} /\ p.of \in Int
      /\ p.kind \in {"call", "args"} => p.index \in Nat
  BY DEF PartSet
<1>6. Into(s, t, slot)
  <2> HIDE DEF s
  <2>1. ASSUME p.kind = "reasoning" PROVE Into(s, t, slot)
    BY <1>1, <1>2, <2>1, ReasoningInto
  <2>2. ASSUME p.kind = "text" PROVE Into(s, t, slot)
    BY <1>1, <1>2, <2>2, TextInto
  <2>3. ASSUME p.kind \in {"call", "args"} PROVE Into(s, t, slot)
    <3>1. t = Flow!OpenTool(s, p.index) /\ slot = Flow!BlockOf(t, p.index) /\ p.index \in Nat
      BY <1>5, <2>3
    <3> HIDE DEF t, slot
    <3> QED BY <1>1, <1>2, <3>1, ToolInto
  <2> QED BY <1>5, <2>1, <2>2, <2>3
<1>7. slot \in Int
  <2> HIDE DEF t, slot, s, BlocksOf, Overlaps
  <2>1. \/ slot \in BlocksOf(s)
        \/ slot \in BlocksOf(t) /\ Apart(t)
    BY <1>6 DEF Into, Starting
  <2>2. slot \in Nat
    BY <1>2, <2>1 DEF Apart
  <2> QED BY <2>2
<1>8. /\ S \in FrameSet /\ S.type = "block_start" /\ S.index = slot
      /\ P \in FrameSet /\ P.type = "block_delta" /\ P.index = slot
  <2>1. "block_start" \in FrameTypes /\ "block_delta" \in FrameTypes
    BY DEF FrameTypes
  <2> HIDE DEF slot
  <2> QED BY <1>5, <1>7, <2>1, FrameIs
<1> HIDE DEF t, slot, S, P, q, FrameSet
<1>9. G \o q.out = Spoken(H, s, t, slot, S, P, b)
  <2>1. A \in Seq(FrameSet) /\ B \in Seq(FrameSet)
    BY <1>8
  <2> HIDE DEF A, B, o
  <2>2. o \o A \in Seq(FrameSet)
    BY <1>1, <2>1, FramesFollow
  <2>3. G \o ((o \o A) \o B) = (G \o (o \o A)) \o B
    BY <1>1, <2>1, <2>2, FramesJoin, Zenon
  <2>4. G \o (o \o A) = (G \o o) \o A
    BY <1>1, <2>1, FramesJoin, Zenon
  <2>5. G \o q.out = (H \o A) \o B
    BY <1>4, <2>3, <2>4
  <2> QED BY <2>5, Zenon DEF A, B, Spoken
<1> HIDE DEF s, H, o
<1>10. /\ Opened(t, G \o q.out) /\ Apart(t) /\ t.started = s.started /\ Len(G \o q.out) > 0
  <2> HIDE DEF b
  <2>1. b \in BOOLEAN
    BY DEF b
  <2> HIDE DEF Opened, Apart, Into
  <2>2. Voices(H, s, t, slot, S, P, b)
    BY <1>1, <1>2, <1>6, <1>8, <2>1 DEF Voices
  <2>3. /\ Opened(t, Spoken(H, s, t, slot, S, P, b)) /\ Apart(t) /\ t.started = s.started
        /\ Len(Spoken(H, s, t, slot, S, P, b)) > 0
    BY <2>2, Speaks
  <2> HIDE DEF Spoken
  <2> QED BY <1>9, <2>3
<1>11. MessageRun(G, q)
  <2> HIDE DEF Opened, Apart
  <2> QED BY <1>2, <1>3, <1>4, <1>10 DEF MessageRun, InMessage, ClaudeRun
<1> QED BY <1>11 DEF q

(* A message that has not begun.                                           *)
Fresh(s, G) ==
    ClaudeOk(s, G) /\ ~s.started /\ G = <<>> /\ Apart(s) /\ BlocksOf(s) = {}

(* Its beginning opens it.                                                 *)
LEMMA StartSpeaks ==
    ASSUME NEW G, NEW s, Fresh(s, G) \/ InMessage(s, G)
    PROVE  MessageRun(G, Flow!StartClaude(s))
<1> DEFINE q == Flow!StartClaude(s)
           S == Flow!Frame("message_start", -1, -1)
           P == Flow!Frame("ping", -1, -1)
<1>1. ClaudeRun(G, q) /\ s \in ClaudeSinks /\ G \in Seq(FrameSet)
  <2>1. ClaudeOk(s, G)
    BY DEF Fresh, InMessage
  <2> HIDE DEF ClaudeRun
  <2> QED BY <2>1, ClaudeStarts DEF ClaudeOk
<1>2. q.state = [s EXCEPT !.started = TRUE] /\ q.out = IF s.started THEN <<>> ELSE <<S, P>>
  BY DEF Flow!StartClaude, Flow!Result, Flow!NoIndex
<1>3. /\ q.state.started = TRUE /\ q.state.finished = s.finished /\ q.state.reasoning = s.reasoning /\ q.state.text = s.text
      /\ q.state.tools = s.tools /\ q.state.count = s.count
      /\ q.state.reasoningOpen = s.reasoningOpen /\ q.state.textOpen = s.textOpen
  <2> HIDE DEF q
  <2> QED BY <1>1, <1>2 DEF ClaudeSinks
<1> HIDE DEF q
<1>4. /\ Apart(s) => Apart(q.state)
      /\ BlocksOf(q.state) = BlocksOf(s) /\ (Overlaps(q.state) <=> Overlaps(s))
  BY <1>3 DEF Apart, BlocksOf, ToolBlocks, Overlaps
<1>5. CASE Fresh(s, G)
  <2> DEFINE F == <<S, P>>
  <2>1. S.type = "message_start" /\ P.type = "ping"
    BY DEF Flow!Frame
  <2>2. q.out = F /\ G \o q.out = F
    <3>1. q.out = F /\ G = <<>>
      BY <1>2, <1>5 DEF Fresh
    <3> HIDE DEF S, P, FrameSet
    <3> QED BY <3>1
  <2> HIDE DEF S, P
  <2>3. Len(F) = 2 /\ F[1] = S /\ F[2] = P
    OBVIOUS
  <2> HIDE DEF F
  <2>4. Headed(F, "message_start") /\ \A k \in {"block_start", "block_delta", "block_stop", "message_stop"} : Places(F, k) = {}
    BY <2>1, <2>3 DEF Headed, Places
  <2>5. Opened(q.state, F)
    <3>1. BlocksOf(q.state) = {}
      BY <1>4, <1>5 DEF Fresh
    <3> HIDE DEF Headed, Places, BlocksOf, Overlaps
    <3> QED BY <2>4, <3>1 DEF Opened
  <2>6. Apart(q.state)
    BY <1>4, <1>5 DEF Fresh
  <2> HIDE DEF Opened, Apart
  <2> QED BY <1>1, <1>3, <2>2, <2>3, <2>5, <2>6 DEF MessageRun, InMessage, ClaudeRun, q
<1>6. CASE InMessage(s, G)
  <2>1. q.out = <<>> /\ G \o q.out = G
    <3>1. q.out = <<>>
      BY <1>2, <1>6 DEF InMessage
    <3> HIDE DEF FrameSet
    <3> QED BY <1>1, <3>1
  <2>2. Opened(q.state, G) /\ Apart(q.state) /\ Len(G) > 0
    <3>1. Opened(s, G) /\ Apart(s) /\ Len(G) > 0
      BY <1>6 DEF InMessage
    <3> HIDE DEF Headed, Places, BlocksOf, Overlaps
    <3> QED BY <1>4, <3>1 DEF Opened
  <2> HIDE DEF Opened, Apart
  <2> QED BY <1>1, <1>3, <2>1, <2>2 DEF MessageRun, InMessage, ClaudeRun, q
<1> QED BY <1>5, <1>6

(* The parts of a chunk, one after the other.                              *)
LEMMA SaysOpens ==
    ASSUME NEW G, NEW s, Fresh(s, G) \/ InMessage(s, G), NEW parts \in Seq(PartSet)
    PROVE  MessageRun(G, Flow!ClaudeSays(s, parts))
<1> DEFINE n == Len(parts)
<1>1. n \in Nat /\ \A i \in 1 .. n : parts[i] \in PartSet
  <2> HIDE DEF PartSet
  <2> QED OBVIOUS
<1>2. ClaudeOk(s, G) /\ G \in Seq(FrameSet)
  BY DEF Fresh, InMessage, ClaudeOk
<1>3. PICK said : SaysInTurn(said, G, s, parts) /\ Flow!ClaudeSays(s, parts) = said[n]
  BY <1>2, ClaudeSaysIs
<1>4. said[0] = Flow!StartClaude(s) /\ \A i \in 1 .. n : said[i] = Flow!ClaudePart(said[i - 1], parts[i])
  BY <1>3 DEF SaysInTurn
<1> HIDE DEF n, Fresh, InMessage, MessageRun
<1> DEFINE Q == {i \in 0 .. n : MessageRun(G, said[i])}
<1>5. 0 \in Q
  BY <1>1, <1>4, StartSpeaks
<1>6. ASSUME NEW i \in 1 .. n, i - 1 \in Q PROVE i \in Q
  <2>1. MessageRun(G, said[i - 1])
    BY <1>6
  <2>2. MessageRun(G, Flow!ClaudePart(said[i - 1], parts[i]))
    BY <1>1, <1>2, <2>1, PartOpens
  <2> QED BY <1>1, <1>4, <2>2
<1>7. n \in Q
  <2> HIDE DEF Q
  <2>1. \A i \in 0 .. n : i \in Q
    BY <1>1, <1>5, <1>6, LoopKeeps
  <2> QED BY <1>1, <2>1
<1> QED BY <1>3, <1>7

-----------------------------------------------------------------------------
(* The end of a Claude message: every block stops once.                    *)

(* Two sets labelled alike, no label twice in either, have one size.       *)
Alike(A, Z, V, f, h) ==
    /\ f \in [A -> V] /\ h \in [Z -> V]
    /\ \A a, b \in A : f[a] = f[b] => a = b
    /\ \A y, z \in Z : h[y] = h[z] => y = z
    /\ \A a \in A : \E z \in Z : h[z] = f[a]
    /\ \A z \in Z : \E a \in A : h[z] = f[a]

(* Each is as large as the other.                                          *)
LEMMA SameSize ==
    ASSUME NEW A, IsFiniteSet(A), NEW Z, NEW V, NEW f, NEW h, Alike(A, Z, V, f, h)
    PROVE  Cardinality(Z) = Cardinality(A)
<1> DEFINE m == [a \in A |-> CHOOSE z \in Z : h[z] = f[a]]
<1>0. /\ f \in [A -> V] /\ h \in [Z -> V]
      /\ \A a, b \in A : f[a] = f[b] => a = b
      /\ \A y, z \in Z : h[y] = h[z] => y = z
      /\ \A a \in A : \E z \in Z : h[z] = f[a]
      /\ \A z \in Z : \E a \in A : h[z] = f[a]
  BY DEF Alike
<1>1. \A a \in A : m[a] \in Z /\ h[m[a]] = f[a]
  BY <1>0
<1>2. m \in [A -> Z]
  <2>1. \A a \in A : m[a] \in Z
    BY <1>1
  <2> QED BY <2>1
<1> HIDE DEF m
<1>3. \A a, b \in A : m[a] = m[b] => a = b
  BY <1>0, <1>1
<1>4. \A z \in Z : \E a \in A : m[a] = z
  BY <1>0, <1>1
<1>5. m \in Bijection(A, Z)
  BY <1>2, <1>3, <1>4 DEF Bijection, Injection, Surjection, IsInjective
<1>6. ExistsBijection(A, Z)
  BY <1>5 DEF ExistsBijection
<1> QED BY <1>6, FS_Bijection

(* Frames that stop the blocks of a set, each once.                        *)
Stops(E, S) ==
    /\ E \in Seq(FrameSet)
    /\ \A i \in 1 .. Len(E) : E[i].type = "block_stop" /\ E[i].index \in S
    /\ \A b \in S : \E i \in 1 .. Len(E) : E[i].index = b
    /\ \A i, j \in 1 .. Len(E) : E[i].index = E[j].index => i = j

(* Two runs of stops, of blocks apart.                                     *)
LEMMA StopsJoin ==
    ASSUME NEW S, NEW T, S \cap T = {}, NEW D, NEW E, Stops(D, S), Stops(E, T)
    PROVE  Stops(D \o E, S \cup T)
<1> DEFINE F == D \o E
           d == Len(D)
           e == Len(E)
<1>1. /\ D \in Seq(FrameSet) /\ E \in Seq(FrameSet)
      /\ \A i \in 1 .. d : D[i].type = "block_stop" /\ D[i].index \in S
      /\ \A b \in S : \E i \in 1 .. d : D[i].index = b
      /\ \A i, j \in 1 .. d : D[i].index = D[j].index => i = j
      /\ \A i \in 1 .. e : E[i].type = "block_stop" /\ E[i].index \in T
      /\ \A b \in T : \E i \in 1 .. e : E[i].index = b
      /\ \A i, j \in 1 .. e : E[i].index = E[j].index => i = j
  BY DEF Stops
<1>2. F \in Seq(FrameSet)
  BY <1>1, FramesFollow
<1>3. /\ d \in Nat /\ e \in Nat /\ Len(F) = d + e
      /\ \A i \in 1 .. d : F[i] = D[i]
      /\ \A i \in 1 .. e : F[d + i] = E[i]
  <2> HIDE DEF FrameSet
  <2> QED BY <1>1
<1> HIDE DEF F, d, e, FrameSet
<1>4. \A i \in 1 .. Len(F) : \/ i \in 1 .. d /\ F[i] = D[i]
                             \/ i - d \in 1 .. e /\ F[i] = E[i - d] /\ i = d + (i - d)
  BY <1>3
<1>5. \A i \in 1 .. d : i \in 1 .. Len(F)
  BY <1>3
<1>6. \A i \in 1 .. e : d + i \in 1 .. Len(F)
  BY <1>3
<1>7. \A i \in 1 .. Len(F) : F[i].type = "block_stop" /\ F[i].index \in S \cup T
  BY <1>1, <1>4
<1>8. \A b \in S \cup T : \E i \in 1 .. Len(F) : F[i].index = b
  BY <1>1, <1>3, <1>5, <1>6
<1>9. ASSUME NEW i \in 1 .. Len(F), NEW j \in 1 .. Len(F), F[i].index = F[j].index PROVE i = j
  <2>1. \/ i \in 1 .. d /\ F[i].index = D[i].index /\ F[i].index \in S
        \/ i - d \in 1 .. e /\ F[i].index = E[i - d].index /\ F[i].index \in T
    BY <1>1, <1>4
  <2>2. \/ j \in 1 .. d /\ F[j].index = D[j].index /\ F[j].index \in S
        \/ j - d \in 1 .. e /\ F[j].index = E[j - d].index /\ F[j].index \in T
    BY <1>1, <1>4
  <2>3. i - d = j - d => i = j
    BY <1>3
  <2> QED BY <1>1, <1>9, <2>1, <2>2, <2>3
<1>10. Stops(F, S \cup T)
  BY <1>2, <1>7, <1>8, <1>9 DEF Stops
<1> QED BY <1>10 DEF F

(* The stop of one block, if it is open.                                   *)
LEMMA StopsOne ==
    ASSUME NEW k \in Int, NEW open \in BOOLEAN, NEW E,
           E = IF open THEN <<Flow!Frame("block_stop", k, -1)>> ELSE <<>>
    PROVE  Stops(E, IF open THEN {k} ELSE {})
<1> DEFINE S == Flow!Frame("block_stop", k, -1)
<1>1. S \in FrameSet /\ S.type = "block_stop" /\ S.index = k
  <2>1. "block_stop" \in FrameTypes
    BY DEF FrameTypes
  <2> QED BY <2>1, FrameIs
<1> HIDE DEF S, FrameSet
<1>2. CASE open
  <2>1. E = <<S>>
    BY <1>2 DEF S
  <2>2. E \in Seq(FrameSet) /\ Len(E) = 1 /\ E[1] = S
    BY <1>1, <2>1
  <2>3. 1 .. Len(E) = {1}
    BY <2>2
  <2> QED BY <1>1, <1>2, <2>2, <2>3 DEF Stops
<1>3. CASE ~open
  <2>1. E \in Seq(FrameSet) /\ 1 .. Len(E) = {}
    BY <1>3
  <2> QED BY <1>3, <2>1 DEF Stops
<1> QED BY <1>2, <1>3

(* The blocks of a set of numbers, in ascending order.                     *)
LEMMA StopsAscending ==
    ASSUME NEW n \in Nat, NEW S \in SUBSET (0 .. n), NEW E,
           E = [i \in DOMAIN Flow!Ascending(S) |-> Flow!Frame("block_stop", Flow!Ascending(S)[i], -1)]
    PROVE  Stops(E, S)
<1> DEFINE l == Flow!Ascending(S)
           Stop(b) == Flow!Frame("block_stop", b, -1)
           k == Len(l)
<1>1. l \in Seq(S) /\ (\A i, j \in 1 .. k : l[i] = l[j] => i = j) /\ \A x \in S : \E i \in 1 .. k : l[i] = x
  BY AscendingIs DEF Lists
<1>2. E = [i \in DOMAIN l |-> Stop(l[i])]
  BY DEF l
<1>3. DOMAIN l = 1 .. k /\ k \in Nat /\ \A i \in 1 .. k : l[i] \in S /\ l[i] \in Int
  <2> HIDE DEF l
  <2>1. DOMAIN l = 1 .. k /\ k \in Nat /\ \A i \in 1 .. k : l[i] \in S
    BY <1>1
  <2>2. \A x \in S : x \in Int
    OBVIOUS
  <2> QED BY <2>1, <2>2
<1>4. \A b \in Int : Stop(b) \in FrameSet /\ Stop(b).type = "block_stop" /\ Stop(b).index = b
  <2>1. "block_stop" \in FrameTypes
    BY DEF FrameTypes
  <2> QED BY <2>1, FrameIs
<1> HIDE DEF l, k, Stop, FrameSet
<1>5. E \in Seq(FrameSet) /\ Len(E) = k /\ \A i \in 1 .. k : E[i] = Stop(l[i])
  BY <1>2, <1>3, <1>4
<1>6. \A i \in 1 .. k : E[i].type = "block_stop" /\ E[i].index = l[i]
  BY <1>3, <1>4, <1>5
<1>7. ASSUME NEW i \in 1 .. k, NEW j \in 1 .. k, E[i].index = E[j].index PROVE i = j
  <2>1. l[i] = l[j]
    BY <1>6, <1>7
  <2> QED BY <1>1, <2>1
<1>8. \A b \in S : \E i \in 1 .. k : E[i].index = b
  BY <1>1, <1>6
<1> QED BY <1>3, <1>5, <1>6, <1>7, <1>8 DEF Stops

(* close_blocks stops every block of an open message, and each once.       *)
LEMMA ClosedStops ==
    ASSUME NEW s \in ClaudeSinks, Apart(s), ~Overlaps(s)
    PROVE  Stops(Flow!ClosedBlocks(s), BlocksOf(s))
<1> DEFINE Stop(b) == Flow!Frame("block_stop", b, -1)
           thoughts == IF s.reasoning # -1 /\ s.reasoningOpen THEN <<Stop(s.reasoning)>> ELSE <<>>
           text == IF s.text # -1 /\ s.textOpen THEN <<Stop(s.text)>> ELSE <<>>
           S == {s.tools[i].block : i \in DOMAIN s.tools}
           blocks == Flow!Ascending(S)
           stops == [i \in DOMAIN blocks |-> Stop(blocks[i])]
           R == {s.reasoning} \ {-1}
           T == {s.text} \ {-1}
<1>1. Flow!ClosedBlocks(s) = (thoughts \o text) \o stops
  BY Zenon DEF Flow!ClosedBlocks, Flow!NoIndex
<1>2. /\ (s.reasoningOpen <=> s.reasoning # -1) /\ (s.textOpen <=> s.text # -1)
      /\ \A b \in BlocksOf(s) : b \in Nat /\ b < s.count
      /\ s.reasoning # s.text \/ s.text = -1
      /\ s.reasoning \notin ToolBlocks(s) /\ s.text \notin ToolBlocks(s)
  BY DEF Apart
<1>3. S = ToolBlocks(s)
  <2>1. DOMAIN s.tools = 1 .. Len(s.tools)
    BY ClaudeSinksAre
  <2> QED BY <2>1 DEF ToolBlocks
<1>4. S \in SUBSET (0 .. s.count) /\ s.count \in Nat
  <2>1. \A b \in S : b \in BlocksOf(s)
    BY <1>3 DEF BlocksOf
  <2>2. s.count \in Nat
    BY ClaudeSinksAre
  <2>3. \A b \in BlocksOf(s) : b \in 0 .. s.count
    BY <1>2, <2>2
  <2> QED BY <2>1, <2>2, <2>3
<1>5. s.reasoning \in Int /\ s.text \in Int
  BY ClaudeSinksAre
<1>6. Stops(thoughts, R)
  <2> DEFINE open == s.reasoning # -1
             D == IF open THEN {s.reasoning} ELSE {}
  <2>1. thoughts = IF open THEN <<Stop(s.reasoning)>> ELSE <<>>
    BY <1>2
  <2>2. R = D
    OBVIOUS
  <2>3. open \in BOOLEAN
    OBVIOUS
  <2> HIDE DEF open, thoughts, R
  <2>4. Stops(thoughts, D)
    BY <1>5, <2>1, <2>3, StopsOne
  <2> QED BY <2>2, <2>4
<1>7. Stops(text, T)
  <2> DEFINE open == s.text # -1
             D == IF open THEN {s.text} ELSE {}
  <2>1. text = IF open THEN <<Stop(s.text)>> ELSE <<>>
    BY <1>2
  <2>2. T = D
    OBVIOUS
  <2>3. open \in BOOLEAN
    OBVIOUS
  <2> HIDE DEF open, text, T
  <2>4. Stops(text, D)
    BY <1>5, <2>1, <2>3, StopsOne
  <2> QED BY <2>2, <2>4
<1>8. Stops(stops, S)
  <2> HIDE DEF S
  <2> QED BY <1>4, StopsAscending
<1>9. R \cap T = {} /\ (R \cup T) \cap S = {} /\ BlocksOf(s) = (R \cup T) \cup S
  BY <1>2, <1>3 DEF BlocksOf
<1> HIDE DEF thoughts, text, stops, R, T, S, Stops
<1>10. Stops(thoughts \o text, R \cup T)
  BY <1>6, <1>7, <1>9, StopsJoin
<1>11. Stops((thoughts \o text) \o stops, (R \cup T) \cup S)
  BY <1>8, <1>9, <1>10, StopsJoin
<1> QED BY <1>1, <1>9, <1>11

(* Where the frames of a concatenation are.                                *)
LEMMA TwoRuns ==
    ASSUME NEW F \in Seq(FrameSet), NEW E \in Seq(FrameSet)
    PROVE  /\ F \o E \in Seq(FrameSet) /\ Len(F) \in Nat /\ Len(E) \in Nat /\ Len(F \o E) = Len(F) + Len(E)
           /\ \A i \in 1 .. Len(F) : (F \o E)[i] = F[i]
           /\ \A i \in 1 .. Len(E) : (F \o E)[Len(F) + i] = E[i]
<1> HIDE DEF FrameSet
<1> QED OBVIOUS

(* The framing of a Claude message.                                        *)
Framed(G) ==
    /\ Headed(G, "message_start")
    /\ \A i \in Places(G, "block_delta") \cup Places(G, "block_stop") :
          /\ \E j \in Places(G, "block_start") : j < i /\ G[j].index = G[i].index
          /\ ~ \E j \in Places(G, "block_stop") : j < i /\ G[j].index = G[i].index
    /\ \A i, j \in Places(G, "block_start") : G[i].index = G[j].index => i = j
    /\ \A i \in Places(G, "message_stop") :
          i = Len(G) /\ Cardinality(Places(G, "block_stop")) = Cardinality(Places(G, "block_start"))

(* A message that is open is framed so far.                                *)
LEMMA OpenedFramed ==
    ASSUME NEW s, NEW G, Opened(s, G), ~Overlaps(s)
    PROVE  Framed(G)
<1> HIDE DEF Headed, Places, Overlaps
<1> QED BY DEF Opened, Framed

(* Its stops and its last two frames frame it to the end.                  *)
LEMMA MessageCloses ==
    ASSUME NEW G \in Seq(FrameSet), Len(G) > 0, NEW s, Opened(s, G), ~Overlaps(s), NEW E, Stops(E, BlocksOf(s)),
           NEW d \in FrameSet, d.type = "message_delta", NEW e \in FrameSet, e.type = "message_stop"
    PROVE  Framed((G \o E) \o <<d, e>>) /\ Places((G \o E) \o <<d, e>>, "message_stop") # {}
<1> DEFINE H == (G \o E) \o <<d, e>>
           g == Len(G)
           k == Len(E)
           A == Places(G, "block_start")
           D == Places(G, "block_delta")
           Z == {g + i : i \in 1 .. k}
<1>1. /\ E \in Seq(FrameSet)
      /\ \A i \in 1 .. k : E[i].type = "block_stop" /\ E[i].index \in BlocksOf(s)
      /\ \A b \in BlocksOf(s) : \E i \in 1 .. k : E[i].index = b
      /\ \A i, j \in 1 .. k : E[i].index = E[j].index => i = j
  BY DEF Stops
<1>2. /\ g \in Nat /\ k \in Nat /\ Len(H) = g + k + 2
      /\ \A i \in 1 .. g : H[i] = G[i]
      /\ \A i \in 1 .. k : H[g + i] = E[i]
      /\ H[g + k + 1] = d /\ H[g + k + 2] = e
  <2> HIDE DEF FrameSet
  <2>1. <<d, e>> \in Seq(FrameSet) /\ Len(<<d, e>>) = 2 /\ <<d, e>>[1] = d /\ <<d, e>>[2] = e
    OBVIOUS
  <2> DEFINE x == <<d, e>>
             F == G \o E
  <2>2. F \in Seq(FrameSet) /\ g \in Nat /\ k \in Nat /\ Len(F) = g + k
        /\ (\A i \in 1 .. g : F[i] = G[i]) /\ \A i \in 1 .. k : F[g + i] = E[i]
    BY <1>1, TwoRuns
  <2>3. H = F \o x
    OBVIOUS
  <2> HIDE DEF F, x, H, g, k
  <2>4. Len(x) = 2 /\ x[1] = d /\ x[2] = e /\ x \in Seq(FrameSet)
    BY <2>1 DEF x
  <2>5. Len(H) = (g + k) + 2 /\ (\A i \in 1 .. g + k : H[i] = F[i]) /\ H[(g + k) + 1] = x[1] /\ H[(g + k) + 2] = x[2]
    <3> DEFINE m == g + k
    <3>1. m \in Nat /\ Len(F) = m
      BY <2>2
    <3> HIDE DEF m
    <3>2. Len(H) = Len(F) + Len(x) /\ (\A i \in 1 .. Len(F) : H[i] = F[i]) /\ \A i \in 1 .. Len(x) : H[Len(F) + i] = x[i]
      BY <2>2, <2>3, <2>4, TwoRuns
    <3>3. Len(H) = m + 2 /\ (\A i \in 1 .. m : H[i] = F[i]) /\ H[m + 1] = x[1] /\ H[m + 2] = x[2]
      BY <2>4, <3>1, <3>2
    <3> QED BY <3>3 DEF m
  <2> QED BY <2>2, <2>4, <2>5
<1>0. g > 0
  OBVIOUS
<1> HIDE DEF H, g, k, FrameSet
<1>3. \A i \in 1 .. Len(H) : \/ i \in 1 .. g /\ H[i] = G[i]
                             \/ i - g \in 1 .. k /\ H[i] = E[i - g] /\ i = g + (i - g)
                             \/ i = g + k + 1
                             \/ i = g + k + 2
  BY <1>2
<1>4. (\A i \in 1 .. g : i \in 1 .. Len(H)) /\ \A i \in 1 .. k : g + i \in 1 .. Len(H)
  BY <1>2
<1>5. /\ Headed(G, "message_start")
      /\ Places(G, "block_stop") = {} /\ Places(G, "message_stop") = {}
      /\ \A i \in A : G[i].index \in BlocksOf(s)
      /\ \A b \in BlocksOf(s) : \E i \in A : G[i].index = b
      /\ \A i \in D : \E j \in A : j < i /\ G[j].index = G[i].index
      /\ \A i, j \in A : G[i].index = G[j].index => i = j
  BY DEF Opened
<1>6. A \in SUBSET (1 .. g) /\ D \in SUBSET (1 .. g)
  BY DEF Places, g
<1>7. \A i \in 1 .. g : G[i].type \notin {"block_stop", "message_stop"}
  BY <1>5 DEF Places, g
<1>8. Headed(H, "message_start")
  <2>1. \A i \in 1 .. g : (i = 1) <=> H[i].type = "message_start"
    BY <1>2, <1>5 DEF Headed, g
  <2>2. ASSUME NEW i \in 1 .. k PROVE g + i # 1 /\ H[g + i].type # "message_start"
    <3>1. H[g + i] = E[i]
      BY <1>2, Zenon
    <3>2. E[i].type = "block_stop"
      BY <1>0, <1>1
    <3>3. g + i # 1
      BY <1>0, <1>2
    <3> QED BY <3>1, <3>2, <3>3
  <2>3. g + k + 1 # 1 /\ g + k + 2 # 1 /\ H[g + k + 1].type # "message_start" /\ H[g + k + 2].type # "message_start"
    BY <1>0, <1>2
  <2> QED BY <1>3, <2>1, <2>2, <2>3 DEF Headed
<1>9. Places(H, "block_start") = A /\ Places(H, "block_delta") = D
  <2>1. \A i \in 1 .. k : H[g + i].type = "block_stop"
    BY <1>1, <1>2
  <2>2. H[g + k + 1].type = "message_delta" /\ H[g + k + 2].type = "message_stop"
    BY <1>2
  <2>3. \A i \in 1 .. Len(H) : H[i].type \in {"block_start", "block_delta"} => i \in 1 .. g /\ H[i] = G[i]
    BY <1>3, <2>1, <2>2
  <2> QED BY <1>2, <1>4, <2>3 DEF Places, g
<1>10. Places(H, "block_stop") = Z
  <2>1. \A i \in 1 .. g : H[i].type # "block_stop"
    BY <1>2, <1>7
  <2>2. \A i \in 1 .. k : H[g + i].type = "block_stop"
    BY <1>1, <1>2
  <2>3. H[g + k + 1].type # "block_stop" /\ H[g + k + 2].type # "block_stop"
    BY <1>2
  <2>4. \A i \in Places(H, "block_stop") : i - g \in 1 .. k /\ i = g + (i - g)
    BY <1>3, <2>1, <2>3 DEF Places
  <2>5. \A i \in 1 .. k : g + i \in Places(H, "block_stop")
    BY <1>4, <2>2 DEF Places
  <2> QED BY <2>4, <2>5
<1>11. Places(H, "message_stop") = {Len(H)}
  <2>1. \A i \in 1 .. g : H[i].type # "message_stop"
    BY <1>2, <1>7
  <2>2. \A i \in 1 .. k : H[g + i].type # "message_stop"
    BY <1>1, <1>2
  <2>3. H[g + k + 1].type # "message_stop" /\ H[g + k + 2].type = "message_stop"
    BY <1>2
  <2>4. \A i \in 1 .. Len(H) : H[i].type = "message_stop" => i = Len(H)
    BY <1>2, <1>3, <2>1, <2>2, <2>3
  <2>5. Len(H) \in 1 .. Len(H) /\ H[Len(H)].type = "message_stop"
    BY <1>2, <2>3
  <2> QED BY <2>4, <2>5 DEF Places
<1> HIDE DEF A, D, Z
<1>12. \A z \in Z : z - g \in 1 .. k /\ z = g + (z - g) /\ z > g /\ H[z].index = E[z - g].index
  BY <1>2 DEF Z
<1>13. \A y, z \in Z : H[y].index = H[z].index => y = z
  <2> SUFFICES ASSUME NEW y \in Z, NEW z \in Z, H[y].index = H[z].index PROVE y = z
    OBVIOUS
  <2>1. y - g = z - g
    BY <1>1, <1>12
  <2>2. y = g + (y - g) /\ z = g + (z - g)
    BY <1>12
  <2> QED BY <2>1, <2>2
<1>14. \A z \in Z : \E a \in A : a <= g /\ H[a].index = H[z].index
  <2> SUFFICES ASSUME NEW z \in Z PROVE \E a \in A : a <= g /\ H[a].index = H[z].index
    OBVIOUS
  <2>1. H[z].index \in BlocksOf(s)
    BY <1>1, <1>12
  <2>2. PICK a \in A : G[a].index = H[z].index
    BY <1>5, <2>1
  <2> QED BY <1>2, <1>6, <2>2
<1>15. \A a \in A : \E z \in Z : H[z].index = H[a].index
  <2> SUFFICES ASSUME NEW a \in A PROVE \E z \in Z : H[z].index = H[a].index
    OBVIOUS
  <2>1. H[a].index \in BlocksOf(s)
    BY <1>2, <1>5, <1>6
  <2>2. PICK i \in 1 .. k : E[i].index = H[a].index
    BY <1>1, <2>1
  <2> QED BY <1>2, <2>2 DEF Z
<1>16. Cardinality(Z) = Cardinality(A)
  <2> DEFINE f == [a \in A |-> H[a].index]
             h == [z \in Z |-> H[z].index]
             V == {H[a].index : a \in A} \cup {H[z].index : z \in Z}
  <2>1. IsFiniteSet(A)
    <3>1. IsFiniteSet(1 .. g)
      BY <1>2, FS_Interval
    <3> QED BY <1>6, <3>1, FS_Subset
  <2>2. f \in [A -> V] /\ h \in [Z -> V] /\ (\A a \in A : f[a] = H[a].index) /\ \A z \in Z : h[z] = H[z].index
    OBVIOUS
  <2> HIDE DEF f, h, V
  <2>3. \A a, b \in A : f[a] = f[b] => a = b
    BY <1>2, <1>5, <1>6, <2>2
  <2>4. \A y, z \in Z : h[y] = h[z] => y = z
    BY <1>13, <2>2
  <2>5. (\A a \in A : \E z \in Z : h[z] = f[a]) /\ \A z \in Z : \E a \in A : h[z] = f[a]
    BY <1>14, <1>15, <2>2
  <2>6. Alike(A, Z, V, f, h)
    BY <2>2, <2>3, <2>4, <2>5 DEF Alike
  <2> QED BY <2>1, <2>6, SameSize
<1>17. \A i \in D \cup Z :
          /\ \E j \in A : j < i /\ H[j].index = H[i].index
          /\ ~ \E j \in Z : j < i /\ H[j].index = H[i].index
  <2>1. ASSUME NEW i \in D PROVE \E j \in A : j < i /\ H[j].index = H[i].index
    <3>1. PICK j \in A : j < i /\ G[j].index = G[i].index
      BY <1>5
    <3> QED BY <1>2, <1>6, <3>1
  <2>2. ASSUME NEW i \in D, NEW j \in Z PROVE ~(j < i)
    BY <1>2, <1>6, <1>12
  <2>3. ASSUME NEW i \in Z PROVE \E j \in A : j < i /\ H[j].index = H[i].index
    <3>1. PICK a \in A : a <= g /\ H[a].index = H[i].index
      BY <1>14
    <3>2. a < i
      BY <1>2, <1>6, <1>12, <3>1
    <3> QED BY <3>1, <3>2
  <2>4. ASSUME NEW i \in Z, NEW j \in Z, j < i PROVE H[j].index # H[i].index
    <3>1. i \in Int /\ j \in Int
      BY <1>2 DEF Z
    <3> QED BY <1>13, <2>4, <3>1
  <2> QED BY <2>1, <2>2, <2>3, <2>4
<1>18. \A i, j \in A : H[i].index = H[j].index => i = j
  BY <1>2, <1>5, <1>6
<1>19. Framed(H) /\ Places(H, "message_stop") # {}
  <2> HIDE DEF Headed, Places
  <2> QED BY <1>8, <1>9, <1>10, <1>11, <1>16, <1>17, <1>18 DEF Framed
<1> QED BY <1>19 DEF H

(* A Claude message that has stopped.                                      *)
Done(s, G) ==
    /\ ClaudeOk(s, G) /\ s.started /\ s.finished
    /\ ~Overlaps(s) => Framed(G) /\ Places(G, "message_stop") # {}

(* The end of an open message stops it.                                    *)
LEMMA EndCloses ==
    ASSUME NEW G \in Seq(FrameSet), NEW r, MessageRun(G, r)
    PROVE  LET q == Flow!EndClaude(r) IN q.out \in Seq(FrameSet) /\ Done(q.state, G \o q.out)
<1> DEFINE s == r.state
           o == r.out
           H == G \o o
           q == Flow!EndClaude(r)
           d == Flow!Frame("message_delta", -1, -1)
           e == Flow!Frame("message_stop", -1, -1)
           E == Flow!ClosedBlocks(s)
           x == <<d, e>>
           t == [s EXCEPT !.reasoningOpen = FALSE, !.textOpen = FALSE, !.finished = TRUE]
<1>1. ClaudeRun(G, r) /\ o \in Seq(FrameSet) /\ H \in Seq(FrameSet) /\ s \in ClaudeSinks
  BY DEF MessageRun, InMessage, ClaudeRun, ClaudeOk
<1>2. s.started /\ Len(H) > 0 /\ Apart(s) /\ Opened(s, H)
  BY DEF MessageRun, InMessage
<1>3. ClaudeRun(G, q)
  BY <1>1, ClaudeEnds
<1>4. q.state = t /\ q.out = (o \o E) \o x
  BY DEF Flow!EndClaude, Flow!Result, Flow!NoIndex
<1>5. t.started = s.started /\ t.finished = TRUE /\ (Overlaps(t) <=> Overlaps(s))
  <2>1. t.started = s.started /\ t.finished = TRUE /\ t.tools = s.tools /\ t.reasoning = s.reasoning
    <3> HIDE DEF s
    <3> QED BY <1>1 DEF ClaudeSinks
  <2> HIDE DEF t, s
  <2> QED BY <2>1 DEF Overlaps, ToolBlocks
<1>6. /\ d \in FrameSet /\ d.type = "message_delta" /\ e \in FrameSet /\ e.type = "message_stop"
  <2>1. "message_delta" \in FrameTypes /\ "message_stop" \in FrameTypes
    BY DEF FrameTypes
  <2> QED BY <2>1, FrameIs
<1> HIDE DEF s, q, t, d, e, FrameSet
<1>7. ASSUME ~Overlaps(s) PROVE Framed(G \o q.out) /\ Places(G \o q.out, "message_stop") # {}
  <2>1. Stops(E, BlocksOf(s))
    BY <1>1, <1>2, <1>7, ClosedStops
  <2>2. E \in Seq(FrameSet) /\ x \in Seq(FrameSet)
    BY <1>6, <2>1 DEF Stops
  <2> HIDE DEF E
  <2>3. Framed((H \o E) \o x) /\ Places((H \o E) \o x, "message_stop") # {}
    <3> HIDE DEF H, Opened, Stops, Overlaps, Framed, Places
    <3> QED BY <1>1, <1>2, <1>6, <1>7, <2>1, MessageCloses
  <2>4. G \o q.out = (H \o E) \o x
    <3> HIDE DEF o, x
    <3>1. o \o E \in Seq(FrameSet)
      BY <1>1, <2>2, FramesFollow
    <3>2. G \o ((o \o E) \o x) = (G \o (o \o E)) \o x
      BY <1>1, <2>2, <3>1, FramesJoin, Zenon
    <3>3. G \o (o \o E) = (G \o o) \o E
      BY <1>1, <2>2, FramesJoin, Zenon
    <3> QED BY <1>4, <3>2, <3>3 DEF H
  <2> HIDE DEF Framed, Places, H, x
  <2> QED BY <2>3, <2>4
<1>8. q.out \in Seq(FrameSet) /\ Done(q.state, G \o q.out)
  <2> HIDE DEF Framed, Places, Overlaps
  <2> QED BY <1>2, <1>3, <1>4, <1>5, <1>7 DEF Done, ClaudeRun
<1> QED BY <1>8 DEF q

(* A Claude message: not begun, open or stopped.                           *)
ClaudeNests(s, G) == Fresh(s, G) \/ InMessage(s, G) \/ Done(s, G)

(* A chunk that says nothing and ends nothing.                             *)
Bare(c) == c.parts = <<>> /\ c.finish = "none"

(* A chunk, or the end of the stream, keeps the frames of a message        *)
(* nested.                                                                 *)
LEMMA ClaudeFramesNest ==
    ASSUME NEW G, NEW s, ClaudeNests(s, G), NEW c, c.parts \in Seq(PartSet), NEW end \in BOOLEAN,
           s.finished => Bare(c)
    PROVE  LET q == Flow!ClaudeFrames(s, c, end)
           IN  /\ q.out \in Seq(FrameSet) /\ ClaudeNests(q.state, G \o q.out) /\ q.state.started
               /\ q.state.finished <=> s.finished \/ c.finish # "none" \/ end
<1> DEFINE r == Flow!ClaudeSays(s, c.parts)
           q == Flow!ClaudeFrames(s, c, end)
           done == Flow!EndedIf(c.finish # "none", r)
<1>0. q = Flow!EndedIf(end /\ ~done.state.finished, done)
  BY Zenon DEF Flow!ClaudeFrames
<1>1. CASE Fresh(s, G) \/ InMessage(s, G)
  <2>1. MessageRun(G, r) /\ G \in Seq(FrameSet)
    <3>1. G \in Seq(FrameSet)
      BY <1>1 DEF Fresh, InMessage, ClaudeOk
    <3> HIDE DEF MessageRun, Fresh, InMessage
    <3> QED BY <1>1, <3>1, SaysOpens
  <2>2. ~s.finished
    BY <1>1 DEF Fresh, InMessage, Apart
  <2>3. r.out \in Seq(FrameSet) /\ InMessage(r.state, G \o r.out) /\ ~r.state.finished /\ r.state.started
    BY <2>1 DEF MessageRun, InMessage, Apart
  <2>4. LET x == Flow!EndClaude(r) IN x.out \in Seq(FrameSet) /\ Done(x.state, G \o x.out)
    <3> HIDE DEF r, MessageRun, Done
    <3> QED BY <2>1, EndCloses
  <2> HIDE DEF r, q
  <2>5. CASE c.finish # "none"
    <3>1. done = Flow!EndClaude(r)
      BY <2>5 DEF Flow!EndedIf
    <3> HIDE DEF done
    <3>2. done.out \in Seq(FrameSet) /\ Done(done.state, G \o done.out)
      BY <2>4, <3>1
    <3>3. done.state.finished /\ done.state.started
      BY <3>2 DEF Done
    <3>4. q = done
      BY <1>0, <3>3 DEF Flow!EndedIf
    <3> HIDE DEF Done, Fresh, InMessage
    <3> QED BY <2>5, <3>2, <3>3, <3>4 DEF ClaudeNests, q
  <2>6. CASE c.finish = "none"
    <3>1. done = r
      BY <2>6 DEF Flow!EndedIf
    <3> HIDE DEF done
    <3>2. CASE end
      <4>1. q = Flow!EndClaude(r)
        BY <1>0, <2>3, <3>1, <3>2 DEF Flow!EndedIf
      <4>2. q.out \in Seq(FrameSet) /\ Done(q.state, G \o q.out)
        BY <2>4, <4>1
      <4>3. q.state.finished /\ q.state.started
        BY <4>2 DEF Done
      <4> HIDE DEF Done, Fresh, InMessage
      <4> QED BY <3>2, <4>2, <4>3 DEF ClaudeNests, q
    <3>3. CASE ~end
      <4>1. q = r
        BY <1>0, <3>1, <3>3 DEF Flow!EndedIf
      <4> HIDE DEF Done, Fresh, InMessage
      <4> QED BY <2>2, <2>3, <2>6, <3>3, <4>1 DEF ClaudeNests, q
    <3> QED BY <3>2, <3>3
  <2> QED BY <2>5, <2>6
<1>2. CASE Done(s, G)
  <2>1. s.started /\ s.finished /\ c.parts = <<>> /\ c.finish = "none" /\ ClaudeOk(s, G)
    BY <1>2 DEF Done, Bare
  <2>2. s \in ClaudeSinks /\ G \in Seq(FrameSet)
    BY <2>1 DEF ClaudeOk
  <2>3. r = Flow!StartClaude(s)
    <3> DEFINE p == c.parts
    <3>1. Len(p) = 0 /\ p \in Seq(PartSet)
      BY <2>1
    <3> HIDE DEF p, ClaudeOk, SaysInTurn
    <3>2. PICK said : SaysInTurn(said, G, s, p) /\ Flow!ClaudeSays(s, p) = said[Len(p)]
      BY <2>1, <3>1, ClaudeSaysIs
    <3>3. Flow!ClaudeSays(s, p) = Flow!StartClaude(s)
      BY <3>1, <3>2 DEF SaysInTurn
    <3> QED BY <3>3 DEF p
  <2>4. r.state = [s EXCEPT !.started = TRUE] /\ r.out = <<>>
    <3> HIDE DEF r
    <3> QED BY <2>1, <2>3 DEF Flow!StartClaude, Flow!Result
  <2> HIDE DEF r, q
  <2>5. /\ r.state.started /\ r.state.finished /\ r.state.reasoning = s.reasoning /\ r.state.tools = s.tools
        /\ r.out \in Seq(FrameSet) /\ G \o r.out = G
    <3>1. r.state.started /\ r.state.finished /\ r.state.reasoning = s.reasoning /\ r.state.tools = s.tools
      BY <2>1, <2>2, <2>4 DEF ClaudeSinks
    <3> HIDE DEF FrameSet
    <3> QED BY <2>2, <2>4, <3>1
  <2>6. ClaudeOk(r.state, G)
    <3>1. ClaudeRun(G, r)
      <4> HIDE DEF ClaudeRun, ClaudeOk
      <4> QED BY <2>1, ClaudeTells DEF r
    <3> QED BY <2>5, <3>1 DEF ClaudeRun
  <2>7. Done(r.state, G \o r.out)
    <3>1. Overlaps(r.state) <=> Overlaps(s)
      BY <2>5 DEF Overlaps, ToolBlocks
    <3> HIDE DEF Framed, Places, Overlaps, ClaudeOk
    <3> QED BY <1>2, <2>5, <2>6, <3>1 DEF Done
  <2>8. done = r
    BY <2>1 DEF Flow!EndedIf
  <2> HIDE DEF done
  <2>9. q = r
    BY <1>0, <2>5, <2>8 DEF Flow!EndedIf
  <2> HIDE DEF Done, Fresh, InMessage
  <2> QED BY <2>1, <2>5, <2>7, <2>9 DEF ClaudeNests, q
<1> QED BY <1>1, <1>2 DEF ClaudeNests

-----------------------------------------------------------------------------
(* The items of a Responses stream while it is open.                       *)

(* The frames of an open stream whose n items are added, the last number   *)
(* at most z.                                                              *)
Adding(n, z, G) ==
    /\ Headed(G, "created") /\ Places(G, "done") = {}
    /\ \A i, j \in 1 .. Len(G) : i < j => G[i].seq < G[j].seq
    /\ \A i \in 1 .. Len(G) : G[i].seq <= z
    /\ \A i \in Places(G, "added") : G[i].index \in 0 .. n - 1
    /\ \A k \in 0 .. n - 1 : \E i \in Places(G, "added") : G[i].index = k
    /\ \A i, j \in Places(G, "added") : G[i].index = G[j].index => i = j
    /\ \A i \in Places(G, "delta") : \E j \in Places(G, "added") : j < i /\ G[j].index = G[i].index

(* Frames that add the items from n to m.                                  *)
Adds(n, m, E) ==
    /\ Places(E, "created") = {} /\ Places(E, "done") = {}
    /\ \A i \in Places(E, "added") : E[i].index \in n .. m - 1
    /\ \A k \in n .. m - 1 : \E i \in Places(E, "added") : E[i].index = k
    /\ \A i, j \in Places(E, "added") : E[i].index = E[j].index => i = j
    /\ \A i \in Places(E, "delta") :
          \/ E[i].index \in 0 .. n - 1
          \/ \E j \in Places(E, "added") : j < i /\ E[j].index = E[i].index

(* The number of a frame.                                                  *)
LEMMA FrameAt ==
    ASSUME NEW G \in Seq(FrameSet)
    PROVE  \A i \in 1 .. Len(G) : G[i] \in FrameSet /\ G[i].seq \in Nat
<1>1. \A i \in 1 .. Len(G) : G[i] \in FrameSet
  <2> HIDE DEF FrameSet
  <2> QED OBVIOUS
<1> QED BY <1>1 DEF FrameSet

(* Frames numbered from z.                                                 *)
NumberedFrom(E, z) == \A i \in 1 .. Len(E) : E[i].seq = z + i

(* The places of frames that differ in their numbers.                      *)
LEMMA LikePlaces ==
    ASSUME NEW E, NEW F, Like(E, F)
    PROVE  /\ \A k : Places(E, k) = Places(F, k)
           /\ \A k : \A i \in Places(E, k) : E[i].index = F[i].index
BY DEF Like, Places

(* They add the same items.                                                *)
LEMMA LikeAdds ==
    ASSUME NEW E, NEW F, Like(E, F), NEW n \in Nat, NEW m \in Nat, Adds(n, m, E)
    PROVE  Adds(n, m, F)
<1>1. /\ \A k : Places(E, k) = Places(F, k)
      /\ \A k : \A i \in Places(E, k) : E[i].index = F[i].index
  BY LikePlaces
<1> DEFINE A == Places(F, "added")
           D == Places(F, "delta")
<1>2. /\ Places(E, "added") = A /\ Places(E, "delta") = D
      /\ Places(F, "created") = Places(E, "created") /\ Places(F, "done") = Places(E, "done")
      /\ \A i \in A \cup D : E[i].index = F[i].index
  BY <1>1
<1> HIDE DEF Places, A, D
<1>3. /\ Places(E, "created") = {} /\ Places(E, "done") = {}
      /\ \A i \in A : E[i].index \in n .. m - 1
      /\ \A k \in n .. m - 1 : \E i \in A : E[i].index = k
      /\ \A i, j \in A : E[i].index = E[j].index => i = j
      /\ \A i \in D : E[i].index \in 0 .. n - 1 \/ (\E j \in A : j < i /\ E[j].index = E[i].index)
  BY <1>2 DEF Adds
<1>4. /\ \A i \in A : F[i].index \in n .. m - 1
      /\ \A k \in n .. m - 1 : \E i \in A : F[i].index = k
      /\ \A i, j \in A : F[i].index = F[j].index => i = j
  BY <1>2, <1>3
<1>5. ASSUME NEW i \in D PROVE F[i].index \in 0 .. n - 1 \/ (\E j \in A : j < i /\ F[j].index = F[i].index)
  <2>1. CASE E[i].index \in 0 .. n - 1
    BY <1>2, <2>1
  <2>2. CASE \E j \in A : j < i /\ E[j].index = E[i].index
    BY <1>2, <2>2
  <2> QED BY <1>3, <2>1, <2>2
<1> QED BY <1>2, <1>3, <1>4, <1>5 DEF Adds, A, D

(* What is added next follows what was.                                    *)
LEMMA AddingMore ==
    ASSUME NEW G \in Seq(FrameSet), Len(G) > 0, NEW n \in Nat, NEW m \in Nat, n <= m, NEW z \in Nat, Adding(n, z, G),
           NEW E \in Seq(FrameSet), Adds(n, m, E), NumberedFrom(E, z)
    PROVE  Adding(m, z + Len(E), G \o E)
<1> DEFINE H == G \o E
           g == Len(G)
           e == Len(E)
           y == z + Len(E)
           A == Places(G, "added")
           B == Places(E, "added")
           C == {g + i : i \in B}
           D == Places(G, "delta")
           W == Places(E, "delta")
           X == {g + i : i \in W}
<1>1. /\ H \in Seq(FrameSet) /\ g \in Nat /\ e \in Nat /\ Len(H) = g + e /\ g > 0
      /\ \A i \in 1 .. g : H[i] = G[i]
      /\ \A i \in 1 .. e : H[g + i] = E[i]
  BY TwoRuns
<1>2. /\ Headed(G, "created") /\ Places(G, "done") = {}
      /\ \A i, j \in 1 .. g : i < j => G[i].seq < G[j].seq
      /\ \A i \in 1 .. g : G[i].seq <= z
      /\ \A i \in A : G[i].index \in 0 .. n - 1
      /\ \A k \in 0 .. n - 1 : \E i \in A : G[i].index = k
      /\ \A i, j \in A : G[i].index = G[j].index => i = j
      /\ \A i \in D : \E j \in A : j < i /\ G[j].index = G[i].index
  BY DEF Adding
<1>3. /\ Places(E, "created") = {} /\ Places(E, "done") = {}
      /\ \A i \in B : E[i].index \in n .. m - 1
      /\ \A k \in n .. m - 1 : \E i \in B : E[i].index = k
      /\ \A i, j \in B : E[i].index = E[j].index => i = j
      /\ \A i \in W : E[i].index \in 0 .. n - 1 \/ (\E j \in B : j < i /\ E[j].index = E[i].index)
  BY DEF Adds
<1>4. A \in SUBSET (1 .. g) /\ D \in SUBSET (1 .. g) /\ B \in SUBSET (1 .. e) /\ W \in SUBSET (1 .. e)
  BY DEF Places
<1>5. \A i \in 1 .. e : E[i].seq = z + i
  BY DEF NumberedFrom
<1>6. \A i \in 1 .. e : E[i].type \notin {"created", "done"}
  BY <1>3 DEF Places
<1>7. \A i \in 1 .. g : G[i].type # "done" /\ ((i = 1) <=> G[i].type = "created") /\ G[i].seq \in Nat
  <2>1. \A i \in 1 .. g : G[i].seq \in Nat
    BY FrameAt
  <2> QED BY <1>2, <2>1 DEF Places, Headed
<1> HIDE DEF H, g, e, FrameSet
<1>8. \A i \in 1 .. Len(H) : \/ i \in 1 .. g /\ H[i] = G[i]
                             \/ i - g \in 1 .. e /\ H[i] = E[i - g] /\ i = g + (i - g) /\ i > g
  BY <1>1
<1>9. (\A i \in 1 .. g : i \in 1 .. Len(H)) /\ \A i \in 1 .. e : g + i \in 1 .. Len(H)
  BY <1>1
<1>10. Headed(H, "created") /\ Places(H, "done") = {}
  <2>1. \A i \in 1 .. Len(H) : H[i].type # "done" /\ ((i = 1) <=> H[i].type = "created")
    BY <1>1, <1>6, <1>7, <1>8
  <2> QED BY <2>1 DEF Headed, Places
<1>11. \A i \in 1 .. Len(H) : H[i].seq <= y /\ (i > g => H[i].seq = z + (i - g))
  <2>1. \A i \in 1 .. g : H[i].seq <= y
    BY <1>1, <1>2, <1>7 DEF e
  <2>2. ASSUME NEW i \in 1 .. Len(H), i > g PROVE H[i].seq = z + (i - g) /\ i - g <= e
    <3> DEFINE k == i - g
    <3>1. k \in 1 .. e /\ H[i] = E[k]
      BY <1>1, <1>8, <2>2
    <3> HIDE DEF k
    <3>2. E[k].seq = z + k /\ k <= e
      <4>1. k \in Nat /\ k <= e
        BY <1>1, <3>1
      <4>2. E[k].seq = z + k
        BY <1>5, <3>1, Zenon
      <4> QED BY <4>1, <4>2
    <3>3. H[i].seq = z + k
      BY <3>1, <3>2
    <3> QED BY <3>2, <3>3 DEF k
  <2>3. y = z + e
    BY DEF e
  <2> QED BY <1>1, <1>8, <2>1, <2>2, <2>3
<1>12. \A i, j \in 1 .. Len(H) : i < j => H[i].seq < H[j].seq
  <2> SUFFICES ASSUME NEW i \in 1 .. Len(H), NEW j \in 1 .. Len(H), i < j PROVE H[i].seq < H[j].seq
    OBVIOUS
  <2>1. CASE j <= g
    <3>1. i \in 1 .. g /\ j \in 1 .. g
      BY <1>1, <2>1
    <3>2. H[i] = G[i] /\ H[j] = G[j] /\ G[i].seq < G[j].seq
      BY <1>1, <1>2, <3>1
    <3> QED BY <3>2
  <2>2. CASE i <= g /\ j > g
    <3>1. i \in 1 .. g
      BY <1>1, <2>2
    <3>2. H[i].seq <= z /\ H[i].seq \in Nat
      BY <1>1, <1>2, <1>7, <3>1
    <3>3. H[j].seq = z + (j - g) /\ j - g > 0 /\ j - g \in Int
      BY <1>1, <1>11, <2>2
    <3> QED BY <3>2, <3>3
  <2>3. CASE i > g
    <3>1. H[i].seq = z + (i - g) /\ H[j].seq = z + (j - g)
      BY <1>1, <1>11, <2>3
    <3> QED BY <1>1, <3>1
  <2> QED BY <1>1, <2>1, <2>2, <2>3
<1>13. Places(H, "added") = A \cup C /\ Places(H, "delta") = D \cup X
  <2>1. ASSUME NEW k \in {"added", "delta"} PROVE Places(H, k) = Places(G, k) \cup {g + i : i \in Places(E, k)}
    <3>1. \A i \in 1 .. Len(H) : H[i].type = k => i \in Places(G, k) \/ (i - g \in Places(E, k) /\ i = g + (i - g))
      BY <1>8 DEF Places, g, e
    <3>2. \A i \in Places(G, k) : i \in 1 .. Len(H) /\ H[i].type = k
      BY <1>1, <1>9 DEF Places, g
    <3>3. \A i \in Places(E, k) : g + i \in 1 .. Len(H) /\ H[g + i].type = k
      BY <1>1, <1>9 DEF Places, e
    <3> QED BY <3>1, <3>2, <3>3 DEF Places
  <2> QED BY <2>1
<1> HIDE DEF A, B, C, D, W, X, Places
<1>14. /\ \A i \in A : H[i] = G[i] /\ i <= g
       /\ \A i \in D : H[i] = G[i]
       /\ \A i \in B : H[g + i] = E[i] /\ g + i \in C /\ g + i > g
       /\ \A i \in W : H[g + i] = E[i] /\ g + i > g
  BY <1>1, <1>4 DEF C
<1>15. \A i \in C : i - g \in B /\ i = g + (i - g) /\ H[i] = E[i - g]
  BY <1>1, <1>4 DEF C
<1>16. \A i \in X : i - g \in W /\ i = g + (i - g) /\ H[i] = E[i - g]
  BY <1>1, <1>4 DEF X
<1>17. \A i \in A \cup C : H[i].index \in 0 .. m - 1
  BY <1>2, <1>3, <1>14, <1>15
<1>18. ASSUME NEW k \in 0 .. m - 1 PROVE \E i \in A \cup C : H[i].index = k
  <2>1. CASE k \in 0 .. n - 1
    BY <1>2, <1>14, <2>1
  <2>2. CASE k \in n .. m - 1
    <3>1. PICK i \in B : E[i].index = k
      BY <1>3, <2>2
    <3> QED BY <1>14, <3>1
  <2> QED BY <2>1, <2>2
<1>19. ASSUME NEW i \in A \cup C, NEW j \in A \cup C, H[i].index = H[j].index PROVE i = j
  <2>1. \/ i \in A /\ H[i].index = G[i].index /\ H[i].index < n
        \/ i - g \in B /\ H[i].index = E[i - g].index /\ H[i].index >= n /\ i = g + (i - g)
    BY <1>2, <1>3, <1>14, <1>15
  <2>2. \/ j \in A /\ H[j].index = G[j].index /\ H[j].index < n
        \/ j - g \in B /\ H[j].index = E[j - g].index /\ H[j].index >= n /\ j = g + (j - g)
    BY <1>2, <1>3, <1>14, <1>15
  <2>3. H[i].index \in Int
    BY <1>17
  <2>4. i - g = j - g => i = j
    BY <2>1, <2>2, <1>1, <1>4, <1>15
  <2>5. CASE H[i].index < n
    BY <1>2, <1>19, <2>1, <2>2, <2>3, <2>5
  <2>6. CASE H[i].index >= n
    <3>1. i - g \in B /\ H[i].index = E[i - g].index /\ i = g + (i - g)
      BY <2>1, <2>3, <2>6
    <3>2. j - g \in B /\ H[j].index = E[j - g].index /\ j = g + (j - g)
      BY <1>19, <2>2, <2>3, <2>6
    <3>3. i - g = j - g
      <4> DEFINE x == i - g
                 w == j - g
      <4>1. x \in B /\ w \in B /\ E[x].index = E[w].index
        BY <1>19, <3>1, <3>2
      <4> HIDE DEF x, w
      <4>2. x = w
        BY <1>3, <4>1
      <4> QED BY <4>2 DEF x, w
    <3> QED BY <3>1, <3>2, <3>3
  <2> QED BY <2>3, <2>5, <2>6
<1>20. ASSUME NEW i \in D \cup X PROVE \E j \in A \cup C : j < i /\ H[j].index = H[i].index
  <2>1. CASE i \in D
    BY <1>2, <1>14, <2>1
  <2>2. CASE i \in X
    <3> DEFINE k == i - g
    <3>1. k \in W /\ i = g + k /\ H[i] = E[k] /\ k \in 1 .. e
      BY <1>4, <1>16, <2>2
    <3> HIDE DEF k
    <3>2. CASE E[k].index \in 0 .. n - 1
      <4>1. PICK j \in A : G[j].index = E[k].index
        BY <1>2, <3>2
      <4>2. j < i /\ H[j].index = H[i].index
        BY <1>1, <1>4, <1>14, <3>1, <4>1
      <4> QED BY <4>2
    <3>3. CASE \E j \in B : j < k /\ E[j].index = E[k].index
      <4>1. PICK j \in B : j < k /\ E[j].index = E[k].index
        BY <3>3
      <4>2. g + j \in C /\ g + j < i /\ H[g + j].index = H[i].index
        BY <1>1, <1>4, <1>14, <3>1, <4>1
      <4> QED BY <4>2
    <3> QED BY <1>3, <3>1, <3>2, <3>3
  <2> QED BY <2>1, <2>2
<1>21. Adding(m, y, H)
  BY <1>10, <1>11, <1>12, <1>13, <1>17, <1>18, <1>19, <1>20 DEF Adding
<1> QED BY <1>21 DEF H, y

(* The frames of a part: they add its item, when it is new.                *)
LEMMA ItemFrames ==
    ASSUME NEW n \in Nat, NEW S \in FrameSet, NEW T \in FrameSet, NEW P \in FrameSet,
           S.type = "added", S.index = n, T.type = "part_added", P.type = "delta", P.index = n,
           NEW brief \in BOOLEAN, NEW said \in BOOLEAN
    PROVE  Adds(n, n + 1, (IF brief THEN <<S>> ELSE <<S, T>>) \o (IF said THEN <<P>> ELSE <<>>))
<1> DEFINE E == (IF brief THEN <<S>> ELSE <<S, T>>) \o (IF said THEN <<P>> ELSE <<>>)
           e == Len(E)
           D == Places(E, "delta")
<1>1. /\ e \in 1 .. 3 /\ E[1] = S
      /\ \A i \in 2 .. e : E[i] \in {T, P}
  <2> DEFINE A == IF brief THEN <<S>> ELSE <<S, T>>
             B == IF said THEN <<P>> ELSE <<>>
  <2> HIDE DEF FrameSet
  <2>1. A \in Seq(FrameSet) /\ Len(A) \in 1 .. 2 /\ A[1] = S /\ (Len(A) = 2 => A[2] = T)
    OBVIOUS
  <2>2. B \in Seq(FrameSet) /\ Len(B) \in 0 .. 1 /\ (Len(B) = 1 => B[1] = P)
    OBVIOUS
  <2>3. E = A \o B
    OBVIOUS
  <2> HIDE DEF A, B, E
  <2>4. /\ e = Len(A) + Len(B)
        /\ \A i \in 1 .. Len(A) : E[i] = A[i]
        /\ \A i \in 1 .. Len(B) : E[Len(A) + i] = B[i]
    BY <2>1, <2>2, <2>3, TwoRuns
  <2>5. e \in 1 .. 3 /\ E[1] = S
    BY <2>1, <2>2, <2>4
  <2>6. ASSUME NEW i \in 2 .. e PROVE E[i] \in {T, P}
    <3>1. CASE i <= Len(A)
      BY <2>1, <2>2, <2>4, <3>1
    <3>2. CASE i > Len(A)
      <4>1. Len(B) = 1 /\ i = Len(A) + 1
        BY <2>1, <2>2, <2>4, <3>2
      <4> QED BY <2>2, <2>4, <4>1
    <3> QED BY <2>1, <3>1, <3>2
  <2> QED BY <2>5, <2>6
<1> HIDE DEF E, e
<1>2. \A i \in 1 .. e : i = 1 \/ i \in 2 .. e
  BY <1>1
<1>3. Places(E, "added") = {1} /\ Places(E, "created") = {} /\ Places(E, "done") = {}
  <2>1. 1 \in 1 .. e /\ E[1].type = "added"
    BY <1>1
  <2>2. \A i \in 2 .. e : E[i].type \in {"part_added", "delta"}
    BY <1>1
  <2>3. \A i \in 1 .. e : (E[i].type = "added" <=> i = 1) /\ E[i].type \notin {"created", "done"}
    BY <1>2, <2>1, <2>2
  <2> QED BY <2>1, <2>3 DEF Places, e
<1>4. \A i \in D : 1 < i /\ E[1].index = E[i].index
  BY <1>1, <1>2 DEF Places, e
<1> HIDE DEF D
<1>5. /\ \A i \in {1} : E[i].index \in n .. (n + 1) - 1
      /\ \A k \in n .. (n + 1) - 1 : \E i \in {1} : E[i].index = k
      /\ \A i, j \in {1} : E[i].index = E[j].index => i = j
  BY <1>1
<1>6. \A i \in D : E[i].index \in 0 .. n - 1 \/ (\E j \in {1} : j < i /\ E[j].index = E[i].index)
  BY <1>4
<1>7. Adds(n, n + 1, E)
  BY <1>3, <1>5, <1>6 DEF Adds, D
<1> QED BY <1>7 DEF E

(* Of an item that is known, what is said in it.                           *)
LEMMA KnownFrames ==
    ASSUME NEW n \in Nat, NEW P \in FrameSet, P.type = "delta", P.index \in 0 .. n - 1, NEW said \in BOOLEAN
    PROVE  Adds(n, n, <<>> \o (IF said THEN <<P>> ELSE <<>>))
<1> DEFINE E == <<>> \o (IF said THEN <<P>> ELSE <<>>)
           e == Len(E)
<1>1. e \in 0 .. 1 /\ \A i \in 1 .. e : E[i] = P
  <2>1. CASE said
    <3>1. E = <<P>>
      BY <2>1
    <3> HIDE DEF E
    <3> QED BY <3>1
  <2>2. CASE ~said
    <3>1. E = <<>>
      BY <2>2
    <3> HIDE DEF E
    <3> QED BY <3>1
  <2> QED BY <2>1, <2>2
<1> HIDE DEF E, e
<1>2. Places(E, "added") = {} /\ Places(E, "created") = {} /\ Places(E, "done") = {}
  BY <1>1 DEF Places, e
<1>3. \A i \in Places(E, "delta") : E[i].index \in 0 .. n - 1
  BY <1>1 DEF Places, e
<1>4. n .. n - 1 = {}
  OBVIOUS
<1>5. Adds(n, n, E)
  <2> HIDE DEF Places
  <2> QED BY <1>2, <1>3, <1>4 DEF Adds
<1> QED BY <1>5 DEF E

(* What numbering does to the numbers, and what it leaves.                 *)
LEMMA NumberedCounts ==
    ASSUME NEW s \in ResponsesSinks, NEW E \in Seq(FrameSet)
    PROVE  LET q == Flow!Numbered(s, E)
           IN  /\ NumberedFrom(q.out, s.seq) /\ q.state.seq = s.seq + Len(E) /\ Len(E) \in Nat
               /\ q.state.started = s.started /\ q.state.finish = s.finish
<1> DEFINE n == Len(E)
           z == s.seq
           F == [i \in DOMAIN E |-> [E[i] EXCEPT !.seq = z + i]]
           k == z + n
           t == [s EXCEPT !.seq = k]
           q == Flow!Numbered(s, E)
<1>1. n \in Nat /\ DOMAIN E = 1 .. n /\ z \in Nat /\ k \in Nat /\ \A i \in 1 .. n : E[i] \in FrameSet
  <2>1. z \in Nat
    BY ResponsesSinksAre
  <2> HIDE DEF FrameSet, z
  <2> QED BY <2>1
<1>2. q.out = F /\ q.state = t
  BY DEF Flow!Numbered, Flow!Result
<1>3. Len(q.out) = n
  <2>1. q.out \in Seq(FrameSet) /\ Len(E) = Len(q.out)
    BY NumberedIs DEF Like
  <2> QED BY <2>1
<1>4. \A i \in 1 .. n : F[i].seq = z + i
  <2> SUFFICES ASSUME NEW i \in 1 .. n PROVE F[i].seq = z + i
    OBVIOUS
  <2> DEFINE e == E[i]
             m == z + i
  <2>1. e \in FrameSet /\ m \in Nat /\ F[i] = [e EXCEPT !.seq = m]
    BY <1>1
  <2> HIDE DEF e, m, F
  <2>2. [e EXCEPT !.seq = m].seq = m
    BY <2>1 DEF FrameSet
  <2> QED BY <2>1, <2>2 DEF m
<1>5. t.seq = k /\ t.started = s.started /\ t.finish = s.finish
  <2> HIDE DEF k
  <2> QED BY <1>1 DEF ResponsesSinks
<1> HIDE DEF F, t, q
<1>6. NumberedFrom(q.out, s.seq) /\ q.state.seq = s.seq + Len(E) /\ q.state.started = s.started /\ q.state.finish = s.finish
  BY <1>2, <1>3, <1>4, <1>5 DEF NumberedFrom
<1> QED BY <1>1, <1>6 DEF q

(* The items are apart.                                                    *)
ItemsApart(s) ==
    /\ \A i, j \in 1 .. Len(s.items) : s.items[i] = s.items[j] => i = j
    /\ \A i \in 1 .. Len(s.items) : s.items[i].kind # "tool" => s.items[i].call = -1

(* A Responses stream that is open.                                        *)
InResponse(s, G) ==
    ResponsesOk(s, G) /\ s.started /\ Len(G) > 0 /\ ItemsApart(s) /\ Adding(Len(s.items), s.seq, G)

(* A result that keeps it open.                                            *)
ResponseRun(G, r) == r.out \in Seq(FrameSet) /\ InResponse(r.state, G \o r.out)

(* A state t that follows s and the frames it adds.                        *)
Succeeds(s, t, E) ==
    /\ t \in ResponsesSinks /\ t.started /\ t.seq = s.seq /\ ItemsApart(t)
    /\ Len(s.items) \in Nat /\ Len(t.items) \in Nat /\ Len(s.items) <= Len(t.items)
    /\ E \in Seq(FrameSet) /\ Adds(Len(s.items), Len(t.items), E)

(* The frames are numbered on from the last one.                           *)
LEMMA FollowsNumbered ==
    ASSUME NEW G \in Seq(FrameSet), NEW r, ResponseRun(G, r), NEW t, NEW E, Succeeds(r.state, t, E),
           ResponsesRun(G, Flow!Then(r, Flow!Numbered(t, E)))
    PROVE  ResponseRun(G, Flow!Then(r, Flow!Numbered(t, E)))
<1> DEFINE s == r.state
           o == r.out
           H == G \o o
           N == Flow!Numbered(t, E)
           F == N.out
           u == N.state
           q == Flow!Then(r, N)
           n == Len(s.items)
           m == Len(t.items)
           z == s.seq
<1>1. /\ t \in ResponsesSinks /\ t.started /\ t.seq = z /\ ItemsApart(t)
      /\ n \in Nat /\ m \in Nat /\ n <= m
      /\ E \in Seq(FrameSet) /\ Adds(n, m, E)
  BY DEF Succeeds
<1>2. /\ o \in Seq(FrameSet) /\ H \in Seq(FrameSet) /\ Len(H) > 0 /\ Adding(n, z, H) /\ s \in ResponsesSinks
  BY DEF ResponseRun, InResponse, ResponsesOk
<1>3. z \in Nat
  BY <1>2, ResponsesSinksAre
<1>4. /\ Like(E, F) /\ u \in ResponsesSinks /\ u.items = t.items /\ F \in Seq(FrameSet)
      /\ NumberedFrom(F, z) /\ u.seq = z + Len(E) /\ Len(F) = Len(E) /\ u.started = t.started
  <2>1. Like(E, F) /\ u \in ResponsesSinks /\ u.items = t.items
    BY <1>1, NumberedIs
  <2>2. NumberedFrom(F, z) /\ u.seq = z + Len(E) /\ u.started = t.started
    BY <1>1, NumberedCounts
  <2>3. F \in Seq(FrameSet) /\ Len(F) = Len(E)
    BY <2>1 DEF Like
  <2> QED BY <2>1, <2>2, <2>3
<1>5. q.state = u /\ q.out = o \o F
  BY DEF Flow!Then, Flow!Result
<1> HIDE DEF N, F, u, q, n, m, z, s, FrameSet
<1>6. Adds(n, m, F)
  BY <1>1, <1>4, LikeAdds
<1>7. Adding(m, z + Len(F), H \o F) /\ Len(H \o F) > 0
  <2>1. Adding(m, z + Len(F), H \o F)
    <3> HIDE DEF H, Adding, Adds
    <3> QED BY <1>1, <1>2, <1>3, <1>4, <1>6, AddingMore
  <2>2. Len(H \o F) > 0
    <3> HIDE DEF H
    <3> QED BY <1>2, <1>4, TwoRuns
  <2> QED BY <2>1, <2>2
<1>8. G \o q.out = H \o F
  <2> HIDE DEF o
  <2>1. G \o (o \o F) = (G \o o) \o F
    BY <1>2, <1>4, FramesJoin, Zenon
  <2> QED BY <1>5, <2>1 DEF H
<1>9. ItemsApart(u)
  BY <1>1, <1>4 DEF ItemsApart
<1>10. Adding(Len(u.items), u.seq, G \o q.out)
  <2> HIDE DEF Adding
  <2> QED BY <1>4, <1>7, <1>8 DEF m
<1>11. q.out \in Seq(FrameSet) /\ ResponsesOk(q.state, G \o q.out)
  BY DEF ResponsesRun, q, N
<1>12. ResponseRun(G, q)
  <2> HIDE DEF Adding, ItemsApart, ResponsesOk
  <2>1. q.state.started /\ Len(G \o q.out) > 0 /\ ItemsApart(q.state)
    BY <1>1, <1>4, <1>5, <1>7, <1>8, <1>9
  <2>2. Adding(Len(q.state.items), q.state.seq, G \o q.out)
    BY <1>5, <1>10
  <2> QED BY <1>11, <2>1, <2>2 DEF ResponseRun, InResponse
<1> QED BY <1>12 DEF q, N

(* A part adds its item, if it is new, and speaks in it.                   *)
LEMMA PartAdds ==
    ASSUME NEW G \in Seq(FrameSet), NEW r, ResponseRun(G, r), NEW p \in PartSet
    PROVE  ResponseRun(G, Flow!ResponsesPart(r, p))
<1> DEFINE s == r.state
           item == Flow!Item(IF p.kind \in {"call", "args"} THEN "tool" ELSE p.kind, p.index)
           known == Flow!ItemOf(s, item)
           index == IF known = -1 THEN Len(s.items) ELSE known
           S == Flow!Frame("added", index, p.of)
           T == Flow!Frame("part_added", index, p.of)
           P == Flow!Frame("delta", index, p.of)
           added == IF known # -1 THEN <<>> ELSE IF item.kind = "tool" THEN <<S>> ELSE <<S, T>>
           delta == IF p.kind = "call" THEN <<>> ELSE <<P>>
           E == added \o delta
           t == IF known # -1 THEN s ELSE [s EXCEPT !.items = Append(s.items, item)]
           q == Flow!ResponsesPart(r, p)
           n == Len(s.items)
           said == p.kind # "call"
           brief == item.kind = "tool"
<1>1. /\ s \in ResponsesSinks /\ ResponsesRun(G, r) /\ s.started /\ ItemsApart(s) /\ s.items \in Seq(Items) /\ n \in Nat
  <2>1. s \in ResponsesSinks /\ ResponsesRun(G, r) /\ s.started /\ ItemsApart(s)
    BY DEF ResponseRun, InResponse, ResponsesOk, ResponsesRun
  <2>2. s.items \in Seq(Items)
    BY <2>1, ResponsesSinksAre
  <2>3. n \in Nat
    <3> HIDE DEF Items, s
    <3> QED BY <2>2
  <2> QED BY <2>1, <2>2, <2>3
<1>2. ResponsesRun(G, q)
  <2> HIDE DEF ResponsesRun
  <2> QED BY <1>1, ResponsesPartKeeps
<1>3. /\ p.kind \in {"text", "reasoning", "call", "args"}
      /\ p.kind \in {"call", "args"} => p.index \in Nat
      /\ p.kind \in {"text", "reasoning"} => p.index = -1
      /\ p.of \in Int /\ p.index \in Int
  BY DEF PartSet
<1>4. /\ item \in Items /\ (item.kind # "tool" => item.call = -1)
  BY <1>3 DEF Flow!Item, Items
<1>5. q = Flow!Then(r, Flow!Numbered(t, E))
  BY Zenon DEF Flow!ResponsesPart, Flow!NoIndex
<1> HIDE DEF item
<1>6. \/ known = -1
      \/ \E i \in 1 .. Len(s.items) : s.items[i] = item /\ known = i - 1
  BY <1>1, ItemIs
<1>7. known = -1 => \A i \in 1 .. n : s.items[i] # item
  <2>1. ASSUME known = -1, NEW i \in 1 .. n, s.items[i] = item PROVE FALSE
    <3> DEFINE places == {k \in DOMAIN s.items : s.items[k] = item}
    <3>1. i \in places
      <4>1. DOMAIN s.items = 1 .. n
        <5> HIDE DEF Items, s
        <5> QED BY <1>1
      <4> QED BY <2>1, <4>1
    <3> DEFINE k == CHOOSE j \in places : TRUE
    <3>2. k \in places
      BY <3>1
    <3>3. Flow!ItemOf(s, item) = k - 1
      BY <3>1, Zenon DEF Flow!ItemOf
    <3>4. k \in 1 .. n
      <4>1. DOMAIN s.items = 1 .. n
        <5> HIDE DEF Items, s
        <5> QED BY <1>1
      <4> QED BY <3>2, <4>1
    <3> HIDE DEF k, places
    <3> QED BY <1>1, <2>1, <3>3, <3>4
  <2> QED BY <2>1
<1> HIDE DEF known
<1>8. /\ index \in Nat /\ (known = -1 => index = n) /\ (known # -1 => index \in 0 .. n - 1)
  BY <1>1, <1>6
<1> HIDE DEF index
<1>9. /\ S \in FrameSet /\ S.type = "added" /\ S.index = index
      /\ T \in FrameSet /\ T.type = "part_added"
      /\ P \in FrameSet /\ P.type = "delta" /\ P.index = index
  <2>1. "added" \in FrameTypes /\ "part_added" \in FrameTypes /\ "delta" \in FrameTypes
    BY DEF FrameTypes
  <2>2. index \in Int
    BY <1>8
  <2> QED BY <1>3, <2>1, <2>2, FrameIs
<1> HIDE DEF S, T, P, q
<1>10. Succeeds(s, t, E)
  <2>1. ASSUME known # -1 PROVE Succeeds(s, t, E)
    <3> DEFINE D == <<>> \o (IF said THEN <<P>> ELSE <<>>)
    <3>1. t = s
      BY <2>1
    <3>2. E = D
      BY <2>1
    <3>3. said \in BOOLEAN
      OBVIOUS
    <3>4. D \in Seq(FrameSet)
      <4> HIDE DEF FrameSet
      <4> QED BY <1>9
    <3>5. Adds(n, n, D)
      <4> HIDE DEF said, D, FrameSet
      <4>1. P.index \in 0 .. n - 1
        BY <1>8, <1>9, <2>1
      <4> QED BY <1>1, <1>9, <3>3, <4>1, KnownFrames DEF D
    <3> HIDE DEF t, E, D, s, Adds
    <3> QED BY <1>1, <3>1, <3>2, <3>4, <3>5 DEF Succeeds, n
  <2>2. ASSUME known = -1 PROVE Succeeds(s, t, E)
    <3> DEFINE D == (IF brief THEN <<S>> ELSE <<S, T>>) \o (IF said THEN <<P>> ELSE <<>>)
    <3>1. t = [s EXCEPT !.items = Append(s.items, item)]
      BY <2>2
    <3>2. E = D
      BY <2>2
    <3>3. said \in BOOLEAN /\ brief \in BOOLEAN
      OBVIOUS
    <3>4. D \in Seq(FrameSet)
      <4> DEFINE A == IF brief THEN <<S>> ELSE <<S, T>>
                 B == IF said THEN <<P>> ELSE <<>>
      <4> HIDE DEF FrameSet, said, brief
      <4>1. A \in Seq(FrameSet) /\ B \in Seq(FrameSet)
        BY <1>9
      <4> HIDE DEF A, B
      <4>2. A \o B \in Seq(FrameSet)
        BY <4>1, FramesFollow
      <4> QED BY <4>2 DEF A, B
    <3>5. Adds(n, n + 1, D)
      <4> HIDE DEF said, brief, FrameSet, D
      <4>1. S.index = n /\ P.index = n
        BY <1>8, <1>9, <2>2
      <4> QED BY <1>1, <1>9, <3>3, <4>1, ItemFrames DEF D
    <3> HIDE DEF E, D, t, s, Adds
    <3>6. t.items = Append(s.items, item) /\ t.started = s.started /\ t.seq = s.seq /\ t \in ResponsesSinks
      <4>1. Append(s.items, item) \in Seq(Items)
        <5> HIDE DEF Items
        <5> QED BY <1>1, <1>4
      <4> DEFINE l == Append(s.items, item)
      <4>2. t = [s EXCEPT !.items = l] /\ l \in Seq(Items)
        BY <3>1, <4>1
      <4> HIDE DEF l, Items
      <4>3. t.items = l /\ t.started = s.started /\ t.seq = s.seq /\ t \in ResponsesSinks
        BY <1>1, <4>2 DEF ResponsesSinks
      <4> QED BY <4>3 DEF l
    <3>7. /\ Len(t.items) = n + 1 /\ t.items[n + 1] = item
          /\ \A i \in 1 .. n : t.items[i] = s.items[i]
      <4> HIDE DEF Items
      <4> QED BY <1>1, <1>4, <3>6
    <3>8. ItemsApart(t)
      <4>1. \A i \in 1 .. Len(t.items) : i \in 1 .. n \/ i = n + 1
        BY <1>1, <3>7
      <4> QED BY <1>1, <1>4, <1>7, <2>2, <3>7, <4>1 DEF ItemsApart
    <3> QED BY <1>1, <3>2, <3>4, <3>5, <3>6, <3>7, <3>8 DEF Succeeds, n
  <2> QED BY <2>1, <2>2
<1> HIDE DEF s, t, E, Succeeds, ResponseRun, ResponsesRun
<1>11. ResponseRun(G, Flow!Then(r, Flow!Numbered(t, E)))
  <2>1. Succeeds(r.state, t, E)
    BY <1>10 DEF s
  <2>2. ResponsesRun(G, Flow!Then(r, Flow!Numbered(t, E)))
    BY <1>2, <1>5
  <2> QED BY <2>1, <2>2, FollowsNumbered
<1> QED BY <1>5, <1>11 DEF q

(* A Responses stream that has not begun.                                  *)
Unstarted(s, G) == ResponsesOk(s, G) /\ ~s.started /\ G = <<>> /\ s.items = <<>>

(* Its first event, or none when it has begun, leaves it open.             *)
LEMMA StartAdds ==
    ASSUME NEW G, NEW s, Unstarted(s, G) \/ InResponse(s, G)
    PROVE  ResponseRun(G, Flow!StartResponses(s))
<1> DEFINE q == Flow!StartResponses(s)
<1>1. ResponsesRun(G, q) /\ s \in ResponsesSinks /\ G \in Seq(FrameSet)
  <2>1. ResponsesOk(s, G)
    BY DEF Unstarted, InResponse
  <2> HIDE DEF ResponsesRun
  <2> QED BY <2>1, ResponsesStarts DEF ResponsesOk
<1>2. CASE InResponse(s, G)
  <2>1. q = Flow!Result(s, <<>>)
    BY <1>2 DEF Flow!StartResponses, InResponse
  <2>2. q.state = s /\ q.out = <<>>
    BY <2>1 DEF Flow!Result
  <2> HIDE DEF q
  <2>3. <<>> \in Seq(FrameSet) /\ G \o <<>> = G
    <3> HIDE DEF FrameSet
    <3> QED BY <1>1
  <2> HIDE DEF InResponse
  <2> QED BY <1>2, <2>2, <2>3 DEF ResponseRun, q
<1>3. CASE Unstarted(s, G)
  <2> DEFINE z == s.seq + 1
             t == [s EXCEPT !.started = TRUE, !.seq = z]
             S == Flow!Frame("created", -1, -1)
             E == <<S>>
             F == Flow!Numbered(t, E).out
             u == Flow!Numbered(t, E).state
  <2>1. ~s.started /\ G = <<>> /\ s.items = <<>> /\ z \in Nat
    BY <1>1, <1>3, ResponsesSinksAre DEF Unstarted
  <2>2. q = Flow!Numbered(t, E)
    BY <2>1 DEF Flow!StartResponses, Flow!NoIndex
  <2> HIDE DEF z
  <2>3. t \in ResponsesSinks /\ t.items = s.items /\ t.started = TRUE /\ t.seq = z
    <3>1. "none" \in Ends
      BY DEF Ends
    <3>2. t \in ResponsesSinks /\ t.items = s.items
      BY <1>1, <2>1, <3>1, ResponsesFlags
    <3>3. t.started = TRUE /\ t.seq = z
      BY <1>1 DEF ResponsesSinks
    <3> QED BY <3>2, <3>3
  <2>4. S \in FrameSet /\ S.type = "created"
    <3>1. "created" \in FrameTypes
      BY DEF FrameTypes
    <3> QED BY <3>1, FrameIs
  <2> HIDE DEF t, S
  <2>5. E \in Seq(FrameSet) /\ Len(E) = 1 /\ E[1] = S
    <3> HIDE DEF FrameSet
    <3> QED BY <2>4
  <2> HIDE DEF E
  <2>6. Like(E, F) /\ u \in ResponsesSinks /\ u.items = t.items
    BY <2>3, <2>5, NumberedIs
  <2>7. NumberedFrom(F, z) /\ u.seq = z + Len(E) /\ u.started = t.started
    BY <2>3, <2>5, NumberedCounts
  <2> HIDE DEF F, u
  <2>8. F \in Seq(FrameSet) /\ Len(F) = 1 /\ F[1].type = "created"
    <3>1. F \in Seq(FrameSet) /\ Len(F) = 1 /\ 1 \in 1 .. Len(E)
      <4>1. F \in Seq(FrameSet) /\ Len(E) = Len(F)
        <5> HIDE DEF FrameSet
        <5> QED BY <2>6 DEF Like
      <4> HIDE DEF FrameSet
      <4>2. F \in Seq(FrameSet) /\ Len(F) = 1
        BY <2>5, <4>1
      <4>3. 1 \in 1 .. Len(E)
        BY <2>5
      <4> QED BY <4>2, <4>3
    <3>2. E[1].type = F[1].type
      BY <2>6, <3>1 DEF Like
    <3> QED BY <2>4, <2>5, <3>1, <3>2
  <2>9. F[1].seq = z + 1 /\ u.seq = z + 1
    BY <2>5, <2>7, <2>8 DEF NumberedFrom
  <2>10. Len(u.items) = 0 /\ ItemsApart(u)
    BY <2>1, <2>3, <2>6 DEF ItemsApart
  <2>11. Headed(F, "created") /\ Places(F, "done") = {} /\ Places(F, "added") = {} /\ Places(F, "delta") = {}
    BY <2>8 DEF Headed, Places
  <2>12. Adding(0, z + 1, F)
    <3>1. \A i \in 1 .. Len(F) : i = 1
      BY <2>8
    <3>2. \A i \in 1 .. Len(F) : F[i].seq <= z + 1
      BY <2>1, <2>9, <3>1
    <3>3. \A i, j \in 1 .. Len(F) : ~(i < j)
      BY <3>1
    <3>4. 0 .. 0 - 1 = {}
      OBVIOUS
    <3> HIDE DEF Headed, Places
    <3> QED BY <2>11, <3>2, <3>3, <3>4 DEF Adding
  <2>13. G \o F = F
    <3> HIDE DEF FrameSet
    <3> QED BY <2>1, <2>8
  <2>14. q.state = u /\ q.out = F
    BY <2>2 DEF F, u
  <2>15. ResponsesOk(u, F)
    BY <1>1, <2>13, <2>14 DEF ResponsesRun
  <2> HIDE DEF q, Adding, ItemsApart, ResponsesOk
  <2>16. InResponse(u, F)
    BY <2>3, <2>7, <2>8, <2>9, <2>10, <2>12, <2>15 DEF InResponse
  <2> HIDE DEF InResponse
  <2> QED BY <2>8, <2>13, <2>14, <2>16 DEF ResponseRun, q
<1> QED BY <1>2, <1>3

(* The parts of a chunk, one after the other.                              *)
LEMMA SaysAdds ==
    ASSUME NEW G \in Seq(FrameSet), NEW q, ResponseRun(G, q), NEW parts \in Seq(PartSet), q = Flow!Result(q.state, q.out)
    PROVE  ResponseRun(G, Flow!ResponsesSays(q, parts))
<1> DEFINE n == Len(parts)
<1>1. n \in Nat /\ \A i \in 1 .. n : parts[i] \in PartSet
  <2> HIDE DEF PartSet
  <2> QED OBVIOUS
<1>2. ResponsesRun(G, q)
  BY DEF ResponseRun, InResponse, ResponsesRun
<1>3. PICK said : ItemsInTurn(said, G, q, parts) /\ Flow!ResponsesSays(q, parts) = said[n]
  BY <1>2, ResponsesSaysIs
<1>4. said[0] = q /\ \A i \in 1 .. n : said[i] = Flow!ResponsesPart(said[i - 1], parts[i])
  BY <1>3 DEF ItemsInTurn
<1> HIDE DEF n, ResponseRun
<1> DEFINE Q == {i \in 0 .. n : ResponseRun(G, said[i])}
<1>5. 0 \in Q
  BY <1>1, <1>4
<1>6. ASSUME NEW i \in 1 .. n, i - 1 \in Q PROVE i \in Q
  <2>1. ResponseRun(G, said[i - 1])
    BY <1>6
  <2>2. ResponseRun(G, Flow!ResponsesPart(said[i - 1], parts[i]))
    BY <1>1, <2>1, PartAdds
  <2> QED BY <1>1, <1>4, <2>2
<1>7. n \in Q
  <2> HIDE DEF Q
  <2>1. \A i \in 0 .. n : i \in Q
    BY <1>1, <1>5, <1>6, LoopKeeps
  <2> QED BY <1>1, <2>1
<1> QED BY <1>3, <1>7

(* What a chunk says, once its finish reason is noted.                     *)
Noting(r, c) ==
    LET f == IF c.finish = "none" THEN r.state.finish ELSE c.finish
    IN  Flow!ResponsesSays(Flow!Result([r.state EXCEPT !.finish = f], r.out), c.parts)

(* It keeps the stream open.                                               *)
LEMMA NotingAdds ==
    ASSUME NEW G \in Seq(FrameSet), NEW r, ResponseRun(G, r), NEW c, c.parts \in Seq(PartSet), c.finish \in Ends
    PROVE  ResponseRun(G, Noting(r, c))
<1> DEFINE f == IF c.finish = "none" THEN r.state.finish ELSE c.finish
           st == [r.state EXCEPT !.finish = f]
           noted == Flow!Result(st, r.out)
           said == Flow!ResponsesSays(noted, c.parts)
<1>0. Noting(r, c) = said
  BY Zenon DEF Noting
<1>1. r.state \in ResponsesSinks /\ r.out \in Seq(FrameSet) /\ InResponse(r.state, G \o r.out)
  BY DEF ResponseRun, InResponse, ResponsesOk
<1>2. f \in Ends
  BY <1>1, ResponsesSinksAre
<1> HIDE DEF f
<1>3. /\ st \in ResponsesSinks /\ st.items = r.state.items /\ st.started = r.state.started
      /\ st.seq = r.state.seq
  <2>1. st \in ResponsesSinks /\ st.items = r.state.items
    BY <1>1, <1>2, ResponsesFlags
  <2>2. st.started = r.state.started /\ st.seq = r.state.seq
    BY <1>1 DEF ResponsesSinks
  <2> QED BY <2>1, <2>2
<1> HIDE DEF st
<1>4. InResponse(st, G \o r.out)
  <2>1. ResponsesOk(st, G \o r.out)
    BY <1>1, <1>3, ResponsesSame DEF InResponse
  <2>2. ItemsApart(st)
    BY <1>1, <1>3 DEF InResponse, ItemsApart
  <2> HIDE DEF ItemsApart, ResponsesOk, Adding
  <2> QED BY <1>1, <1>3, <2>1, <2>2 DEF InResponse
<1>5. noted.state = st /\ noted.out = r.out
  BY DEF Flow!Result
<1>6. ResponseRun(G, noted) /\ noted = Flow!Result(noted.state, noted.out)
  <2>1. noted = Flow!Result(noted.state, noted.out)
    BY <1>5
  <2> HIDE DEF noted, InResponse
  <2>2. ResponseRun(G, noted)
    BY <1>1, <1>4, <1>5 DEF ResponseRun
  <2> QED BY <2>1, <2>2
<1> HIDE DEF noted, ResponseRun
<1>7. ResponseRun(G, said)
  BY <1>6, SaysAdds
<1> QED BY <1>0, <1>7

(* A chunk keeps the stream open.                                          *)
LEMMA ResponseFrames ==
    ASSUME NEW G, NEW s, Unstarted(s, G) \/ InResponse(s, G), NEW c, c.parts \in Seq(PartSet), c.finish \in Ends
    PROVE  ResponseRun(G, Flow!ResponsesFrames(s, c, FALSE))
<1> DEFINE begin == Flow!StartResponses(s)
<1>1. ResponseRun(G, begin) /\ G \in Seq(FrameSet)
  <2>1. G \in Seq(FrameSet)
    BY DEF Unstarted, InResponse, ResponsesOk
  <2> HIDE DEF ResponseRun, Unstarted, InResponse
  <2> QED BY <2>1, StartAdds
<1>2. Flow!ResponsesFrames(s, c, FALSE) = Noting(begin, c)
  BY Zenon DEF Flow!ResponsesFrames, Noting
<1> HIDE DEF begin, ResponseRun
<1> QED BY <1>1, <1>2, NotingAdds

-----------------------------------------------------------------------------
(* The end of a Responses stream: every item is done once.                 *)

(* Items that are apart have ranks of their own.                           *)
LEMMA RanksApart ==
    ASSUME NEW x \in Items, NEW y \in Items, x.kind # "tool" => x.call = -1, y.kind # "tool" => y.call = -1,
           Flow!Rank(x) = Flow!Rank(y)
    PROVE  x = y
<1>1. /\ x.kind \in {"tool", "text", "reasoning"} /\ (x.kind = "tool" => x.call \in Nat)
      /\ y.kind \in {"tool", "text", "reasoning"} /\ (y.kind = "tool" => y.call \in Nat)
  BY ItemsAre
<1>2. /\ x.kind = "reasoning" => Flow!Rank(x) = 0
      /\ x.kind = "text" => Flow!Rank(x) = 1
      /\ x.kind = "tool" => Flow!Rank(x) = x.call + 2
      /\ y.kind = "reasoning" => Flow!Rank(y) = 0
      /\ y.kind = "text" => Flow!Rank(y) = 1
      /\ y.kind = "tool" => Flow!Rank(y) = y.call + 2
  BY DEF Flow!Rank
<1>3. x.kind = y.kind /\ x.call = y.call
  BY <1>1, <1>2
<1> QED BY <1>3 DEF Items

(* The item of a rank is the one that has it.                              *)
LEMMA RankedIs ==
    ASSUME NEW s \in ResponsesSinks, NEW k \in 1 .. Len(s.items), ItemsApart(s)
    PROVE  \A j : j \in 1 .. Len(s.items) /\ Flow!Rank(s.items[j]) = Flow!Rank(s.items[k]) => j = k
<1> SUFFICES ASSUME NEW j \in 1 .. Len(s.items), Flow!Rank(s.items[j]) = Flow!Rank(s.items[k]) PROVE j = k
  OBVIOUS
<1>1. s.items[j] \in Items /\ s.items[k] \in Items
  BY ResponsesSinksAre
<1>2. s.items[j] = s.items[k]
  <2> DEFINE x == s.items[j]
             y == s.items[k]
  <2>1. x \in Items /\ y \in Items /\ (x.kind # "tool" => x.call = -1) /\ (y.kind # "tool" => y.call = -1)
        /\ Flow!Rank(x) = Flow!Rank(y)
    BY <1>1 DEF ItemsApart
  <2> HIDE DEF x, y
  <2>2. x = y
    BY <2>1, RanksApart
  <2> QED BY <2>2 DEF x, y
<1> QED BY <1>2 DEF ItemsApart

(* The events that close an item end with its own.                         *)
ClosesItem(C, k) ==
    /\ C \in Seq(FrameSet) /\ Len(C) \in 2 .. 3 /\ C[Len(C)].type = "done" /\ C[Len(C)].index = k
    /\ \A i \in 1 .. Len(C) : i # Len(C) => C[i].type \in {"part_done", "text_done"}

(* Closing makes them, of the item with the rank.                          *)
LEMMA ClosingShape ==
    ASSUME NEW s \in ResponsesSinks, NEW rank \in {Flow!Rank(s.items[i]) : i \in DOMAIN s.items}
    PROVE  \E i \in 1 .. Len(s.items) : Flow!Rank(s.items[i]) = rank /\ ClosesItem(Flow!Closing(s, rank), i - 1)
<1> DEFINE i == Flow!ItemRanked(s, rank)
           k == i - 1
           A == Flow!Frame("part_done", k, -1)
           B == Flow!Frame("done", k, -1)
           D == Flow!Frame("text_done", k, -1)
           C == Flow!Closing(s, rank)
<1>1. i \in DOMAIN s.items /\ Flow!Rank(s.items[i]) = rank
  <2>1. \E j \in DOMAIN s.items : Flow!Rank(s.items[j]) = rank
    OBVIOUS
  <2> QED BY <2>1 DEF Flow!ItemRanked
<1>2. i \in 1 .. Len(s.items) /\ k \in Int
  <2>1. DOMAIN s.items = 1 .. Len(s.items) /\ Len(s.items) \in Nat
    <3>1. s.items \in Seq(Items)
      BY ResponsesSinksAre
    <3> HIDE DEF Items
    <3> QED BY <3>1
  <2> HIDE DEF i
  <2> QED BY <1>1, <2>1
<1>3. C = IF rank = 0 THEN <<D>> \o <<A, B>> ELSE <<A, B>>
  BY DEF Flow!Closing, Flow!NoIndex
<1> HIDE DEF k
<1>4. /\ A \in FrameSet /\ A.type = "part_done" /\ B \in FrameSet /\ B.type = "done" /\ B.index = k
      /\ D \in FrameSet /\ D.type = "text_done"
  <2>1. "part_done" \in FrameTypes /\ "done" \in FrameTypes /\ "text_done" \in FrameTypes
    BY DEF FrameTypes
  <2> QED BY <1>2, <2>1, FrameIs
<1> HIDE DEF A, B, C, D, FrameSet
<1>5. <<A, B>> \in Seq(FrameSet) /\ Len(<<A, B>>) = 2 /\ <<A, B>>[1] = A /\ <<A, B>>[2] = B
  BY <1>4
<1>6. <<D>> \in Seq(FrameSet) /\ Len(<<D>>) = 1 /\ <<D>>[1] = D
  BY <1>4
<1>7. ClosesItem(C, k)
  <2>1. CASE rank = 0
    <3> DEFINE x == <<D>>
               y == <<A, B>>
    <3>1. C = x \o y
      BY <1>3, <2>1
    <3> HIDE DEF x, y
    <3>2. x \in Seq(FrameSet) /\ y \in Seq(FrameSet) /\ Len(x) = 1 /\ Len(y) = 2 /\ x[1] = D /\ y[1] = A /\ y[2] = B
      BY <1>5, <1>6 DEF x, y
    <3>3. /\ C \in Seq(FrameSet) /\ Len(C) = 3
          /\ \A j \in 1 .. 1 : C[j] = x[j]
          /\ \A j \in 1 .. 2 : C[1 + j] = y[j]
      <4>1. /\ C \in Seq(FrameSet) /\ Len(C) = Len(x) + Len(y)
            /\ \A j \in 1 .. Len(x) : C[j] = x[j]
            /\ \A j \in 1 .. Len(y) : C[Len(x) + j] = y[j]
        BY <3>1, <3>2, TwoRuns
      <4> QED BY <3>2, <4>1
    <3>4. C[1] = D /\ C[2] = A /\ C[3] = B
      <4>1. 1 \in 1 .. 1 /\ 1 \in 1 .. 2 /\ 2 \in 1 .. 2 /\ 1 + 1 = 2 /\ 1 + 2 = 3
        OBVIOUS
      <4> QED BY <3>2, <3>3, <4>1
    <3>5. \A j \in 1 .. 3 : j # 3 => j = 1 \/ j = 2
      OBVIOUS
    <3> QED BY <1>4, <3>3, <3>4, <3>5 DEF ClosesItem
  <2>2. CASE rank # 0
    <3>1. C \in Seq(FrameSet) /\ Len(C) = 2 /\ C[1] = A /\ C[2] = B
      BY <1>3, <1>5, <2>2
    <3>2. \A j \in 1 .. 2 : j # 2 => j = 1
      OBVIOUS
    <3> QED BY <1>4, <3>1, <3>2 DEF ClosesItem
  <2> QED BY <2>1, <2>2
<1>8. Flow!Rank(s.items[i]) = rank /\ ClosesItem(C, i - 1)
  BY <1>1, <1>7 DEF k
<1> HIDE DEF i
<1> QED BY <1>2, <1>8 DEF C

(* One frame, and no other, ends the item at x.                            *)
EndsIt(f, x) == f.type = "done" /\ f.index = x

(* Such a frame there is, and one only.                                    *)
DoneOnce(F, x) ==
    \E i \in 1 .. Len(F) : EndsIt(F[i], x) /\ \A j \in 1 .. Len(F) : EndsIt(F[j], x) => j = i

(* Frames that end the first n items.                                      *)
ItemsDone(n, F) ==
    /\ F \in Seq(FrameSet)
    /\ \A i \in 1 .. Len(F) : F[i].type \in {"part_done", "text_done", "done"}
    /\ \A x \in 0 .. n - 1 : DoneOnce(F, x)

(* The frames of a list of ranks: the m-th closes the item of its own.     *)
Closers(s, ranks, ss) ==
    /\ Lists(ranks, {Flow!Rank(s.items[i]) : i \in 1 .. Len(s.items)})
    /\ \A k \in 1 .. Len(ranks) :
          \E i \in 1 .. Len(s.items) : Flow!Rank(s.items[i]) = ranks[k] /\ ClosesItem(ss[k], i - 1)

(* All of them together end every item once.                               *)
LEMMA ClosersEnd ==
    ASSUME NEW s \in ResponsesSinks, ItemsApart(s), NEW ranks, NEW m \in Nat, m = Len(ranks),
           NEW ss, Closers(s, ranks, ss), NEW off, NEW F \in Seq(FrameSet), Spread(ss, m, off, F)
    PROVE  ItemsDone(Len(s.items), F)
<1> DEFINE n == Len(s.items)
           R(i) == Flow!Rank(s.items[i])
<1>1. /\ \A k, l \in 1 .. m : ranks[k] = ranks[l] => k = l
      /\ \A i \in 1 .. n : \E k \in 1 .. m : ranks[k] = R(i)
      /\ \A k \in 1 .. m : \E i \in 1 .. n : R(i) = ranks[k] /\ ClosesItem(ss[k], i - 1)
  BY DEF Closers, Lists
<1>2. n \in Nat /\ \A i, j \in 1 .. n : R(i) = R(j) => i = j
  <2>1. n \in Nat
    <3>1. s.items \in Seq(Items)
      BY ResponsesSinksAre
    <3> HIDE DEF Items
    <3> QED BY <3>1
  <2> QED BY <2>1, RankedIs
<1> HIDE DEF n, R
<1>3. /\ off \in [0 .. m -> Nat] /\ Len(F) = off[m]
      /\ \A k \in 1 .. m : off[k] = off[k - 1] + Len(ss[k])
      /\ \A k \in 1 .. m : \A l \in 1 .. Len(ss[k]) : F[off[k - 1] + l] = ss[k][l]
      /\ \A k, l \in 0 .. m : k <= l => off[k] <= off[l]
      /\ \A p \in 1 .. Len(F) : \E k \in 1 .. m : \E l \in 1 .. Len(ss[k]) : p = off[k - 1] + l
  BY DEF Spread
<1>4. ASSUME NEW k \in 1 .. m
      PROVE  /\ Len(ss[k]) \in Nat /\ Len(ss[k]) > 0 /\ off[k - 1] \in Nat
             /\ ss[k][Len(ss[k])].type = "done"
             /\ \A l \in 1 .. Len(ss[k]) :
                   /\ ss[k][l].type \in {"part_done", "text_done", "done"}
                   /\ ss[k][l].type = "done" => l = Len(ss[k])
  <2>1. PICK i \in 1 .. n : ClosesItem(ss[k], i - 1)
    BY <1>1
  <2> DEFINE C == ss[k]
             c == Len(C)
  <2>a. ClosesItem(C, i - 1)
    BY <2>1
  <2> HIDE DEF C
  <2>b. /\ c \in 2 .. 3 /\ C[c].type = "done"
        /\ \A l \in 1 .. c : l # c => C[l].type \in {"part_done", "text_done"}
    BY <2>a, Zenon DEF ClosesItem
  <2> HIDE DEF c
  <2>2. /\ c \in Nat /\ c > 0 /\ C[c].type = "done"
        /\ \A l \in 1 .. c : l # c => C[l].type \in {"part_done", "text_done"}
    BY <2>b
  <2>3. \A l \in 1 .. c : C[l].type \in {"part_done", "text_done", "done"} /\ (C[l].type = "done" => l = c)
    BY <2>2
  <2>4. k - 1 \in 0 .. m
    OBVIOUS
  <2>5. off[k - 1] \in Nat
    BY <1>3, <2>4
  <2> QED BY <2>2, <2>3, <2>5 DEF C, c
<1>5. \A i \in 1 .. Len(F) : F[i].type \in {"part_done", "text_done", "done"}
  <2> SUFFICES ASSUME NEW p \in 1 .. Len(F) PROVE F[p].type \in {"part_done", "text_done", "done"}
    OBVIOUS
  <2>1. PICK k \in 1 .. m : \E l \in 1 .. Len(ss[k]) : p = off[k - 1] + l
    BY <1>3
  <2>2. PICK l \in 1 .. Len(ss[k]) : p = off[k - 1] + l
    BY <2>1
  <2>3. F[p] = ss[k][l]
    BY <1>3, <2>2
  <2> QED BY <1>4, <2>3
<1>6. ASSUME NEW x \in 0 .. n - 1 PROVE DoneOnce(F, x)
  <2>1. x + 1 \in 1 .. n
    BY <1>2
  <2>2. PICK k \in 1 .. m : ranks[k] = R(x + 1)
    BY <1>1, <2>1
  <2>3. ASSUME NEW l \in 1 .. m, ss[l][Len(ss[l])].index = x PROVE l = k
    <3>1. PICK i \in 1 .. n : R(i) = ranks[l] /\ ClosesItem(ss[l], i - 1)
      BY <1>1
    <3>2. i - 1 = x
      BY <2>3, <3>1 DEF ClosesItem
    <3>3. ranks[l] = ranks[k]
      <4>1. i = x + 1
        BY <3>2
      <4> QED BY <2>2, <3>1, <4>1
    <3> QED BY <1>1, <3>3
  <2>4. ss[k][Len(ss[k])].index = x
    <3>1. PICK i \in 1 .. n : R(i) = ranks[k] /\ ClosesItem(ss[k], i - 1)
      BY <1>1
    <3>2. i = x + 1
      BY <1>2, <2>1, <2>2, <3>1
    <3>3. i - 1 = x
      BY <3>2
    <3> QED BY <3>1, <3>3 DEF ClosesItem
  <2> DEFINE c == Len(ss[k])
             p == off[k - 1] + c
  <2>5. c \in 1 .. Len(ss[k]) /\ F[p] = ss[k][c]
    <3>1. c \in Nat /\ c > 0
      BY <1>4
    <3>2. c \in 1 .. c
      BY <3>1
    <3> QED BY <1>3, <3>2
  <2>6. p \in 1 .. Len(F)
    <3>1. k \in 0 .. m /\ m \in 0 .. m /\ k <= m
      OBVIOUS
    <3>2. p = off[k] /\ off[k] <= off[m] /\ p \in Nat /\ p > 0 /\ off[m] \in Nat
      BY <1>3, <1>4, <3>1
    <3> QED BY <1>3, <3>2
  <2>7. EndsIt(F[p], x)
    BY <1>4, <2>4, <2>5 DEF EndsIt
  <2>8. ASSUME NEW q \in 1 .. Len(F), EndsIt(F[q], x) PROVE q = p
    <3>1. PICK l \in 1 .. m : \E j \in 1 .. Len(ss[l]) : q = off[l - 1] + j
      BY <1>3
    <3>2. PICK j \in 1 .. Len(ss[l]) : q = off[l - 1] + j
      BY <3>1
    <3>3. F[q] = ss[l][j]
      BY <1>3, <3>2
    <3>4. j = Len(ss[l]) /\ ss[l][Len(ss[l])].index = x
      BY <1>4, <2>8, <3>3 DEF EndsIt
    <3>5. l = k
      BY <2>3, <3>4
    <3> QED BY <3>2, <3>4, <3>5
  <2> QED BY <2>6, <2>7, <2>8 DEF DoneOnce
<1> QED BY <1>5, <1>6 DEF ItemsDone, n

(* What ends a Responses stream of n items.                                *)
Completes(n, E) ==
    /\ E \in Seq(FrameSet) /\ Len(E) > 0
    /\ Places(E, "created") = {} /\ Places(E, "added") = {} /\ Places(E, "delta") = {}
    /\ E[Len(E)].type \in {"completed", "incomplete"}
    /\ \A x \in 0 .. n - 1 : DoneOnce(E, x)

(* The last event after the ends of the items.                             *)
LEMMA FinalCompletes ==
    ASSUME NEW n \in Nat, NEW F, ItemsDone(n, F), NEW f \in FrameSet, f.type \in {"completed", "incomplete"}
    PROVE  Completes(n, F \o <<f>>)
<1> DEFINE E == F \o <<f>>
           m == Len(F)
<1>0. /\ F \in Seq(FrameSet)
      /\ \A i \in 1 .. m : F[i].type \in {"part_done", "text_done", "done"}
      /\ \A x \in 0 .. n - 1 : DoneOnce(F, x)
  BY DEF ItemsDone
<1>1. /\ E \in Seq(FrameSet) /\ m \in Nat /\ Len(E) = m + 1 /\ E[m + 1] = f
      /\ \A i \in 1 .. m : E[i] = F[i]
  BY <1>0, OneFrame
<1> HIDE DEF E
<1>2. \A i \in 1 .. Len(E) : i \in 1 .. m \/ i = m + 1
  BY <1>1
<1>3. \A i \in 1 .. Len(E) : E[i].type \notin {"created", "added", "delta"}
  BY <1>0, <1>1, <1>2
<1>4. ASSUME NEW x \in 0 .. n - 1 PROVE DoneOnce(E, x)
  <2>1. PICK i \in 1 .. m : EndsIt(F[i], x) /\ \A j \in 1 .. m : EndsIt(F[j], x) => j = i
    BY <1>0 DEF DoneOnce
  <2>2. i \in 1 .. Len(E) /\ EndsIt(E[i], x)
    BY <1>1, <2>1
  <2>3. \A j \in 1 .. Len(E) : EndsIt(E[j], x) => j = i
    <3>1. ~EndsIt(E[m + 1], x)
      BY <1>1 DEF EndsIt
    <3> QED BY <1>1, <1>2, <2>1, <3>1
  <2> QED BY <2>2, <2>3 DEF DoneOnce
<1>5. Len(E) > 0 /\ E[Len(E)].type \in {"completed", "incomplete"}
  BY <1>1
<1>6. Places(E, "created") = {} /\ Places(E, "added") = {} /\ Places(E, "delta") = {}
  BY <1>3 DEF Places
<1>7. Completes(n, E)
  <2> HIDE DEF Places
  <2> QED BY <1>1, <1>4, <1>5, <1>6 DEF Completes
<1> QED BY <1>7 DEF E

(* Numbering makes no difference to it.                                    *)
LEMMA LikeCompletes ==
    ASSUME NEW E, NEW F, Like(E, F), NEW n \in Nat, Completes(n, E)
    PROVE  Completes(n, F)
<1>1. /\ F \in Seq(FrameSet) /\ Len(E) = Len(F) /\ Len(F) > 0
      /\ \A i \in 1 .. Len(F) : E[i].type = F[i].type /\ E[i].index = F[i].index
  <2> HIDE DEF FrameSet, Places, DoneOnce
  <2> QED BY DEF Like, Completes
<1>2. \A k : Places(E, k) = Places(F, k)
  BY LikePlaces
<1>3. F[Len(F)].type \in {"completed", "incomplete"}
  <2>1. Len(F) \in 1 .. Len(F)
    <3> HIDE DEF FrameSet
    <3> QED BY <1>1
  <2>2. E[Len(E)].type \in {"completed", "incomplete"}
    BY DEF Completes
  <2> QED BY <1>1, <2>1, <2>2
<1>4. ASSUME NEW x \in 0 .. n - 1 PROVE DoneOnce(F, x)
  <2>1. DoneOnce(E, x)
    BY DEF Completes
  <2>2. \A i \in 1 .. Len(F) : EndsIt(E[i], x) <=> EndsIt(F[i], x)
    BY <1>1 DEF EndsIt
  <2> HIDE DEF EndsIt, FrameSet
  <2> QED BY <1>1, <2>1, <2>2 DEF DoneOnce
<1> HIDE DEF DoneOnce, Places, FrameSet
<1> QED BY <1>1, <1>2, <1>3, <1>4 DEF Completes

(* The frames of a Responses stream that is complete.                      *)
Completed(G) ==
    /\ Headed(G, "created")
    /\ \A i, j \in 1 .. Len(G) : i < j => G[i].seq < G[j].seq
    /\ \A i, j \in Places(G, "added") : G[i].index = G[j].index => i = j
    /\ \A i \in Places(G, "delta") : \E j \in Places(G, "added") : j < i /\ G[j].index = G[i].index
    /\ Len(G) > 0 /\ G[Len(G)].type \in {"completed", "incomplete"}
    /\ \A i \in Places(G, "added") : DoneOnce(G, G[i].index)

(* What ends the items of an open stream completes it.                     *)
LEMMA CompletedIs ==
    ASSUME NEW G \in Seq(FrameSet), Len(G) > 0, NEW n \in Nat, NEW z \in Nat, Adding(n, z, G),
           NEW E, Completes(n, E), NumberedFrom(E, z)
    PROVE  Completed(G \o E)
<1> DEFINE H == G \o E
           g == Len(G)
           e == Len(E)
           A == Places(G, "added")
           D == Places(G, "delta")
<1>0. /\ E \in Seq(FrameSet) /\ e > 0
      /\ \A i \in 1 .. e : E[i].type \notin {"created", "added", "delta"}
      /\ E[e].type \in {"completed", "incomplete"}
      /\ \A x \in 0 .. n - 1 : DoneOnce(E, x)
  BY DEF Completes, Places
<1>1. /\ H \in Seq(FrameSet) /\ g \in Nat /\ e \in Nat /\ Len(H) = g + e /\ g > 0
      /\ \A i \in 1 .. g : H[i] = G[i]
      /\ \A i \in 1 .. e : H[g + i] = E[i]
  BY <1>0, TwoRuns
<1>2. /\ Headed(G, "created") /\ Places(G, "done") = {}
      /\ \A i, j \in 1 .. g : i < j => G[i].seq < G[j].seq
      /\ \A i \in 1 .. g : G[i].seq <= z
      /\ \A i \in A : G[i].index \in 0 .. n - 1
      /\ \A i, j \in A : G[i].index = G[j].index => i = j
      /\ \A i \in D : \E j \in A : j < i /\ G[j].index = G[i].index
  BY DEF Adding
<1>3. \A i \in 1 .. e : E[i].seq = z + i
  BY DEF NumberedFrom
<1>4. \A i \in 1 .. g : G[i].type # "done" /\ ((i = 1) <=> G[i].type = "created") /\ G[i].seq \in Nat
  <2>1. \A i \in 1 .. g : G[i].seq \in Nat
    BY FrameAt
  <2> QED BY <1>2, <2>1 DEF Places, Headed
<1> HIDE DEF H, g, e, FrameSet
<1>5. \A i \in 1 .. Len(H) : \/ i \in 1 .. g /\ H[i] = G[i]
                             \/ i - g \in 1 .. e /\ H[i] = E[i - g] /\ i = g + (i - g) /\ i > g
  <2> SUFFICES ASSUME NEW i \in 1 .. Len(H)
               PROVE  \/ i \in 1 .. g /\ H[i] = G[i]
                      \/ i - g \in 1 .. e /\ H[i] = E[i - g] /\ i = g + (i - g) /\ i > g
    OBVIOUS
  <2>1. CASE i <= g
    <3>1. i \in 1 .. g
      BY <1>1, <2>1
    <3> QED BY <1>1, <3>1
  <2>2. CASE i > g
    <3> DEFINE k == i - g
    <3>1. k \in 1 .. e /\ i = g + k
      BY <1>1, <2>2
    <3> HIDE DEF k
    <3>2. H[i] = E[k]
      BY <1>1, <3>1
    <3> QED BY <2>2, <3>1, <3>2 DEF k
  <2> QED BY <1>1, <2>1, <2>2
<1>6. (\A i \in 1 .. g : i \in 1 .. Len(H)) /\ \A i \in 1 .. e : g + i \in 1 .. Len(H)
  BY <1>1
<1>7. Headed(H, "created")
  <2>1. \A i \in 1 .. Len(H) : (i = 1) <=> H[i].type = "created"
    <3> SUFFICES ASSUME NEW i \in 1 .. Len(H) PROVE (i = 1) <=> H[i].type = "created"
      OBVIOUS
    <3>1. CASE i \in 1 .. g /\ H[i] = G[i]
      BY <1>4, <3>1
    <3>2. CASE i - g \in 1 .. e /\ H[i] = E[i - g] /\ i > g
      BY <1>0, <1>1, <3>2
    <3> QED BY <1>5, <3>1, <3>2
  <2> QED BY <2>1 DEF Headed
<1>8. \A i \in 1 .. Len(H) : i > g => H[i].seq = z + (i - g)
  <2> SUFFICES ASSUME NEW i \in 1 .. Len(H), i > g PROVE H[i].seq = z + (i - g)
    OBVIOUS
  <2> DEFINE k == i - g
  <2>1. k \in 1 .. e /\ H[i] = E[k]
    BY <1>1, <1>5
  <2> HIDE DEF k
  <2>2. H[i].seq = z + k
    BY <1>3, <2>1
  <2> QED BY <2>2 DEF k
<1>9. ASSUME NEW i \in 1 .. Len(H), NEW j \in 1 .. Len(H), i < j PROVE H[i].seq < H[j].seq
  <2>1. CASE j <= g
    <3>1. i \in 1 .. g /\ j \in 1 .. g
      BY <1>1, <1>9, <2>1
    <3>2. H[i] = G[i] /\ H[j] = G[j] /\ G[i].seq < G[j].seq
      BY <1>1, <1>2, <1>9, <3>1
    <3> QED BY <3>2
  <2>2. CASE i <= g /\ j > g
    <3>1. i \in 1 .. g
      BY <1>1, <2>2
    <3>2. H[i].seq <= z /\ H[i].seq \in Nat
      BY <1>1, <1>2, <1>4, <3>1
    <3>3. H[j].seq = z + (j - g) /\ j - g > 0 /\ j - g \in Int
      BY <1>1, <1>8, <2>2
    <3> QED BY <3>2, <3>3
  <2>3. CASE i > g
    <3>1. H[i].seq = z + (i - g) /\ H[j].seq = z + (j - g)
      BY <1>1, <1>8, <1>9, <2>3
    <3> QED BY <1>1, <1>9, <3>1
  <2> QED BY <1>1, <2>1, <2>2, <2>3
<1>10. Places(H, "added") = A /\ Places(H, "delta") = D
  <2>1. ASSUME NEW k \in {"added", "delta"} PROVE Places(H, k) = Places(G, k)
    <3>1. \A i \in 1 .. Len(H) : H[i].type = k => i \in Places(G, k)
      BY <1>0, <1>5 DEF Places, g
    <3>2. \A i \in Places(G, k) : i \in 1 .. Len(H) /\ H[i].type = k
      BY <1>1, <1>6 DEF Places, g
    <3> QED BY <3>1, <3>2 DEF Places
  <2> QED BY <2>1
<1>11. \A i \in A \cup D : H[i] = G[i]
  BY <1>1 DEF Places, g
<1>12. ASSUME NEW x \in 0 .. n - 1 PROVE DoneOnce(H, x)
  <2>1. PICK i \in 1 .. e : EndsIt(E[i], x) /\ \A j \in 1 .. e : EndsIt(E[j], x) => j = i
    BY <1>0 DEF DoneOnce, e
  <2>2. g + i \in 1 .. Len(H) /\ EndsIt(H[g + i], x)
    BY <1>1, <1>6, <2>1
  <2>3. ASSUME NEW j \in 1 .. Len(H), EndsIt(H[j], x) PROVE j = g + i
    <3>1. CASE j \in 1 .. g /\ H[j] = G[j]
      BY <1>4, <2>3, <3>1 DEF EndsIt
    <3>2. CASE j - g \in 1 .. e /\ H[j] = E[j - g] /\ j = g + (j - g)
      <4> DEFINE k == j - g
      <4>1. k \in 1 .. e /\ EndsIt(E[k], x) /\ j = g + k
        BY <2>3, <3>2
      <4> HIDE DEF k
      <4> QED BY <2>1, <4>1
    <3> QED BY <1>5, <3>1, <3>2
  <2> QED BY <2>2, <2>3 DEF DoneOnce
<1>13. Len(H) > 0 /\ H[Len(H)].type \in {"completed", "incomplete"}
  <2>1. e \in 1 .. e
    BY <1>0, <1>1
  <2>2. H[g + e] = E[e]
    BY <1>1, <2>1
  <2> QED BY <1>0, <1>1, <2>2
<1> HIDE DEF A, D, DoneOnce, Headed
<1>14. /\ \A i, j \in A : H[i].index = H[j].index => i = j
       /\ \A i \in A : DoneOnce(H, H[i].index)
  BY <1>2, <1>11, <1>12
<1>15. ASSUME NEW i \in D PROVE \E j \in A : j < i /\ H[j].index = H[i].index
  BY <1>2, <1>11
<1>16. Completed(H)
  BY <1>7, <1>9, <1>10, <1>13, <1>14, <1>15 DEF Completed
<1> QED BY <1>16 DEF H

(* The frames that close a stream whose items are added end each of them.  *)
LEMMA CloseCompletes ==
    ASSUME NEW G, NEW s, InResponse(s, G)
    PROVE  \E E : Flow!CloseResponses(s) = Flow!Numbered(s, E) /\ Completes(Len(s.items), E)
<1> DEFINE n == Len(s.items)
           S == {Flow!Rank(s.items[i]) : i \in DOMAIN s.items}
           ranks == Flow!Ascending(S)
           m == Len(ranks)
           ss == [k \in DOMAIN ranks |-> Flow!Closing(s, ranks[k])]
           items == Flow!FlattenSeq(ss)
           last == IF s.finish \in {"length", "content_filter"} THEN "incomplete" ELSE "completed"
           f == Flow!Frame(last, -1, -1)
           E == items \o <<f>>
<1>1. s \in ResponsesSinks /\ ItemsApart(s)
  BY DEF InResponse, ResponsesOk
<1>2. PICK top \in Nat : \A i \in 1 .. Len(s.items) : Flow!Rank(s.items[i]) <= top
  BY DEF InResponse, ResponsesOk
<1>3. DOMAIN s.items = 1 .. n /\ n \in Nat
  <2>1. s.items \in Seq(Items)
    BY <1>1, ResponsesSinksAre
  <2> HIDE DEF Items
  <2> QED BY <2>1
<1>4. S \in SUBSET (0 .. top)
  <2>1. \A i \in DOMAIN s.items : Flow!Rank(s.items[i]) \in Nat
    BY <1>1, <1>3, ResponsesSinksAre, ItemsAre
  <2>2. \A i \in DOMAIN s.items : Flow!Rank(s.items[i]) \in 0 .. top
    BY <1>2, <1>3, <2>1
  <2> QED BY <2>2
<1>5. Lists(ranks, S)
  <2> HIDE DEF S
  <2> QED BY <1>4, AscendingIs
<1>6. DOMAIN ranks = 1 .. m /\ m \in Nat /\ \A k \in 1 .. m : ranks[k] \in S
  <2> HIDE DEF S, ranks
  <2>1. ranks \in Seq(S)
    BY <1>5 DEF Lists
  <2> QED BY <2>1
<1> HIDE DEF ranks
<1>7. /\ \A k \in 1 .. m : \E i \in 1 .. n : Flow!Rank(s.items[i]) = ranks[k] /\ ClosesItem(ss[k], i - 1)
      /\ ss \in [1 .. m -> Seq(FrameSet)]
  <2>1. ASSUME NEW k \in 1 .. m
        PROVE  \E i \in 1 .. n : Flow!Rank(s.items[i]) = ranks[k] /\ ClosesItem(Flow!Closing(s, ranks[k]), i - 1)
    <3> DEFINE x == ranks[k]
    <3>1. x \in S
      BY <1>6
    <3> HIDE DEF x
    <3>2. \E i \in 1 .. Len(s.items) : Flow!Rank(s.items[i]) = x /\ ClosesItem(Flow!Closing(s, x), i - 1)
      BY <1>1, <3>1, ClosingShape
    <3> QED BY <3>2 DEF x
  <2>2. \A k \in 1 .. m : ss[k] = Flow!Closing(s, ranks[k])
    BY <1>6
  <2>3. \A k \in 1 .. m : Flow!Closing(s, ranks[k]) \in Seq(FrameSet)
    BY <2>1 DEF ClosesItem
  <2> HIDE DEF FrameSet, S
  <2>4. ss \in [1 .. m -> Seq(FrameSet)]
    BY <1>6, <2>3
  <2> HIDE DEF ss
  <2> QED BY <2>1, <2>2, <2>4
<1>8. Flow!FlattenSeq(ss) = Flat(ss)
  BY Zenon DEF Flow!FlattenSeq, Flat
<1>9. Flow!CloseResponses(s) = Flow!Numbered(s, E)
  BY Zenon DEF Flow!CloseResponses, Flow!NoIndex, ranks
<1>10. Closers(s, ranks, ss)
  <2>1. S = {Flow!Rank(s.items[i]) : i \in 1 .. Len(s.items)}
    BY <1>3
  <2> HIDE DEF S, ss
  <2> QED BY <1>5, <1>7, <2>1 DEF Closers
<1> HIDE DEF ss, S
<1>11. items \in Seq(FrameSet) /\ \E off : Spread(ss, m, off, items)
  <2> HIDE DEF FrameSet, m
  <2> QED BY <1>6, <1>7, <1>8, FlatSpreads
<1> HIDE DEF items
<1>12. PICK off : Spread(ss, m, off, items)
  BY <1>11
<1>13. ItemsDone(n, items)
  <2> DEFINE l == m
  <2>1. l = Len(ranks) /\ l \in Nat /\ Spread(ss, l, off, items)
    BY <1>6, <1>12
  <2> HIDE DEF l, FrameSet, Spread, Closers, ItemsApart
  <2> QED BY <1>1, <1>10, <1>11, <2>1, ClosersEnd
<1>14. f \in FrameSet /\ f.type \in {"completed", "incomplete"}
  <2>1. last \in {"incomplete", "completed"}
    OBVIOUS
  <2> HIDE DEF last
  <2>2. last \in FrameTypes
    BY <2>1 DEF FrameTypes
  <2> QED BY <2>1, <2>2, FrameIs
<1> HIDE DEF f
<1>15. Completes(n, E)
  <2> HIDE DEF n, ItemsDone
  <2> QED BY <1>3, <1>13, <1>14, FinalCompletes
<1> HIDE DEF E
<1> QED BY <1>9, <1>15

(* The end of an open stream completes it.                                 *)
LEMMA ResponseEnds ==
    ASSUME NEW G \in Seq(FrameSet), NEW r, ResponseRun(G, r)
    PROVE  LET q == Flow!Then(r, Flow!CloseResponses(r.state))
           IN  q.out \in Seq(FrameSet) /\ Completed(G \o q.out)
<1> DEFINE s == r.state
           o == r.out
           H == G \o o
           N == Flow!CloseResponses(s)
           q == Flow!Then(r, N)
           n == Len(s.items)
           z == s.seq
<1>1. /\ o \in Seq(FrameSet) /\ InResponse(s, H) /\ H \in Seq(FrameSet) /\ Len(H) > 0
      /\ Adding(n, z, H) /\ s \in ResponsesSinks
  BY DEF ResponseRun, InResponse, ResponsesOk
<1>2. z \in Nat /\ n \in Nat
  <2>1. s.items \in Seq(Items) /\ z \in Nat
    BY <1>1, ResponsesSinksAre
  <2> HIDE DEF Items, s
  <2> QED BY <2>1
<1>3. PICK E : N = Flow!Numbered(s, E) /\ Completes(n, E)
  <2> HIDE DEF s, H
  <2> QED BY <1>1, CloseCompletes
<1> HIDE DEF N
<1>4. Like(E, N.out) /\ NumberedFrom(N.out, z)
  <2>1. E \in Seq(FrameSet)
    BY <1>3 DEF Completes
  <2> HIDE DEF s, Like, NumberedFrom, FrameSet
  <2> QED BY <1>1, <1>3, <2>1, NumberedIs, NumberedCounts
<1>5. Completes(n, N.out) /\ N.out \in Seq(FrameSet)
  <2>1. Completes(n, N.out)
    <3> HIDE DEF n, Like, Completes
    <3> QED BY <1>2, <1>3, <1>4, LikeCompletes
  <2> QED BY <2>1 DEF Completes
<1>6. Completed(H \o N.out)
  <2> HIDE DEF H, n, z, Adding, Completes, NumberedFrom
  <2> QED BY <1>1, <1>2, <1>4, <1>5, CompletedIs
<1>7. q.out = o \o N.out
  BY DEF Flow!Then, Flow!Result
<1>8. G \o (o \o N.out) = (G \o o) \o N.out
  <2> DEFINE w == N.out
  <2>1. w \in Seq(FrameSet)
    BY <1>5
  <2> HIDE DEF w, o, FrameSet
  <2>2. G \o (o \o w) = (G \o o) \o w
    BY <1>1, <2>1, FramesJoin, Zenon
  <2> QED BY <2>2 DEF w
<1>9. o \o N.out \in Seq(FrameSet)
  <2> HIDE DEF o, FrameSet
  <2> QED BY <1>1, <1>5, FramesFollow
<1> HIDE DEF q
<1>10. q.out \in Seq(FrameSet) /\ Completed(G \o q.out)
  BY <1>6, <1>7, <1>8, <1>9 DEF H
<1> QED BY <1>10 DEF q, N

(* The end of the stream completes it, whatever the last chunk says.       *)
LEMMA ResponseFinishes ==
    ASSUME NEW G, NEW s, InResponse(s, G), NEW c, c.parts \in Seq(PartSet), c.finish \in Ends
    PROVE  LET q == Flow!ResponsesFrames(s, c, TRUE) IN q.out \in Seq(FrameSet) /\ Completed(G \o q.out)
<1> DEFINE begin == Flow!Result(s, <<>>)
           said == Noting(begin, c)
           q == Flow!ResponsesFrames(s, c, TRUE)
<1>1. ResponseRun(G, begin) /\ G \in Seq(FrameSet)
  <2>1. G \in Seq(FrameSet)
    BY DEF InResponse, ResponsesOk
  <2>2. begin.state = s /\ begin.out = <<>>
    BY DEF Flow!Result
  <2> HIDE DEF begin, FrameSet, InResponse
  <2>3. <<>> \in Seq(FrameSet) /\ G \o <<>> = G
    BY <2>1
  <2> QED BY <2>1, <2>2, <2>3 DEF ResponseRun
<1>2. q = Flow!Then(said, Flow!CloseResponses(said.state))
  BY Zenon DEF Flow!ResponsesFrames, Noting
<1> HIDE DEF begin, ResponseRun
<1>3. ResponseRun(G, said)
  BY <1>1, NotingAdds
<1> HIDE DEF said, q, Completed, FrameSet
<1>4. q.out \in Seq(FrameSet) /\ Completed(G \o q.out)
  BY <1>1, <1>2, <1>3, ResponseEnds
<1> QED BY <1>4 DEF q

-----------------------------------------------------------------------------
(* The upstream says how a turn ended once, and nothing after it.          *)

(* The upstream has said how the turn ended.                               *)
SaidAll(from, v) == v.over \/ (from = "openai" /\ v.closing)

(* A finish reason is in the last chunk of an event, and after it the      *)
(* upstream has nothing more to say.                                       *)
Orderly(from, next, out) ==
    /\ \A k \in 1 .. Len(out) : out[k].finish # "none" => k = Len(out) /\ SaidAll(from, next.env)
    /\ SaidAll(from, env) => SaidAll(from, next.env) /\ \A k \in 1 .. Len(out) : Bare(out[k])

(* A list of one chunk.                                                    *)
LEMMA LoneChunk ==
    \A p, f, u : /\ Len(<<Flow!Chunk(p, f, u)>>) = 1 /\ <<Flow!Chunk(p, f, u)>>[1].finish = f
                 /\ <<Flow!Chunk(p, f, u)>>[1].parts = p
BY DEF Flow!Chunk

(* One chunk, of an upstream that has more to say before it.               *)
LEMMA OrderlyOne ==
    ASSUME NEW from, NEW next, ~SaidAll(from, env), NEW p, NEW f, NEW u, f # "none" => SaidAll(from, next.env)
    PROVE  Orderly(from, next, <<Flow!Chunk(p, f, u)>>)
<1> DEFINE out == <<Flow!Chunk(p, f, u)>>
<1>1. Len(out) = 1 /\ out[1].finish = f
  BY LoneChunk
<1> HIDE DEF out
<1>2. \A k \in 1 .. Len(out) : k = 1
  BY <1>1
<1>3. Orderly(from, next, out)
  BY <1>1, <1>2 DEF Orderly
<1> QED BY <1>3 DEF out

(* An event that makes no chunk.                                           *)
LEMMA OrderlyNone ==
    ASSUME NEW from, NEW next, ~SaidAll(from, env)
    PROVE  Orderly(from, next, <<>>)
<1> DEFINE out == <<>>
<1>1. \A k \in 1 .. Len(out) : FALSE
  OBVIOUS
<1> HIDE DEF out
<1>2. Orderly(from, next, out)
  BY <1>1 DEF Orderly
<1> QED BY <1>2 DEF out

(* The usage chunk of OpenAI follows the finish reason; no other does.     *)
LEMMA OpenaiOrderly ==
    ASSUME env \in Upstreams, ~env.over, NEW next \in Flow!OpenaiUpstream
    PROVE  Orderly("openai", next, Flow!OpenaiChunks(source, next.event).out)
<1> DEFINE Is(c, v) == next = Flow!Sent(Flow!Payload(c), v)
           out == Flow!OpenaiChunks(source, next.event).out
<1>1. ASSUME NEW c, NEW v, Is(c, v) PROVE next.env = v /\ out = <<c>>
  BY <1>1 DEF Flow!OpenaiChunks, Flow!Sent, Flow!Payload, Flow!Result
<1> HIDE DEF out
<1>2. ASSUME env.closing PROVE Orderly("openai", next, out)
  <2> DEFINE c == Flow!Chunk(<<>>, "none", TRUE)
             v == [env EXCEPT !.over = TRUE]
  <2>1. Is(c, v)
    BY <1>2 DEF Flow!OpenaiUpstream
  <2>2. v.over
    BY DEF Upstreams
  <2>3. c.finish = "none" /\ c.parts = <<>>
    BY DEF Flow!Chunk
  <2> HIDE DEF Is, v, c
  <2>4. next.env = v /\ out = <<c>>
    BY <1>1, <2>1
  <2>5. Bare(c)
    BY <2>3 DEF Bare
  <2>6. SaidAll("openai", next.env)
    BY <2>2, <2>4 DEF SaidAll
  <2>7. Len(out) = 1 /\ out[1] = c
    BY <2>4
  <2>8. \A k \in 1 .. Len(out) : out[k] = c
    BY <2>7
  <2> HIDE DEF Bare
  <2> QED BY <2>3, <2>5, <2>6, <2>8 DEF Orderly
<1>3. ASSUME ~env.closing PROVE Orderly("openai", next, out)
  <2>1. \/ \E p, v : Is(Flow!Chunk(p, "none", FALSE), v)
        \/ \E f : Is(Flow!Chunk(<<>>, f, FALSE), [env EXCEPT !.closing = TRUE])
    BY <1>3, Zenon DEF Flow!OpenaiUpstream
  <2>2. ~SaidAll("openai", env)
    BY <1>3 DEF SaidAll
  <2>3. ASSUME NEW p, NEW v, Is(Flow!Chunk(p, "none", FALSE), v) PROVE Orderly("openai", next, out)
    <3>1. out = <<Flow!Chunk(p, "none", FALSE)>>
      BY <1>1, <2>3
    <3> QED BY <2>2, <3>1, OrderlyOne
  <2>4. ASSUME NEW f, Is(Flow!Chunk(<<>>, f, FALSE), [env EXCEPT !.closing = TRUE]) PROVE Orderly("openai", next, out)
    <3>1. out = <<Flow!Chunk(<<>>, f, FALSE)>> /\ next.env = [env EXCEPT !.closing = TRUE]
      BY <1>1, <2>4
    <3>2. SaidAll("openai", next.env)
      BY <3>1 DEF SaidAll, Upstreams
    <3> QED BY <2>2, <3>1, <3>2, OrderlyOne
  <2> HIDE DEF Is
  <2> QED BY <2>1, <2>3, <2>4
<1> QED BY <1>2, <1>3 DEF out

(* A Claude event that ends the turn is the upstream's last.               *)
LEMMA ClaudeQuietly ==
    ASSUME NEW s, NEW e, e.type \notin {"message_stop", "error"}
    PROVE  LET out == Flow!ClaudeChunks(s, e).out
           IN  out = <<>> \/ \E p : out = <<Flow!Chunk(p, "none", FALSE)>>
<1> DEFINE r == Flow!ClaudeChunks(s, e)
           Ok(q) == q = <<>> \/ \E p : q = <<Flow!Chunk(p, "none", FALSE)>>
<1>0. \A st, q : Flow!Result(st, q).out = q
  BY DEF Flow!Result
<1>1. \E st, q : r = Flow!Result(st, q) /\ Ok(q)
  <2>1. CASE e.type = "message_start"
    BY <2>1 DEF Flow!ClaudeChunks
  <2>2. CASE e.type = "tool_start"
    BY <2>2 DEF Flow!ClaudeChunks
  <2>3. CASE e.type = "args"
    BY <2>3 DEF Flow!ClaudeChunks
  <2>4. CASE e.type \in {"text", "reasoning"}
    BY <2>4 DEF Flow!ClaudeChunks
  <2>5. CASE e.type = "message_delta"
    BY <2>5 DEF Flow!ClaudeChunks
  <2>6. CASE e.type \notin {"message_start", "tool_start", "args", "text", "reasoning", "message_delta", "message_stop", "error"}
    BY <2>6 DEF Flow!ClaudeChunks
  <2> QED BY <2>1, <2>2, <2>3, <2>4, <2>5, <2>6
<1> HIDE DEF r, Ok
<1>2. Ok(r.out)
  BY <1>0, <1>1
<1> QED BY <1>2 DEF Ok, r

(* What ends the turn is the last event that upstream sends.               *)
LEMMA ClaudeEndings ==
    ASSUME env \in Upstreams, NEW next \in Flow!ClaudeUpstream, next.event.type \in {"message_stop", "error"}
    PROVE  next.env.over
<1> DEFINE e == next.event
           v == next.env
           w == [env EXCEPT !.over = TRUE]
<1>0. w.over
  BY DEF Upstreams
<1>1. CASE ~env.started
  <2>1. next = Flow!Sent(Flow!Event("message_start", 0, 0), [env EXCEPT !.started = TRUE])
    BY <1>1 DEF Flow!ClaudeUpstream
  <2>2. e.type = "message_start"
    BY <2>1, SentIs DEF Tells
  <2> QED BY <2>2
<1>2. CASE env.started /\ env.closing
  <2>1. next = Flow!Sent(Flow!Event("message_stop", 0, 0), w)
    BY <1>2 DEF Flow!ClaudeUpstream
  <2>2. v = w
    BY <2>1, SentIs DEF Tells
  <2> QED BY <1>0, <2>2
<1>3. CASE env.started /\ ~env.closing
  <2>1. \/ next = Flow!Sent(Flow!Event("error", 0, 0), w)
        \/ \E f, u : next = Flow!Sent([Flow!Event("message_delta", 0, 0) EXCEPT !.finish = f], u)
        \/ \E i, o, u : next = Flow!Sent(Flow!Event("tool_start", i, o), u)
        \/ \E i, u : next = Flow!Sent(Flow!Event("block_start", i, 0), u)
        \/ \E k \in {env.open} : \E i, o, u : next = Flow!Sent(Flow!Event(k, i, o), u)
    BY <1>3, Zenon DEF Flow!ClaudeUpstream
  <2>2. CASE next = Flow!Sent(Flow!Event("error", 0, 0), w)
    <3>1. v = w
      BY <2>2, SentIs DEF Tells
    <3> QED BY <1>0, <3>1
  <2>3. ASSUME NEW f, NEW u, next = Flow!Sent([Flow!Event("message_delta", 0, 0) EXCEPT !.finish = f], u) PROVE FALSE
    <3>1. e.type = "message_delta"
      BY <2>3 DEF Flow!Sent, Flow!Event
    <3> QED BY <3>1
  <2>4. ASSUME NEW k, NEW i, NEW o, NEW u, next = Flow!Sent(Flow!Event(k, i, o), u) PROVE e.type = k
    BY <2>4, SentIs DEF Tells
  <2>5. env.open \notin {"message_stop", "error"}
    BY UpstreamsAre
  <2> HIDE DEF w
  <2> QED BY <2>1, <2>2, <2>3, <2>4, <2>5
<1> QED BY <1>1, <1>2, <1>3

(* So a finish reason of Claude has nothing behind it.                     *)
LEMMA ClaudeOrderly ==
    ASSUME env \in Upstreams, ~env.over, NEW next \in Flow!ClaudeUpstream
    PROVE  Orderly("claude", next, Flow!ClaudeChunks(source, next.event).out)
<1> DEFINE e == next.event
           out == Flow!ClaudeChunks(source, e).out
<1>1. ~SaidAll("claude", env)
  BY DEF SaidAll
<1>2. CASE e.type \in {"message_stop", "error"}
  <2>1. SaidAll("claude", next.env)
    BY <1>2, ClaudeEndings DEF SaidAll
  <2>2. \E p, f : out = <<Flow!Chunk(p, f, FALSE)>>
    <3>1. CASE e.type = "message_stop"
      <4>1. out = <<Flow!Chunk(<<>>, IF source.finish = "none" THEN "stop" ELSE source.finish, FALSE)>>
        BY <3>1 DEF Flow!ClaudeChunks, Flow!Result
      <4> HIDE DEF out
      <4> QED BY <4>1
    <3>2. CASE e.type = "error"
      <4>1. out = <<Flow!Chunk(<<Flow!Part("text", -1, -1)>>, "stop", FALSE)>>
        BY <3>2 DEF Flow!ClaudeChunks, Flow!Result, Flow!NoIndex
      <4> HIDE DEF out
      <4> QED BY <4>1
    <3> QED BY <1>2, <3>1, <3>2
  <2> HIDE DEF out, e
  <2> QED BY <1>1, <2>1, <2>2, OrderlyOne DEF out, e
<1>3. CASE e.type \notin {"message_stop", "error"}
  <2>1. out = <<>> \/ \E p : out = <<Flow!Chunk(p, "none", FALSE)>>
    BY <1>3, ClaudeQuietly
  <2> HIDE DEF out
  <2>2. Orderly("claude", next, out)
    BY <1>1, <2>1, OrderlyOne, OrderlyNone
  <2> QED BY <2>2 DEF out
<1> QED BY <1>2, <1>3

(* A Responses event that ends the turn is the upstream's last.            *)
LEMMA ResponsesQuietly ==
    ASSUME NEW s, NEW e, e.type \notin {"completed", "incomplete"}
    PROVE  LET out == Flow!ResponsesChunks(s, e).out
           IN  out = <<>> \/ \E p : out = <<Flow!Chunk(p, "none", FALSE)>>
<1> DEFINE r == Flow!ResponsesChunks(s, e)
           Ok(q) == q = <<>> \/ \E p : q = <<Flow!Chunk(p, "none", FALSE)>>
<1>0. \A st, q : Flow!Result(st, q).out = q
  BY DEF Flow!Result
<1>1. \E st, q : r = Flow!Result(st, q) /\ Ok(q)
  <2>1. CASE e.type = "created"
    BY <2>1 DEF Flow!ResponsesChunks
  <2>2. CASE e.type = "text"
    BY <2>2 DEF Flow!ResponsesChunks
  <2>3. CASE e.type = "reasoning"
    BY <2>3 DEF Flow!ResponsesChunks
  <2>4. CASE e.type = "tool_start"
    BY <2>4 DEF Flow!ResponsesChunks
  <2>5. CASE e.type = "args"
    <3>1. \/ r = Flow!Result(s, <<Flow!Chunk(<<Flow!Part("args", Flow!CallIndex(s, e.key), e.of)>>, "none", FALSE)>>)
          \/ r = Flow!Result([s EXCEPT !.calls = Append(@, e.key)],
                             <<Flow!Chunk(<<Flow!Part("args", Len(s.calls), e.of)>>, "none", FALSE)>>)
      BY <2>5 DEF Flow!ResponsesChunks
    <3> HIDE DEF r
    <3> QED BY <3>1
  <2>6. CASE e.type \notin {"created", "text", "reasoning", "tool_start", "args", "completed", "incomplete"}
    BY <2>6 DEF Flow!ResponsesChunks
  <2> QED BY <2>1, <2>2, <2>3, <2>4, <2>5, <2>6
<1> HIDE DEF r, Ok
<1>2. Ok(r.out)
  BY <1>0, <1>1
<1> QED BY <1>2 DEF Ok, r

(* What ends the turn is the last event that upstream sends.               *)
LEMMA ResponsesEndings ==
    ASSUME env \in Upstreams, NEW next \in Flow!ResponsesUpstream, next.event.type \in {"completed", "incomplete"}
    PROVE  next.env.over
<1> DEFINE e == next.event
<1>1. CASE ~env.started
  <2>1. next = Flow!Sent(Flow!Event("created", 0, 0), [env EXCEPT !.started = TRUE])
    BY <1>1 DEF Flow!ResponsesUpstream
  <2>2. e.type = "created"
    BY <2>1, SentIs DEF Tells
  <2> QED BY <2>2
<1>2. CASE env.started
  <2> DEFINE A == {Flow!Sent(Flow!Event(k, 0, 0), env) : k \in {"text", "reasoning"}}
             B == {Flow!Sent(Flow!Event("args", i, i), env) : i \in 0 .. env.calls - 1}
             C == {Flow!Sent(Flow!Event("tool_start", m, m), [env EXCEPT !.calls = m + 1]) :
                     m \in {k \in {env.calls} : k < MaxCalls}}
             E == {Flow!ResponsesEnds(k, u) : k \in {"completed", "incomplete"}, u \in BOOLEAN}
             Tell == \E k \in {"text", "reasoning", "args", "tool_start"} : \E i, o, u : next = Flow!Sent(Flow!Event(k, i, o), u)
             End == \E k, u : next = Flow!ResponsesEnds(k, u)
  <2>1. Tell \/ End
    <3>1. next \in A \cup B \cup C \cup E
      BY <1>2 DEF Flow!ResponsesUpstream
    <3>2. CASE next \in A
      BY <3>2, Zenon
    <3>3. CASE next \in B
      BY <3>3, Zenon
    <3>4. CASE next \in C
      BY <3>4, Zenon
    <3>5. CASE next \in E
      BY <3>5
    <3> HIDE DEF A, B, C, E, Tell, End
    <3> QED BY <3>1, <3>2, <3>3, <3>4, <3>5
  <2>2. ASSUME NEW k \in {"text", "reasoning", "args", "tool_start"}, NEW i, NEW o, NEW u,
               next = Flow!Sent(Flow!Event(k, i, o), u)
        PROVE  FALSE
    <3>1. e.type = k
      BY <2>2, SentIs DEF Tells
    <3> QED BY <3>1
  <2>3. ASSUME NEW k, NEW u, next = Flow!ResponsesEnds(k, u) PROVE next.env.over
    <3>1. next.env = [env EXCEPT !.over = TRUE]
      BY <2>3 DEF Flow!ResponsesEnds, Flow!Sent
    <3> QED BY <3>1 DEF Upstreams
  <2> QED BY <2>1, <2>2, <2>3
<1> QED BY <1>1, <1>2

(* So a finish reason of Responses has nothing behind it.                  *)
LEMMA ResponsesOrderly ==
    ASSUME env \in Upstreams, ~env.over, NEW next \in Flow!ResponsesUpstream
    PROVE  Orderly("responses", next, Flow!ResponsesChunks(source, next.event).out)
<1> DEFINE e == next.event
           out == Flow!ResponsesChunks(source, e).out
<1>1. ~SaidAll("responses", env)
  BY DEF SaidAll
<1>2. CASE e.type \in {"completed", "incomplete"}
  <2>1. SaidAll("responses", next.env)
    BY <1>2, ResponsesEndings DEF SaidAll
  <2>2. \E f, u : out = <<Flow!Chunk(<<>>, f, u)>>
    <3>1. ResponsesMade(source, e, Flow!ResponsesChunks(source, e))
      BY ResponsesChunksAre
    <3> QED BY <1>2, <3>1 DEF ResponsesMade
  <2> HIDE DEF out, e
  <2> QED BY <1>1, <2>1, <2>2, OrderlyOne DEF out, e
<1>3. CASE e.type \notin {"completed", "incomplete"}
  <2>1. out = <<>> \/ \E p : out = <<Flow!Chunk(p, "none", FALSE)>>
    BY <1>3, ResponsesQuietly
  <2> HIDE DEF out
  <2>2. Orderly("responses", next, out)
    BY <1>1, <2>1, OrderlyOne, OrderlyNone
  <2> QED BY <2>2 DEF out
<1> QED BY <1>2, <1>3

(* A Gemini payload's finish reason makes no chunk.                        *)
LEMMA GeminiOrderly ==
    ASSUME env \in Upstreams, ~env.over, NEW next \in Flow!GeminiUpstream
    PROVE  Orderly("gemini", next, Flow!GeminiChunks(source, next.event).out)
<1> DEFINE e == next.event
           r == Flow!GeminiChunks(source, e)
           n == Len(e.parts)
<1>1. ~SaidAll("gemini", env)
  BY DEF SaidAll
<1>2. n \in 0 .. 2
  <2>1. PICK f \in {"none", "stop", "length"}, p \in {<<>>, <<Flow!Part("text", -1, -1)>>},
             c \in {<<>>} \cup {<<Flow!Part("call", -1, m)>> : m \in {k \in {env.calls} : k < MaxCalls}} :
          next = Flow!GeminiSends(f, p, c)
    BY DEF Flow!GeminiUpstream, Flow!NoIndex
  <2>2. e.parts = p \o c
    BY <2>1 DEF Flow!GeminiSends, Flow!Sent
  <2>3. \E a, b : p \in {<<>>, <<a>>} /\ c \in {<<>>, <<b>>}
    BY <2>1
  <2> QED BY <2>2, <2>3
<1>3. PICK read : GeminiRun(source, e, read, r)
  BY <1>2, GeminiReads
<1> HIDE DEF r, e, n
<1>4. /\ read[0].out = <<>>
      /\ \A i \in 1 .. n : read[i] = Flow!GeminiPart(read[i - 1], e.parts[i])
      /\ r.out = read[n].out
  <2>1. \A st, q : Flow!Result(st, q).out = q
    BY DEF Flow!Result
  <2> QED BY <1>3, <2>1 DEF GeminiRun, n
<1>5. \A q, p : \E c : Flow!GeminiPart(q, p).out = Append(q.out, c) /\ c.finish = "none"
  <2> SUFFICES ASSUME NEW q, NEW p PROVE \E c : Flow!GeminiPart(q, p).out = Append(q.out, c) /\ c.finish = "none"
    OBVIOUS
  <2>1. \E st, d : Flow!GeminiPart(q, p) = Flow!Result(st, Append(q.out, Flow!Chunk(d, "none", FALSE)))
    BY Zenon DEF Flow!GeminiPart
  <2>2. PICK st, d : Flow!GeminiPart(q, p) = Flow!Result(st, Append(q.out, Flow!Chunk(d, "none", FALSE)))
    BY <2>1
  <2> DEFINE c == Flow!Chunk(d, "none", FALSE)
  <2>3. c.finish = "none"
    BY DEF Flow!Chunk
  <2> HIDE DEF c
  <2>4. Flow!GeminiPart(q, p).out = Append(q.out, c)
    <3>1. \A x, y : Flow!Result(x, y).out = y
      BY DEF Flow!Result
    <3> QED BY <2>2, <3>1 DEF c
  <2> QED BY <2>3, <2>4
<1>6. \A k \in 1 .. Len(r.out) : r.out[k].finish = "none"
  <2>1. CASE n = 0
    <3>1. r.out = <<>>
      BY <1>4, <2>1
    <3> QED BY <3>1
  <2>2. CASE n = 1
    <3>1. r.out = read[1].out /\ read[1] = Flow!GeminiPart(read[0], e.parts[1])
      BY <1>4, <2>2
    <3>2. PICK c : read[1].out = Append(<<>>, c) /\ c.finish = "none"
      BY <1>4, <1>5, <3>1
    <3>3. r.out = <<c>>
      BY <3>1, <3>2
    <3> QED BY <3>2, <3>3
  <2>3. CASE n = 2
    <3>1. r.out = read[2].out /\ read[1] = Flow!GeminiPart(read[0], e.parts[1]) /\ read[2] = Flow!GeminiPart(read[1], e.parts[2])
      BY <1>4, <2>3
    <3>2. PICK c : read[1].out = Append(<<>>, c) /\ c.finish = "none"
      BY <1>4, <1>5, <3>1
    <3>3. PICK d : read[2].out = Append(read[1].out, d) /\ d.finish = "none"
      BY <1>5, <3>1
    <3> DEFINE S == {x \in {c, d} : x.finish = "none"}
               z == r.out
    <3>4. c \in S /\ d \in S
      BY <3>2, <3>3
    <3>5. z = Append(Append(<<>>, c), d)
      BY <3>1, <3>2, <3>3
    <3> HIDE DEF S, z
    <3>6. z \in Seq(S)
      BY <3>4, <3>5
    <3>7. \A k \in 1 .. Len(z) : z[k] \in S
      BY <3>6
    <3> QED BY <3>7 DEF S, z
  <2> QED BY <1>2, <2>1, <2>2, <2>3 DEF n
<1>7. Orderly("gemini", next, r.out)
  BY <1>1, <1>6 DEF Orderly
<1> QED BY <1>7 DEF r, e

(* Whatever the dialect, the finish reason comes once and last.            *)
LEMMA ChunksOrderly ==
    ASSUME formats.from \in Flow!Dialects, env \in Upstreams, ~env.over, NEW next \in Flow!Upstream
    PROVE  Orderly(formats.from, next, Flow!Chunks(formats.from, source, next.event).out)
<1>1. CASE formats.from = "openai"
  BY <1>1, OpenaiOrderly DEF Flow!Upstream, Flow!Chunks
<1>2. CASE formats.from = "claude"
  BY <1>2, ClaudeOrderly DEF Flow!Upstream, Flow!Chunks
<1>3. CASE formats.from = "gemini"
  BY <1>3, GeminiOrderly DEF Flow!Upstream, Flow!Chunks
<1>4. CASE formats.from = "responses"
  BY <1>4, ResponsesOrderly DEF Flow!Upstream, Flow!Chunks
<1> QED BY <1>1, <1>2, <1>3, <1>4 DEF Flow!Dialects

-----------------------------------------------------------------------------
(* The sink of the two clients that frame what they are told.              *)

(* The frames of the client's dialect, before it is closed.                *)
SinkNests(cl, s, G) ==
    /\ cl = "claude" => ClaudeNests(s, G)
    /\ cl = "responses" => Unstarted(s, G) \/ InResponse(s, G)

(* What a chunk may not be.                                                *)
Suits(cl, s, c) == cl = "claude" /\ s.finished => Bare(c)

(* What the frames of a chunk make of the sink.                            *)
Framing(cl, s, G, c, q) ==
    /\ q.out \in Seq(FrameSet) /\ SinkNests(cl, q.state, G \o q.out)
    /\ cl = "claude" => (q.state.finished <=> s.finished \/ c.finish # "none")
    /\ cl = "responses" => InResponse(q.state, G \o q.out)

(* A chunk keeps the frames of either dialect nested.                      *)
LEMMA EmitNests ==
    ASSUME NEW cl \in {"claude", "responses"}, NEW s, NEW G, SinkNests(cl, s, G), NEW c \in ChunkSet, Suits(cl, s, c)
    PROVE  Framing(cl, s, G, c, Flow!Emit(cl, s, c))
<1> DEFINE q == Flow!Emit(cl, s, c)
<1>1. c.parts \in Seq(PartSet) /\ c.finish \in Ends
  BY DEF ChunkSet
<1>2. CASE cl = "claude"
  <2>1. q = Flow!ClaudeFrames(s, c, FALSE) /\ ClaudeNests(s, G) /\ (s.finished => Bare(c))
    BY <1>2, Zenon DEF Flow!Emit, SinkNests, Suits
  <2> DEFINE end == FALSE
  <2>2. end \in BOOLEAN /\ ~end
    OBVIOUS
  <2> HIDE DEF end, ClaudeNests, Bare
  <2>3. LET p == Flow!ClaudeFrames(s, c, end)
        IN  /\ p.out \in Seq(FrameSet) /\ ClaudeNests(p.state, G \o p.out) /\ p.state.started
            /\ p.state.finished <=> s.finished \/ c.finish # "none" \/ end
    BY <1>1, <2>1, <2>2, ClaudeFramesNest
  <2>4. q = Flow!ClaudeFrames(s, c, end)
    BY <2>1 DEF end
  <2> HIDE DEF q
  <2>5. q.out \in Seq(FrameSet) /\ ClaudeNests(q.state, G \o q.out) /\ (q.state.finished <=> s.finished \/ c.finish # "none")
    BY <2>2, <2>3, <2>4
  <2> QED BY <1>2, <2>5 DEF Framing, SinkNests, q
<1>3. CASE cl = "responses"
  <2>1. q = Flow!ResponsesFrames(s, c, FALSE) /\ (Unstarted(s, G) \/ InResponse(s, G))
    BY <1>3, Zenon DEF Flow!Emit, SinkNests
  <2> HIDE DEF q, Unstarted, InResponse
  <2>2. ResponseRun(G, q)
    BY <1>1, <2>1, ResponseFrames
  <2> QED BY <1>3, <2>2 DEF ResponseRun, Framing, SinkNests, q
<1> QED BY <1>2, <1>3

(* Chunks of which at most the last ends the turn, and none when it ended. *)
Calm(cl, s, chunks) ==
    cl = "claude" => /\ \A k \in 1 .. Len(chunks) : chunks[k].finish # "none" => k = Len(chunks)
                     /\ s.finished => \A k \in 1 .. Len(chunks) : Bare(chunks[k])

(* What several chunks make of the sink.                                   *)
NestedBy(cl, s, G, chunks, i, q) ==
    /\ SinkNests(cl, q.state, G \o q.out)
    /\ cl = "claude" => (q.state.finished <=> s.finished \/ \E k \in 1 .. i : chunks[k].finish # "none")
    /\ cl = "responses" /\ (i > 0 \/ InResponse(s, G)) => InResponse(q.state, G \o q.out)

(* One chunk more.                                                         *)
LEMMA EmitNextNests ==
    ASSUME NEW cl \in {"claude", "responses"}, NEW s, NEW G \in Seq(FrameSet), NEW chunks \in Seq(ChunkSet), Calm(cl, s, chunks),
           NEW i \in 1 .. Len(chunks), NEW r, r.out \in Seq(FrameSet), NestedBy(cl, s, G, chunks, i - 1, r)
    PROVE  NestedBy(cl, s, G, chunks, i, Flow!EmitNext(cl, r, chunks[i]))
<1> DEFINE c == chunks[i]
           o == r.out
           H == G \o o
           e == Flow!Emit(cl, r.state, c)
           w == e.out
           q == Flow!EmitNext(cl, r, c)
<1>1. i \in Nat /\ i > 0 /\ Len(chunks) \in Nat /\ i <= Len(chunks) /\ c \in ChunkSet
  <2> HIDE DEF ChunkSet
  <2> QED OBVIOUS
<1>2. SinkNests(cl, r.state, H)
  BY DEF NestedBy
<1>3. Suits(cl, r.state, c)
  <2> SUFFICES ASSUME cl = "claude", r.state.finished PROVE Bare(c)
    BY DEF Suits
  <2>1. CASE s.finished
    BY <2>1 DEF Calm
  <2>2. CASE \E k \in 1 .. i - 1 : chunks[k].finish # "none"
    <3>1. PICK k \in 1 .. i - 1 : chunks[k].finish # "none"
      BY <2>2
    <3>2. k \in 1 .. Len(chunks) /\ k # Len(chunks)
      BY <1>1
    <3> QED BY <3>1, <3>2 DEF Calm
  <2> HIDE DEF Bare
  <2> QED BY <2>1, <2>2 DEF NestedBy
<1> HIDE DEF H, c
<1>4. Framing(cl, r.state, H, c, e)
  <2> HIDE DEF SinkNests, Suits, ChunkSet
  <2> QED BY <1>1, <1>2, <1>3, EmitNests
<1>5. q.state = e.state /\ q.out = o \o w
  BY DEF Flow!EmitNext, Flow!Then, Flow!Result
<1>6. w \in Seq(FrameSet) /\ o \in Seq(FrameSet)
  BY <1>4 DEF Framing
<1> HIDE DEF e, w, q
<1>7. G \o q.out = H \o w
  <2>1. G \o (o \o w) = (G \o o) \o w
    <3> HIDE DEF o, FrameSet
    <3> QED BY <1>6, FramesJoin, Zenon
  <2> QED BY <1>5, <2>1 DEF H
<1>8. SinkNests(cl, q.state, G \o q.out) /\ (cl = "responses" => InResponse(q.state, G \o q.out))
  <2> HIDE DEF SinkNests, InResponse
  <2> QED BY <1>4, <1>5, <1>7 DEF Framing, w
<1>9. cl = "claude" => (q.state.finished <=> s.finished \/ \E k \in 1 .. i : chunks[k].finish # "none")
  <2> SUFFICES ASSUME cl = "claude" PROVE q.state.finished <=> s.finished \/ \E k \in 1 .. i : chunks[k].finish # "none"
    OBVIOUS
  <2>1. q.state.finished <=> r.state.finished \/ c.finish # "none"
    BY <1>4, <1>5 DEF Framing
  <2>2. r.state.finished <=> s.finished \/ \E k \in 1 .. i - 1 : chunks[k].finish # "none"
    BY DEF NestedBy
  <2>3. (\E k \in 1 .. i : chunks[k].finish # "none") <=> ((\E k \in 1 .. i - 1 : chunks[k].finish # "none") \/ c.finish # "none")
    <3>1. \A k \in 1 .. i : k \in 1 .. i - 1 \/ k = i
      BY <1>1
    <3>2. i \in 1 .. i /\ \A k \in 1 .. i - 1 : k \in 1 .. i
      BY <1>1
    <3> QED BY <3>1, <3>2 DEF c
  <2> QED BY <2>1, <2>2, <2>3
<1>10. NestedBy(cl, s, G, chunks, i, q)
  <2> HIDE DEF SinkNests, InResponse
  <2> QED BY <1>8, <1>9 DEF NestedBy
<1> QED BY <1>10 DEF q, c

(* All the chunks of an event.                                             *)
LEMMA EmitAllNests ==
    ASSUME NEW cl \in {"claude", "responses"}, NEW n \in Nat, NEW s, NEW G, SinkOk(cl, n, s, G), SinkNests(cl, s, G),
           NEW chunks \in Seq(ChunkSet), \A k \in 1 .. Len(chunks) : Introduced(chunks[k].parts, n), Calm(cl, s, chunks)
    PROVE  NestedBy(cl, s, G, chunks, Len(chunks), Flow!EmitAll(cl, s, chunks))
<1> DEFINE last == Len(chunks)
<1>1. last \in Nat /\ G \in Seq(FrameSet)
  <2>1. last \in Nat
    <3> HIDE DEF ChunkSet
    <3> QED OBVIOUS
  <2> QED BY <2>1 DEF SinkOk
<1>2. PICK said : EmitsInTurn(said, cl, n, G, s, chunks) /\ Flow!EmitAll(cl, s, chunks) = said[last]
  <2>1. cl \in Flow!Clients
    BY DEF Flow!Clients
  <2> HIDE DEF EmitsInTurn, SinkOk, Introduced, ChunkSet
  <2> QED BY <2>1, EmitAllRuns
<1>3. /\ said[0] = Flow!Result(s, <<>>)
      /\ \A i \in 1 .. last : said[i] = Flow!EmitNext(cl, said[i - 1], chunks[i])
      /\ \A i \in 0 .. last : said[i].out \in Seq(FrameSet)
  <2> HIDE DEF SinkOk, FrameSet
  <2> QED BY <1>2 DEF EmitsInTurn, SinkRun
<1> DEFINE Q == {i \in 0 .. last : NestedBy(cl, s, G, chunks, i, said[i])}
<1>4. 0 \in Q
  <2>1. said[0].state = s /\ said[0].out = <<>>
    BY <1>3 DEF Flow!Result
  <2>2. G \o <<>> = G
    <3> HIDE DEF FrameSet
    <3> QED BY <1>1
  <2>3. ~ \E k \in 1 .. 0 : chunks[k].finish # "none"
    OBVIOUS
  <2> HIDE DEF SinkNests, InResponse
  <2>4. NestedBy(cl, s, G, chunks, 0, said[0])
    BY <2>1, <2>2, <2>3 DEF NestedBy
  <2> QED BY <1>1, <2>4
<1>5. ASSUME NEW i \in 1 .. last, i - 1 \in Q PROVE i \in Q
  <2>1. said[i - 1].out \in Seq(FrameSet) /\ NestedBy(cl, s, G, chunks, i - 1, said[i - 1])
    BY <1>1, <1>3, <1>5
  <2>2. NestedBy(cl, s, G, chunks, i, Flow!EmitNext(cl, said[i - 1], chunks[i]))
    <3> HIDE DEF NestedBy, Calm, FrameSet, ChunkSet
    <3> QED BY <1>1, <2>1, EmitNextNests
  <2> HIDE DEF NestedBy
  <2> QED BY <1>1, <1>3, <2>2
<1>6. NestedBy(cl, s, G, chunks, last, said[last])
  <2> HIDE DEF Q, last
  <2>1. \A i \in 0 .. last : i \in Q
    BY <1>1, <1>4, <1>5, LoopKeeps
  <2> QED BY <1>1, <2>1 DEF Q
<1> HIDE DEF NestedBy
<1> QED BY <1>2, <1>6

-----------------------------------------------------------------------------
(* The stream: the invariant that carries the framing.                     *)

(* The inductive invariant, beside FlowInv: the frames of an open stream   *)
(* nest as far as they go, a message that has stopped hears nothing more,  *)
(* and a closed stream is framed to its end.                               *)
NestInv ==
    /\ stage = "idle" => ~usage
    /\ formats.to \in {"claude", "responses"} /\ stage # "closed" =>
          /\ SinkNests(formats.to, sink, frames)
          /\ formats.to = "claude" /\ sink.finished => SaidAll(formats.from, env)
          /\ formats.to = "responses" /\ usage => InResponse(sink, frames)
    /\ stage = "closed" =>
          /\ formats.to = "claude" => Done(sink, frames)
          /\ formats.to = "responses" => Completed(frames)

(* A new stream has said nothing.                                          *)
LEMMA NestStarts ==
    ASSUME FlowInv, NestInv, Flow!Connect
    PROVE  NestInv'
<1>1. PICK from \in Flow!Dialects, to \in Flow!Clients :
        formats' = [from |-> from, to |-> to] /\ sink' = Flow!NewSink(to)
  BY DEF Flow!Connect
<1>2. frames' = <<>> /\ stage' = "open" /\ ~usage' /\ formats'.to = to
  BY <1>1 DEF Flow!Connect, FlowInv, NestInv
<1>3. SinkOk(to, 0, sink', frames')
  <2> HIDE DEF SinkOk
  <2> QED BY <1>1, <1>2, FlowStarts
<1>4. to = "claude" => Fresh(sink', frames') /\ ~sink'.finished
  <2> SUFFICES ASSUME to = "claude" PROVE Fresh(sink', frames') /\ ~sink'.finished
    OBVIOUS
  <2>1. sink' = Flow!NewClaudeSink
    BY <1>1 DEF Flow!NewSink
  <2> DEFINE s == sink'
  <2>2. /\ ~s.finished /\ ~s.started /\ s.reasoning = -1 /\ s.text = -1 /\ s.tools = <<>>
        /\ ~s.reasoningOpen /\ ~s.textOpen
    BY <2>1 DEF Flow!NewClaudeSink, Flow!NoIndex
  <2> HIDE DEF s
  <2>3. ToolBlocks(s) = {}
    BY <2>2 DEF ToolBlocks
  <2>4. BlocksOf(s) = {}
    BY <2>2, <2>3 DEF BlocksOf
  <2>5. Apart(s)
    BY <2>2, <2>3, <2>4 DEF Apart
  <2>6. ClaudeOk(s, frames')
    <3> HIDE DEF ClaudeOk, ResponsesOk
    <3> QED BY <1>3 DEF SinkOk, s
  <2> HIDE DEF ClaudeOk, Apart, BlocksOf
  <2> QED BY <1>2, <2>2, <2>4, <2>5, <2>6 DEF Fresh, s
<1>5. to = "responses" => Unstarted(sink', frames')
  <2> SUFFICES ASSUME to = "responses" PROVE Unstarted(sink', frames')
    OBVIOUS
  <2>1. sink' = Flow!NewResponsesSink
    BY <1>1 DEF Flow!NewSink
  <2>2. ~sink'.started /\ sink'.items = <<>>
    BY <2>1 DEF Flow!NewResponsesSink
  <2>3. ResponsesOk(sink', frames')
    <3> HIDE DEF ClaudeOk, ResponsesOk
    <3> QED BY <1>3 DEF SinkOk
  <2> HIDE DEF ResponsesOk
  <2> QED BY <1>2, <2>2, <2>3 DEF Unstarted
<1>6. SinkNests(to, sink', frames')
  <2> HIDE DEF Fresh, Unstarted
  <2> QED BY <1>4, <1>5 DEF SinkNests, ClaudeNests
<1> HIDE DEF SinkNests, InResponse, SaidAll, Done, Completed
<1> QED BY <1>2, <1>4, <1>6 DEF NestInv

(* The chunks of an event find the message open, or have nothing to say.   *)
LEMMA TranslateNests ==
    ASSUME FlowInv, NestInv, Flow!Translate
    PROVE  NestInv'
<1> DEFINE from == formats.from
           to == formats.to
           n == env.calls
<1>1. PICK next \in Flow!Upstream :
        /\ env' = [next.env EXCEPT !.sent = env.sent + 1]
        /\ Flow!Reads(Flow!Chunks(from, source, next.event))
  BY DEF Flow!Translate
<1> DEFINE up == Flow!Chunks(from, source, next.event)
           chunks == up.out
           r == Flow!EmitAll(to, sink, chunks)
<1>2. formats' = formats /\ stage = "open" /\ stage' = "open" /\ ~env.over /\ from \in Flow!Dialects
  BY DEF Flow!Translate, FlowInv
<1>3. /\ sink' = r.state /\ frames' = frames \o r.out
      /\ usage' = (usage \/ \E i \in DOMAIN chunks : chunks[i].usage)
  BY <1>1 DEF Flow!Reads, Flow!Sends
<1>4. Keyed(from, env, source) /\ SinkOk(to, n, sink, frames)
  BY DEF FlowInv
<1>5. Keyed(from, next.env, up.state) /\ Streamed(chunks, n, next.env.calls)
  <2>1. Follow(from, next, up)
    <3> HIDE DEF Keyed, Follow
    <3> QED BY <1>2, <1>4, ChunksFollow
  <2> QED BY <2>1 DEF Follow
<1>6. env \in Upstreams /\ next.env \in Upstreams /\ n \in Nat
  <2>1. env \in Upstreams /\ next.env \in Upstreams
    BY <1>4, <1>5 DEF Keyed
  <2> QED BY <2>1, UpstreamsAre
<1>7. Orderly(from, next, chunks)
  <2> HIDE DEF Orderly
  <2> QED BY <1>2, <1>6, ChunksOrderly
<1>8. SaidAll(from, next.env) <=> SaidAll(from, env')
  <2> DEFINE k == env.sent + 1
  <2> HIDE DEF k
  <2>1. [next.env EXCEPT !.sent = k].over = next.env.over /\ [next.env EXCEPT !.sent = k].closing = next.env.closing
    BY <1>6 DEF Upstreams
  <2> QED BY <1>1, <2>1 DEF SaidAll, k
<1> HIDE DEF up, chunks
<1>9. chunks \in Seq(ChunkSet) /\ \A k \in 1 .. Len(chunks) : Introduced(chunks[k].parts, n)
  BY <1>5 DEF Streamed, chunks
<1>10. Len(chunks) \in Nat /\ DOMAIN chunks = 1 .. Len(chunks)
  <2> HIDE DEF ChunkSet
  <2> QED BY <1>9
<1> HIDE DEF from, to, n
<1> SUFFICES ASSUME to \in {"claude", "responses"}
             PROVE  /\ SinkNests(to, sink', frames')
                    /\ to = "claude" /\ sink'.finished => SaidAll(from, env')
                    /\ to = "responses" /\ usage' => InResponse(sink', frames')
  <2> HIDE DEF SinkNests, InResponse, SaidAll, Done, Completed
  <2> QED BY <1>2 DEF NestInv, from, to
<1>11. /\ SinkNests(to, sink, frames)
       /\ to = "claude" /\ sink.finished => SaidAll(from, env)
       /\ to = "responses" /\ usage => InResponse(sink, frames)
  <2> HIDE DEF SinkNests, InResponse, SaidAll, Done, Completed
  <2> QED BY <1>2 DEF NestInv, from, to
<1>12. Calm(to, sink, chunks)
  <2> HIDE DEF Bare, SaidAll
  <2> QED BY <1>7, <1>11 DEF Calm, Orderly
<1>13. NestedBy(to, sink, frames, chunks, Len(chunks), r)
  <2> HIDE DEF NestedBy, Calm, SinkNests, SinkOk, Introduced, ChunkSet, r
  <2> QED BY <1>4, <1>6, <1>9, <1>11, <1>12, EmitAllNests DEF r
<1> HIDE DEF r
<1>14. SinkNests(to, sink', frames')
  <2> HIDE DEF SinkNests, InResponse
  <2> QED BY <1>3, <1>13 DEF NestedBy
<1>15. ASSUME to = "claude", sink'.finished PROVE SaidAll(from, env')
  <2>1. sink.finished \/ \E k \in 1 .. Len(chunks) : chunks[k].finish # "none"
    <3> HIDE DEF SinkNests, InResponse
    <3> QED BY <1>3, <1>13, <1>15 DEF NestedBy
  <2> HIDE DEF SaidAll, Bare
  <2> QED BY <1>7, <1>8, <1>11, <1>15, <2>1 DEF Orderly
<1>16. ASSUME to = "responses", usage' PROVE InResponse(sink', frames')
  <2>1. Len(chunks) > 0 \/ InResponse(sink, frames)
    <3>1. CASE usage
      BY <1>11, <1>16, <3>1
    <3>2. CASE \E i \in 1 .. Len(chunks) : chunks[i].usage
      BY <1>10, <3>2
    <3> QED BY <1>3, <1>10, <1>16, <3>1, <3>2
  <2> HIDE DEF SinkNests, InResponse
  <2> QED BY <1>3, <1>13, <1>16, <2>1 DEF NestedBy
<1> QED BY <1>14, <1>15, <1>16

(* What the pump adds to a stream that ends: an estimate where the         *)
(* upstream counted nothing, which starts what has not started, and the    *)
(* close of the client's dialect.                                          *)
LEMMA EstimateNests ==
    ASSUME NEW cl \in {"claude", "responses"}, NEW s, NEW G \in Seq(FrameSet), SinkNests(cl, s, G),
           cl = "responses" /\ usage => InResponse(s, G)
    PROVE  LET e == Flow!Estimate(cl, s)
           IN  /\ e.out \in Seq(FrameSet) /\ SinkNests(cl, e.state, G \o e.out)
               /\ cl = "responses" => InResponse(e.state, G \o e.out)
<1> DEFINE c == Flow!Chunk(<<>>, "none", TRUE)
           e == Flow!Estimate(cl, s)
<1>1. CASE usage
  <2>1. e.state = s /\ e.out = <<>>
    BY <1>1 DEF Flow!Estimate, Flow!Result
  <2>2. <<>> \in Seq(FrameSet) /\ G \o <<>> = G
    <3> HIDE DEF FrameSet
    <3> QED OBVIOUS
  <2> HIDE DEF e, SinkNests, InResponse, FrameSet
  <2>3. e.out \in Seq(FrameSet) /\ SinkNests(cl, e.state, G \o e.out) /\ (cl = "responses" => InResponse(e.state, G \o e.out))
    BY <1>1, <2>1, <2>2
  <2> QED BY <2>3 DEF e
<1>2. CASE ~usage
  <2>1. c.parts = <<>> /\ c.finish = "none" /\ c = [parts |-> <<>>, finish |-> "none", usage |-> TRUE]
    BY DEF Flow!Chunk
  <2>2. c \in ChunkSet
    <3> HIDE DEF PartSet, c
    <3>1. <<>> \in Seq(PartSet)
      OBVIOUS
    <3> QED BY <2>1, <3>1 DEF ChunkSet, Ends
  <2>3. Suits(cl, s, c)
    BY <2>1 DEF Suits, Bare
  <2>4. e = Flow!Emit(cl, s, c)
    BY <1>2 DEF Flow!Estimate
  <2> HIDE DEF c, e
  <2>5. Framing(cl, s, G, c, e)
    <3> HIDE DEF Framing, SinkNests, Suits, ChunkSet
    <3> QED BY <2>2, <2>3, <2>4, EmitNests
  <2> HIDE DEF SinkNests, InResponse
  <2>6. e.out \in Seq(FrameSet) /\ SinkNests(cl, e.state, G \o e.out) /\ (cl = "responses" => InResponse(e.state, G \o e.out))
    BY <2>5 DEF Framing
  <2> QED BY <2>6 DEF e
<1> QED BY <1>1, <1>2

(* The close of the dialect stops the message, or completes the response.  *)
LEMMA FinishNests ==
    ASSUME NEW cl \in {"claude", "responses"}, NEW s, NEW G, SinkNests(cl, s, G),
           cl = "responses" => InResponse(s, G)
    PROVE  LET f == Flow!Finish(cl, s)
           IN  /\ f.out \in Seq(FrameSet)
               /\ cl = "claude" => Done(f.state, G \o f.out)
               /\ cl = "responses" => Completed(G \o f.out)
<1> DEFINE c == Flow!Nothing
           f == Flow!Finish(cl, s)
<1>1. c.parts \in Seq(PartSet) /\ c.finish \in Ends /\ Bare(c)
  <2>1. c.parts = <<>> /\ c.finish = "none"
    BY DEF Flow!Nothing, Flow!Chunk
  <2> HIDE DEF PartSet
  <2>2. <<>> \in Seq(PartSet)
    OBVIOUS
  <2> QED BY <2>1, <2>2 DEF Ends, Bare
<1> HIDE DEF c
<1>2. CASE cl = "claude"
  <2>1. f = Flow!ClaudeFrames(s, c, TRUE)
    BY <1>2 DEF Flow!Finish, c
  <2>2. ClaudeNests(s, G)
    BY <1>2, Zenon DEF SinkNests
  <2> DEFINE end == TRUE
  <2>3. end \in BOOLEAN /\ end
    OBVIOUS
  <2> HIDE DEF end, ClaudeNests, Bare, f
  <2>4. LET p == Flow!ClaudeFrames(s, c, end)
        IN  /\ p.out \in Seq(FrameSet) /\ ClaudeNests(p.state, G \o p.out) /\ p.state.started
            /\ p.state.finished <=> s.finished \/ c.finish # "none" \/ end
    BY <1>1, <2>2, <2>3, ClaudeFramesNest
  <2>5. f = Flow!ClaudeFrames(s, c, end)
    BY <2>1 DEF end
  <2>6. f.out \in Seq(FrameSet) /\ ClaudeNests(f.state, G \o f.out) /\ f.state.finished
    BY <2>3, <2>4, <2>5
  <2>7. Done(f.state, G \o f.out)
    <3> HIDE DEF Done
    <3>1. ~Fresh(f.state, G \o f.out) /\ ~InMessage(f.state, G \o f.out)
      BY <2>6 DEF Fresh, InMessage, Apart
    <3> HIDE DEF Fresh, InMessage
    <3> QED BY <2>6, <3>1 DEF ClaudeNests
  <2> HIDE DEF Done, Completed
  <2> QED BY <1>2, <2>6, <2>7 DEF f
<1>3. CASE cl = "responses"
  <2>1. f = Flow!ResponsesFrames(s, c, TRUE) /\ InResponse(s, G)
    BY <1>3 DEF Flow!Finish, c
  <2> HIDE DEF f, InResponse, Completed
  <2>2. f.out \in Seq(FrameSet) /\ Completed(G \o f.out)
    BY <1>1, <2>1, ResponseFinishes
  <2> HIDE DEF Done
  <2> QED BY <1>3, <2>2 DEF f
<1> QED BY <1>2, <1>3

(* The end of the stream, wherever it comes.                               *)
LEMMA EndNests ==
    ASSUME FlowInv, NestInv, Flow!EndOfStream
    PROVE  NestInv'
<1> DEFINE to == formats.to
           e == Flow!Estimate(to, sink)
           f == Flow!Finish(to, e.state)
           o == e.out
           w == f.out
           g == frames
           H == g \o o
<1>1. formats' = formats /\ stage = "open" /\ stage' = "closed"
  BY DEF Flow!EndOfStream
<1>2. sink' = f.state /\ frames' = g \o (o \o w)
  <2>1. sink' = Flow!Closed(to, e).state /\ frames' = frames \o Flow!Closed(to, e).out
    BY DEF Flow!EndOfStream, Flow!Sends
  <2> HIDE DEF e, to
  <2>2. Flow!Closed(to, e).state = f.state /\ Flow!Closed(to, e).out = o \o w
    BY DEF Flow!Closed, Flow!Then, Flow!Result
  <2> QED BY <2>1, <2>2
<1>3. g \in Seq(FrameSet)
  BY DEF FlowInv, SinkOk
<1> HIDE DEF to
<1> SUFFICES ASSUME to \in {"claude", "responses"}
             PROVE  (to = "claude" => Done(sink', frames')) /\ (to = "responses" => Completed(frames'))
  <2> HIDE DEF Done, Completed
  <2> QED BY <1>1 DEF NestInv, to
<1>4. SinkNests(to, sink, g) /\ (to = "responses" /\ usage => InResponse(sink, g))
  <2> HIDE DEF SinkNests, InResponse, SaidAll, Done, Completed
  <2> QED BY <1>1 DEF NestInv, to
<1> HIDE DEF g, H
<1>5. o \in Seq(FrameSet) /\ SinkNests(to, e.state, H) /\ (to = "responses" => InResponse(e.state, H))
  <2> HIDE DEF SinkNests, InResponse, FrameSet
  <2> QED BY <1>3, <1>4, EstimateNests DEF H
<1> HIDE DEF e
<1>6. w \in Seq(FrameSet) /\ (to = "claude" => Done(f.state, H \o w)) /\ (to = "responses" => Completed(H \o w))
  <2> HIDE DEF SinkNests, InResponse, FrameSet, Done, Completed
  <2> QED BY <1>5, FinishNests
<1> HIDE DEF o, w, f
<1>7. g \o (o \o w) = H \o w
  <2>1. g \o (o \o w) = (g \o o) \o w
    <3> HIDE DEF FrameSet
    <3> QED BY <1>3, <1>5, <1>6, FramesJoin, Zenon
  <2> QED BY <2>1 DEF H
<1> HIDE DEF Done, Completed
<1> QED BY <1>2, <1>6, <1>7

(* It holds of every state of a stream.                                    *)
LEMMA NestInvIs ==
    Flow!StreamSpec => []NestInv
<1>1. Flow!StreamInit => NestInv
  <2> SUFFICES ASSUME Flow!StreamInit PROVE NestInv
    OBVIOUS
  <2>1. formats.to = "openai" /\ stage = "idle" /\ ~usage
    BY DEF Flow!StreamInit
  <2> QED BY <2>1 DEF NestInv
<1>2. ASSUME FlowInv, NestInv, [Flow!StreamNext]_Flow!streamVars PROVE NestInv'
  <2>1. CASE Flow!Connect
    BY <1>2, <2>1, NestStarts
  <2>2. CASE Flow!Translate
    BY <1>2, <2>2, TranslateNests
  <2>3. CASE Flow!EndOfStream
    BY <1>2, <2>3, EndNests
  <2>4. CASE UNCHANGED Flow!streamVars
    <3> HIDE DEF SinkNests, InResponse, SaidAll, Done, Completed
    <3> QED BY <1>2, <2>4 DEF NestInv, Flow!streamVars
  <2> QED BY <1>2, <2>1, <2>2, <2>3, <2>4 DEF Flow!StreamNext
<1> QED BY <1>1, <1>2, FlowInvIs, PTL DEF Flow!StreamSpec

(* What it says of a message is what the client is promised of it.         *)
LEMMA MessageNests ==
    ASSUME FlowInv, NestInv, formats.to = "claude", ~Flow!ThinksAfterCalling
    PROVE  (stage = "closed" => Places(frames, "message_stop") # {}) /\ Framed(frames)
<1>1. sink \in ClaudeSinks /\ frames \in Seq(FrameSet)
  BY DEF FlowInv, SinkOk, ClaudeOk
<1>2. ~Overlaps(sink)
  <2>1. DOMAIN sink.tools = 1 .. Len(sink.tools)
    <3>1. sink.tools \in Seq(Pairs)
      BY <1>1, ClaudeSinksAre
    <3> HIDE DEF Pairs
    <3> QED BY <3>1
  <2> QED BY <2>1 DEF Overlaps, ToolBlocks, Flow!ThinksAfterCalling
<1>3. stage # "closed" => ClaudeNests(sink, frames)
  <2> HIDE DEF ClaudeNests, InResponse, SaidAll, Done, Completed
  <2> QED BY DEF NestInv, SinkNests
<1>4. stage = "closed" => Done(sink, frames)
  <2> HIDE DEF SinkNests, InResponse, SaidAll, Done, Completed
  <2> QED BY DEF NestInv
<1>5. ASSUME Done(sink, frames) PROVE Framed(frames) /\ Places(frames, "message_stop") # {}
  <2> HIDE DEF Framed, Overlaps
  <2> QED BY <1>2, <1>5 DEF Done
<1>6. ASSUME InMessage(sink, frames) PROVE Framed(frames)
  <2>1. Opened(sink, frames)
    BY <1>6 DEF InMessage
  <2> HIDE DEF Framed, Overlaps, Opened
  <2> QED BY <1>1, <1>2, <1>6, <2>1, OpenedFramed DEF InMessage
<1>7. ASSUME Fresh(sink, frames) PROVE Framed(frames)
  <2> DEFINE G == frames
  <2>1. G = <<>>
    BY <1>7 DEF Fresh
  <2>2. Len(G) = 0
    BY <2>1
  <2> HIDE DEF G
  <2>3. \A i \in 1 .. Len(G) : FALSE
    BY <2>2
  <2>4. Framed(G)
    BY <2>3 DEF Framed, Headed, Places
  <2> QED BY <2>4 DEF G
<1> HIDE DEF Framed, Done, InMessage, Fresh
<1> QED BY <1>3, <1>4, <1>5, <1>6, <1>7 DEF ClaudeNests

(* The same of a Responses stream: the items that are done are counted     *)
(* where it closes.                                                        *)
Promised(G) ==
    /\ Headed(G, "created")
    /\ \A i, j \in 1 .. Len(G) : i < j => G[i].seq < G[j].seq
    /\ \A i, j \in Places(G, "added") : G[i].index = G[j].index => i = j
    /\ \A i \in Places(G, "delta") : \E j \in Places(G, "added") : j < i /\ G[j].index = G[i].index

(* What the invariant says of a response is what the client is promised.   *)
LEMMA ResponseNests ==
    ASSUME FlowInv, NestInv, formats.to = "responses"
    PROVE  Promised(frames) /\ (stage = "closed" => Completed(frames))
<1>1. stage # "closed" => Unstarted(sink, frames) \/ InResponse(sink, frames)
  <2> HIDE DEF ClaudeNests, InResponse, Unstarted, SaidAll, Done, Completed
  <2> QED BY DEF NestInv, SinkNests
<1>2. stage = "closed" => Completed(frames)
  <2> HIDE DEF SinkNests, InResponse, SaidAll, Done, Completed
  <2> QED BY DEF NestInv
<1>3. ASSUME Completed(frames) PROVE Promised(frames)
  <2> HIDE DEF Headed, DoneOnce, Places
  <2> QED BY <1>3 DEF Completed, Promised
<1>4. ASSUME InResponse(sink, frames) PROVE Promised(frames)
  <2>1. \E n, z : Adding(n, z, frames)
    <3> HIDE DEF Adding, ResponsesOk
    <3> QED BY <1>4 DEF InResponse
  <2> HIDE DEF Headed, Places
  <2> QED BY <2>1 DEF Adding, Promised
<1>5. ASSUME Unstarted(sink, frames) PROVE Promised(frames)
  <2> DEFINE G == frames
  <2>1. G = <<>>
    BY <1>5 DEF Unstarted
  <2>2. Len(G) = 0
    BY <2>1
  <2> HIDE DEF G
  <2>3. \A i \in 1 .. Len(G) : FALSE
    BY <2>2
  <2>4. Promised(G)
    BY <2>3 DEF Promised, Headed, Places
  <2> QED BY <2>4 DEF G
<1> HIDE DEF Promised, Completed, InResponse, Unstarted
<1> QED BY <1>1, <1>2, <1>3, <1>4, <1>5

(* One frame that ends an item is one in number.                           *)
LEMMA DoneOnceIs ==
    ASSUME NEW G, NEW x, DoneOnce(G, x)
    PROVE  Cardinality({j \in Places(G, "done") : G[j].index = x}) = 1
<1>1. PICK i \in 1 .. Len(G) : EndsIt(G[i], x) /\ \A j \in 1 .. Len(G) : EndsIt(G[j], x) => j = i
  BY DEF DoneOnce
<1>2. {j \in Places(G, "done") : G[j].index = x} = {i}
  BY <1>1, Zenon DEF EndsIt, Places
<1> QED BY <1>2, FS_Singleton

(* The framing of the client's dialect: what opens is closed, in its       *)
(* order, once and before the end (OpenaiToClaudeStream,                   *)
(* OpenaiToResponsesStream, StreamPump::finish).                           *)
THEOREM FramesNested == Flow!StreamSpec => []FramesNest
<1>1. ASSUME FlowInv, NestInv PROVE FramesNest
  <2> DEFINE G == frames
  <2>1. DOMAIN G = 1 .. Len(G)
    <3>1. G \in Seq(FrameSet)
      BY <1>1 DEF FlowInv, SinkOk
    <3> HIDE DEF FrameSet, G
    <3> QED BY <3>1
  <2>2. \A type : Flow!Indexes(type) = Places(G, type)
    BY <2>1, Zenon DEF Flow!Indexes, Places
  <2>3. formats.to = "claude" /\ ~Flow!ThinksAfterCalling =>
          Framed(G) /\ (stage = "closed" => Places(G, "message_stop") # {})
    <3> HIDE DEF FlowInv, NestInv, Framed
    <3> QED BY <1>1, MessageNests
  <2>4. formats.to = "responses" => Promised(G) /\ (stage = "closed" => Completed(G))
    <3> HIDE DEF FlowInv, NestInv, Promised, Completed
    <3> QED BY <1>1, ResponseNests
  <2>0. \A S : Flow!Cardinality(S) = Cardinality(S)
    BY DEF Flow!Cardinality, Cardinality
  <2> HIDE DEF Places
  <2>5. ASSUME Completed(G)
        PROVE  /\ G[Len(G)].type \in {"completed", "incomplete"}
               /\ \A i \in Places(G, "added") :
                    Cardinality({j \in Places(G, "done") : G[j].index = G[i].index}) = 1
    <3> HIDE DEF DoneOnce, G, Headed
    <3> QED BY <2>5, DoneOnceIs DEF Completed
  <2>6. formats.to = "claude" /\ ~Flow!ThinksAfterCalling =>
        /\ \A i \in DOMAIN G : (i = 1) <=> G[i].type = "message_start"
        /\ \A i \in Flow!Indexes("block_delta") \cup Flow!Indexes("block_stop") :
              /\ \E j \in Flow!Indexes("block_start") : j < i /\ G[j].index = G[i].index
              /\ ~ \E j \in Flow!Indexes("block_stop") : j < i /\ G[j].index = G[i].index
        /\ \A i, j \in Flow!Indexes("block_start") : G[i].index = G[j].index => i = j
        /\ \A i \in Flow!Indexes("message_stop") :
              /\ i = Len(G)
              /\ Flow!Cardinality(Flow!Indexes("block_stop")) = Flow!Cardinality(Flow!Indexes("block_start"))
        /\ stage = "closed" => Flow!Indexes("message_stop") # {}
    <3> HIDE DEF G
    <3> QED BY <2>1, <2>0, <2>2, <2>3, Zenon DEF Framed, Headed
  <2>7. formats.to = "responses" =>
        /\ \A i \in DOMAIN G : (i = 1) <=> G[i].type = "created"
        /\ \A i, j \in DOMAIN G : i < j => G[i].seq < G[j].seq
        /\ \A i, j \in Flow!Indexes("added") : G[i].index = G[j].index => i = j
        /\ \A i \in Flow!Indexes("delta") :
              \E j \in Flow!Indexes("added") : j < i /\ G[j].index = G[i].index
        /\ stage = "closed" =>
              LET last == G[Len(G)]
              IN  /\ last.type \in {"completed", "incomplete"}
                  /\ \A i \in Flow!Indexes("added") :
                        Flow!Cardinality({j \in Flow!Indexes("done") : G[j].index = G[i].index}) = 1
    <3> HIDE DEF G, Completed
    <3> QED BY <2>1, <2>0, <2>2, <2>4, <2>5, Zenon DEF Promised, Headed
  <2> QED BY <2>6, <2>7, Zenon DEF FramesNest, Flow!FramesNest, G
<1>2. FlowInv /\ NestInv => FramesNest
  BY <1>1
<1> QED BY <1>2, FlowInvIs, NestInvIs, PTL
=============================================================================
