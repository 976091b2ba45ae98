----------------------- MODULE SessionsAndPump_proofs ------------------------
(***************************************************************************)
(* Proofs about what a request finds when it comes and what it leaves by.  *)
(* WarmSessions, for any requests, conversations, ids and limits: its type *)
(* invariant, that only accepted sessions are offered again, and that the  *)
(* saver loses no change.  StreamPump, for streams of any length, cut into *)
(* reads anywhere, and any capacity of the channel between the task and    *)
(* the client: a client which stays is given the whole stream.  They share *)
(* no state.                                                               *)
(***************************************************************************)
EXTENDS WarmSessions, StreamPump, FiniteSetTheorems, FunctionTheorems, SequenceTheorems,
        WellFoundedInduction, TLAPS

-----------------------------------------------------------------------------
(* WarmSessions: the sequences of a lane.                                  *)

LEMMA RemoveAtType ==
    ASSUME NEW T, NEW w \in Seq(T), NEW i \in 1 .. Len(w)
    PROVE  RemoveAt(w, i) \in Seq(T) /\ Len(RemoveAt(w, i)) = Len(w) - 1
<1> DEFINE n == Len(w)
           before == SubSeq(w, 1, i - 1)
           after == SubSeq(w, i + 1, n)
<1>1. n \in Nat /\ i \in Int /\ i + 1 \in Int /\ i - 1 \in Int
  OBVIOUS
<1>2. \A k \in 1 .. n : w[k] \in T
  OBVIOUS
<1>3. before \in Seq(T) /\ Len(before) = i - 1
  <2>1. \A k \in 1 .. i - 1 : w[k] \in T
    BY <1>1, <1>2
  <2>2. before \in Seq(T) /\ Len(before) = IF 1 <= i - 1 THEN (i - 1) - 1 + 1 ELSE 0
    BY <1>1, <2>1, SubSeqProperties
  <2> HIDE DEF before
  <2> QED BY <1>1, <2>2
<1>4. after \in Seq(T) /\ Len(after) = n - i
  <2>1. \A k \in i + 1 .. n : w[k] \in T
    BY <1>1, <1>2
  <2>2. after \in Seq(T) /\ Len(after) = IF i + 1 <= n THEN n - (i + 1) + 1 ELSE 0
    BY <1>1, <2>1, SubSeqProperties
  <2> HIDE DEF after
  <2> QED BY <1>1, <2>2
<1>5. RemoveAt(w, i) = before \o after
  BY DEF RemoveAt
<1> HIDE DEF before, after
<1>6. before \o after \in Seq(T) /\ Len(before \o after) = Len(before) + Len(after)
  BY <1>3, <1>4, ConcatProperties
<1> QED BY <1>1, <1>3, <1>4, <1>5, <1>6

LEMMA WithoutType ==
    ASSUME NEW T, NEW w \in Seq(T), NEW s
    PROVE  Without(w, s) \in Seq(T) /\ Len(Without(w, s)) <= Len(w)
<1>1. Len(w) \in Nat /\ DOMAIN w = 1 .. Len(w)
  OBVIOUS
<1>2. CASE s \notin Range(w)
  BY <1>1, <1>2 DEF Without
<1>3. CASE s \in Range(w)
  <2> DEFINE i == CHOOSE j \in DOMAIN w : w[j] = s
  <2>1. i \in 1 .. Len(w)
    BY <1>1, <1>3 DEF Range
  <2>2. RemoveAt(w, i) \in Seq(T) /\ Len(RemoveAt(w, i)) = Len(w) - 1
    BY <2>1, RemoveAtType
  <2>3. Without(w, s) = RemoveAt(w, i)
    BY <1>3 DEF Without
  <2> HIDE DEF i
  <2> QED BY <1>1, <2>2, <2>3
<1> QED BY <1>2, <1>3

LEMMA WarmedType ==
    ASSUME NEW T, NEW w \in Seq(T), NEW s \in T, Len(w) <= WarmLimit
    PROVE  Warmed(w, s) \in Seq(T) /\ Len(Warmed(w, s)) <= WarmLimit
<1> DEFINE rest == Without(w, s)
           next == Append(rest, s)
<1>1. rest \in Seq(T) /\ Len(rest) <= Len(w) /\ Len(rest) \in Nat /\ Len(w) \in Nat
  BY WithoutType
<1>2. WarmLimit \in Nat
  BY SessionAssumption
<1> HIDE DEF rest
<1>3. next \in Seq(T) /\ Len(next) = Len(rest) + 1
  BY <1>1
<1>4. CASE Len(next) > WarmLimit
  <2>1. next # << >>
    BY <1>1, <1>3
  <2>2. Tail(next) \in Seq(T) /\ Len(Tail(next)) = Len(next) - 1
    BY <1>1, <1>3, <2>1
  <2> QED BY <1>1, <1>2, <1>3, <1>4, <2>2 DEF Warmed, rest
<1>5. CASE ~(Len(next) > WarmLimit)
  BY <1>1, <1>2, <1>3, <1>5 DEF Warmed, rest
<1> QED BY <1>4, <1>5

LEMMA OfferedType ==
    ASSUME NEW T, warm \in Seq(T)
    PROVE  Offered \in Seq(T)
<1> DEFINE n == IF Len(warm) < ProbeAttempts THEN Len(warm) ELSE ProbeAttempts
<1>1. Len(warm) \in Nat /\ ProbeAttempts \in Nat
  BY SessionAssumption
<1>2. n \in Nat /\ n <= Len(warm)
  BY <1>1
<1>3. \A i \in 1 .. n : warm[Len(warm) + 1 - i] \in T
  <2> TAKE i \in 1 .. n
  <2>1. Len(warm) + 1 - i \in 1 .. Len(warm)
    BY <1>1, <1>2
  <2> QED BY <2>1
<1> HIDE DEF n
<1>4. [i \in 1 .. n |-> warm[Len(warm) + 1 - i]] \in Seq(T)
  BY <1>2, <1>3, SeqDef
<1> QED BY <1>4 DEF Offered, n

LEMMA SeqOfMore ==
    ASSUME NEW T, NEW U, T \subseteq U, NEW w \in Seq(T)
    PROVE  w \in Seq(U)
OBVIOUS

-----------------------------------------------------------------------------
(* The inductive invariant.  Offered sessions come from the warm set or a  *)
(* list taken from it, the warm set from answers or the file, and the file *)
(* from an earlier warm set: all of them sequences over served.            *)

Holding == {"walking", "flying", "refused", "unwarmed", "thanked", "rebinding",
            "crediting", "demoting"}
Thanking == {"thanked", "rebinding", "crediting"}

Sound(q, T) ==
    /\ q \in Request
    /\ q.phase \in Holding => q.session \in Sessions
    /\ q.phase = "flying" /\ q.mode # "first" => q.session \in T
    /\ q.phase \in Thanking => q.session \in T
    /\ q.list \in Seq(T)

FileSound(f, T) == f \in File /\ f.warm \in Seq(T)

MemorySound(T) == FileSound(InMemory, T)

RequestsSound == req \in [Requests -> Request] /\ \A r \in Requests : Sound(req[r], served)

IInv ==
    /\ FileSound(InMemory, served)
    /\ FileSound(copy, served) /\ FileSound(disk, served)
    /\ dirty \in BOOLEAN
    /\ saver \in {"idle", "writing", "leaving"}
    /\ RequestsSound
    /\ minted \subseteq Sessions /\ served \subseteq Sessions

LEMMA InMemoryFields ==
    /\ InMemory.memo = memo /\ InMemory.warm = warm
    /\ InMemory.refused = refused /\ InMemory.blocked = blocked
BY DEF InMemory

LEMMA MemoryIs ==
    ASSUME NEW T
    PROVE  FileSound(InMemory, T) <=>
               /\ memo \in [Seeds -> Sessions \cup {NoSession}]
               /\ warm \in Seq(Sessions) /\ Len(warm) <= WarmLimit /\ warm \in Seq(T)
               /\ refused \in [Sessions -> 0 .. RefusalLimit - 1]
               /\ blocked \in BOOLEAN
BY DEF InMemory, FileSound, File

LEMMA FileSoundOn ==
    ASSUME NEW f, NEW T, NEW U, T \subseteq U, FileSound(f, T)
    PROVE  FileSound(f, U)
BY SeqOfMore DEF FileSound

LEMMA SoundOn ==
    ASSUME NEW q, NEW T, NEW U, T \subseteq U, Sound(q, T)
    PROVE  Sound(q, U)
BY SeqOfMore DEF Sound

LEMMA IdleSound == ASSUME NEW T PROVE Sound(Idle, T)
BY DEF Sound, Idle, Request, Phases, Holding, Thanking

LEMMA EmptyFileSound == ASSUME NEW T PROVE FileSound(EmptyFile, T)
<1>1. RefusalLimit \in Nat /\ RefusalLimit > 0 /\ WarmLimit \in Nat
  BY SessionAssumption
<1> QED BY <1>1 DEF FileSound, EmptyFile, File

(* The phase of a sound request moves on. *)
LEMMA PhaseSound ==
    ASSUME NEW T, NEW q, Sound(q, T), NEW p \in Phases,
           p \in Holding => q.session \in Sessions,
           p = "flying" => q.mode = "first",
           p \in Thanking => q.session \in T
    PROVE  Sound([q EXCEPT !.phase = p], T)
<1> DEFINE n == [q EXCEPT !.phase = p]
<1>1. q \in Request
  BY DEF Sound
<1>2. /\ n.phase = p /\ n.seed = q.seed /\ n.session = q.session
      /\ n.mode = q.mode /\ n.retried = q.retried /\ n.list = q.list
  BY <1>1 DEF Request
<1>3. n \in Request
  BY <1>1 DEF Request
<1> HIDE DEF n
<1>4. Sound(n, T)
  BY <1>2, <1>3 DEF Sound
<1> QED BY <1>4 DEF n

(* One request changes, and possibly one more session has been accepted. *)
LEMMA OneRequest ==
    ASSUME IInv, NEW r \in Requests, NEW q, NEW U, served \subseteq U, Sound(q, U),
           req' = [req EXCEPT ![r] = q], served' = U
    PROVE  RequestsSound'
<1>1. req \in [Requests -> Request] /\ \A p \in Requests : Sound(req[p], served)
  BY DEF IInv, RequestsSound
<1>2. q \in Request
  BY DEF Sound
<1>3. req' \in [Requests -> Request]
  BY <1>1, <1>2
<1>4. ASSUME NEW p \in Requests PROVE Sound(req'[p], U)
  <2>1. CASE p = r
    BY <1>1, <2>1
  <2>2. CASE p # r
    BY <1>1, <2>2, SoundOn
  <2> QED BY <2>1, <2>2
<1>5. ASSUME NEW p \in Requests PROVE Sound(req[p], served)'
  BY <1>4 DEF Sound
<1> QED BY <1>3, <1>5 DEF RequestsSound

LEMMA PhaseMoves ==
    ASSUME IInv, NEW r \in Requests, NEW p \in Phases, Goes(r, p), served' = served,
           p \in Holding => req[r].session \in Sessions,
           p # "flying",
           p \in Thanking => req[r].session \in served
    PROVE  RequestsSound'
<1>1. req[r] \in Request /\ Sound(req[r], served) /\ req \in [Requests -> Request]
  BY DEF IInv, RequestsSound
<1>2. req' = [req EXCEPT ![r] = [req[r] EXCEPT !.phase = p]]
  BY <1>1 DEF Goes
<1>3. Sound([req[r] EXCEPT !.phase = p], served)
  BY <1>1, PhaseSound
<1> QED BY <1>2, <1>3, OneRequest

LEMMA RequestLeaves ==
    ASSUME IInv, NEW r \in Requests, Leaves(r), served' = served
    PROVE  RequestsSound'
BY IdleSound, OneRequest DEF Leaves

-----------------------------------------------------------------------------
(* The operations of the store.                                            *)

LEMMA SuccessStep ==
    ASSUME IInv, NEW s \in Sessions, NEW U, served \subseteq U, U \subseteq Sessions, s \in U,
           NoteSuccess(s), served' = U
    PROVE  FileSound(InMemory, served)' /\ dirty' \in BOOLEAN
<1>1. /\ memo \in [Seeds -> Sessions \cup {NoSession}]
      /\ warm \in Seq(Sessions) /\ Len(warm) <= WarmLimit /\ warm \in Seq(served)
      /\ refused \in [Sessions -> 0 .. RefusalLimit - 1]
      /\ blocked \in BOOLEAN
  BY MemoryIs DEF IInv
<1>2. warm' = Warmed(warm, s) /\ memo' = memo /\ refused' = refused /\ dirty' = TRUE
      /\ blocked' \in BOOLEAN
  BY <1>1 DEF NoteSuccess
<1>3. warm' \in Seq(U) /\ Len(warm') <= WarmLimit
  BY <1>1, <1>2, SeqOfMore, WarmedType
<1>4. warm' \in Seq(Sessions)
  BY <1>3, SeqOfMore
<1>5. FileSound(InMemory', U)
  BY <1>1, <1>2, <1>3, <1>4 DEF InMemory, FileSound, File
<1> QED BY <1>2, <1>5 DEF FileSound, File

LEMMA RefusedStep ==
    ASSUME IInv, NEW s \in Sessions, NoteRefused(s), served' = served
    PROVE  FileSound(InMemory, served)' /\ dirty' \in BOOLEAN
<1>1. /\ memo \in [Seeds -> Sessions \cup {NoSession}]
      /\ warm \in Seq(Sessions) /\ Len(warm) <= WarmLimit /\ warm \in Seq(served)
      /\ refused \in [Sessions -> 0 .. RefusalLimit - 1]
      /\ blocked \in BOOLEAN
  BY MemoryIs DEF IInv
<1>2. RefusalLimit \in Nat /\ RefusalLimit > 0 /\ WarmLimit \in Nat
  BY SessionAssumption
<1>3. CASE refused[s] + 1 < RefusalLimit
  <2>1. refused' = [refused EXCEPT ![s] = refused[s] + 1]
        /\ memo' = memo /\ warm' = warm /\ blocked' = blocked /\ dirty' = dirty
    BY <1>3 DEF NoteRefused
  <2>2. refused' \in [Sessions -> 0 .. RefusalLimit - 1]
    BY <1>1, <1>2, <1>3, <2>1
  <2>3. FileSound(InMemory', served)
    BY <1>1, <2>1, <2>2 DEF InMemory, FileSound, File
  <2> QED BY <2>1, <2>3 DEF FileSound, File, IInv
<1>4. CASE ~(refused[s] + 1 < RefusalLimit)
  <2>1. /\ refused' = [refused EXCEPT ![s] = 0]
        /\ warm' = Without(warm, s)
        /\ memo' = [k \in Seeds |-> IF memo[k] = s THEN NoSession ELSE memo[k]]
        /\ blocked' = blocked /\ dirty' = TRUE
    BY <1>4 DEF NoteRefused
  <2>2. refused' \in [Sessions -> 0 .. RefusalLimit - 1]
    BY <1>1, <1>2, <2>1
  <2>3. memo' \in [Seeds -> Sessions \cup {NoSession}]
    BY <1>1, <2>1
  <2>4. /\ Without(warm, s) \in Seq(Sessions) /\ Without(warm, s) \in Seq(served)
        /\ Len(Without(warm, s)) <= Len(warm)
    BY <1>1, WithoutType
  <2>5. Len(Without(warm, s)) \in Nat /\ Len(warm) \in Nat
    BY <1>1, <2>4
  <2>6. warm' \in Seq(Sessions) /\ warm' \in Seq(served) /\ Len(warm') <= WarmLimit
    BY <1>1, <1>2, <2>1, <2>4, <2>5
  <2>7. FileSound(InMemory', served)
    BY <1>1, <2>1, <2>2, <2>3, <2>6 DEF InMemory, FileSound, File
  <2> QED BY <2>1, <2>7 DEF FileSound, File
<1> QED BY <1>3, <1>4

LEMMA MemoizeStep ==
    ASSUME IInv, NEW before, before \in [Seeds -> Sessions \cup {NoSession}],
           NEW k \in Seeds, NEW s \in Sessions, Memoize(before, k, s), served' = served
    PROVE  FileSound(InMemory, served)' /\ dirty' \in BOOLEAN
<1>1. /\ warm \in Seq(Sessions) /\ Len(warm) <= WarmLimit /\ warm \in Seq(served)
      /\ refused \in [Sessions -> 0 .. RefusalLimit - 1]
      /\ blocked \in BOOLEAN
  BY MemoryIs DEF IInv
<1>2. /\ memo' = [before EXCEPT ![k] = s] /\ dirty' = TRUE
      /\ warm' = warm /\ refused' = refused /\ blocked' = blocked
  BY DEF Memoize
<1>3. memo' \in [Seeds -> Sessions \cup {NoSession}]
  BY <1>2
<1>4. FileSound(InMemory', served)
  BY <1>1, <1>2, <1>3 DEF InMemory, FileSound, File
<1> QED BY <1>2, <1>4 DEF FileSound, File

LEMMA StoreStands ==
    ASSUME IInv, UNCHANGED store, NEW U, served \subseteq U, served' = U
    PROVE  FileSound(InMemory, served)'
<1>1. InMemory' = InMemory
  BY DEF store, InMemory
<1>2. FileSound(InMemory, U)
  BY FileSoundOn DEF IInv
<1> QED BY <1>1, <1>2 DEF FileSound, File

LEMMA FilesStand ==
    ASSUME IInv, UNCHANGED saving, NEW U, served \subseteq U, served' = U
    PROVE  /\ FileSound(copy, served)' /\ FileSound(disk, served)'
           /\ saver' \in {"idle", "writing", "leaving"}
<1>1. copy' = copy /\ disk' = disk /\ saver' = saver
  BY DEF saving
<1>2. FileSound(copy, U) /\ FileSound(disk, U)
  BY FileSoundOn DEF IInv
<1> QED BY <1>1, <1>2 DEF FileSound, File, IInv

LEMMA RoomType ==
    ASSUME IInv, NEW before \in Room
    PROVE  before \in [Seeds -> Sessions \cup {NoSession}]
<1>1. memo \in [Seeds -> Sessions \cup {NoSession}]
  BY MemoryIs DEF IInv
<1> QED BY <1>1 DEF Room, Memoized

-----------------------------------------------------------------------------
(* The steps of a request.                                                 *)

LEMMA RequestFacts ==
    ASSUME IInv, NEW r \in Requests
    PROVE  /\ Sound(req[r], served) /\ req[r] \in Request
           /\ req \in [Requests -> Request]
           /\ served \subseteq Sessions /\ minted \subseteq Sessions
           /\ dirty \in BOOLEAN
           /\ memo \in [Seeds -> Sessions \cup {NoSession}]
           /\ warm \in Seq(Sessions) /\ warm \in Seq(served)
BY MemoryIs DEF IInv, RequestsSound

(* A step that touches only its request keeps the rest of the invariant.   *)
LEMMA QuietStep ==
    ASSUME IInv, Quiet, RequestsSound'
    PROVE  IInv'
<1>1. UNCHANGED store /\ UNCHANGED saving /\ served' = served /\ minted' = minted
      /\ dirty' = dirty
  BY DEF Quiet, store, saving
<1>2. FileSound(InMemory, served)'
  BY <1>1, StoreStands
<1>3. /\ FileSound(copy, served)' /\ FileSound(disk, served)'
      /\ saver' \in {"idle", "writing", "leaving"}
  BY <1>1, FilesStand
<1> QED BY <1>1, <1>2, <1>3 DEF IInv

LEMMA QuietSteps ==
    ASSUME IInv, NEW r \in Requests, Arrive(r) \/ Miss(r) \/ Dispatch(r) \/ Leave(r)
                     \/ Exhausted(r) \/ Probe(r) \/ EndProbe(r) \/ CheckWarm(r)
                     \/ TakeWarm(r) \/ GiveUp(r) \/ Cancel(r)
    PROVE  IInv'
<1> USE RequestFacts
<1>1. CASE Arrive(r)
  <2>1. PICK k \in Seeds \cup {NoSeed} :
           req' = [req EXCEPT ![r] = [req[r] EXCEPT !.phase = "asking", !.seed = k]]
    BY <1>1 DEF Arrive
  <2> DEFINE q == [req[r] EXCEPT !.phase = "asking", !.seed = k]
  <2>2. /\ q \in Request /\ q.phase = "asking"
        /\ q.session = req[r].session /\ q.list = req[r].list
    BY DEF Request, Phases
  <2>3. req' = [req EXCEPT ![r] = q]
    BY <2>1
  <2> HIDE DEF q
  <2>4. Sound(q, served)
    BY <2>2 DEF Sound, Holding, Thanking
  <2>5. Quiet /\ served' = served
    BY <1>1 DEF Arrive, Quiet
  <2> QED BY <2>2, <2>3, <2>4, <2>5, OneRequest, QuietStep
<1>2. CASE Miss(r)
  <2>1. Quiet /\ served' = served /\ Goes(r, "minting")
    BY <1>2 DEF Miss, Quiet
  <2>2. RequestsSound'
    BY <2>1, PhaseMoves DEF Phases, Holding, Thanking
  <2> QED BY <2>1, <2>2, QuietStep
<1>3. CASE Dispatch(r)
  <2> DEFINE q == [req[r] EXCEPT !.phase = "flying", !.mode = "first"]
  <2>1. Quiet /\ served' = served /\ req' = [req EXCEPT ![r] = q] /\ req[r].phase = "walking"
    BY <1>3 DEF Dispatch, Quiet
  <2>2. /\ q \in Request /\ q.phase = "flying" /\ q.mode = "first"
        /\ q.session = req[r].session /\ q.list = req[r].list
    BY DEF Request, Phases
  <2> HIDE DEF q
  <2>3. Sound(q, served)
    BY <2>1, <2>2 DEF Sound, Holding, Thanking
  <2> QED BY <2>1, <2>3, OneRequest, QuietStep
<1>4. CASE Leave(r) \/ EndProbe(r) \/ Cancel(r)
  <2>1. Quiet /\ served' = served /\ Leaves(r)
    BY <1>4 DEF Leave, EndProbe, Cancel, Quiet
  <2> QED BY <2>1, RequestLeaves, QuietStep
<1>5. CASE Exhausted(r)
  <2> DEFINE q == [Idle EXCEPT !.phase = "probing", !.list = Offered]
  <2>1. Quiet /\ served' = served /\ req' = [req EXCEPT ![r] = q]
    BY <1>5 DEF Exhausted, Quiet
  <2>2. Offered \in Seq(served) /\ Offered \in Seq(Sessions)
    BY OfferedType
  <2>3. Sound(q, served)
    BY <2>2 DEF Sound, Idle, Request, Phases, Holding, Thanking
  <2> QED BY <2>1, <2>3, OneRequest, QuietStep
<1>6. CASE Probe(r)
  <2> DEFINE s == Head(req[r].list)
             rest == Tail(req[r].list)
             q == [req[r] EXCEPT !.phase = "flying", !.mode = "probe",
                                 !.session = s, !.list = rest]
  <2>1. Quiet /\ served' = served /\ req' = [req EXCEPT ![r] = q] /\ req[r].list # << >>
    BY <1>6 DEF Probe, Quiet
  <2>2. req[r].list \in Seq(served)
    BY DEF Sound
  <2>3. s \in served /\ rest \in Seq(served)
    BY <2>1, <2>2
  <2>4. s \in Sessions /\ rest \in Seq(Sessions)
    BY <2>3, SeqOfMore
  <2> HIDE DEF s, rest
  <2>5. /\ q \in Request /\ q.phase = "flying"
        /\ q.session = s /\ q.list = rest
    BY <2>4 DEF Request, Phases
  <2> HIDE DEF q
  <2>6. Sound(q, served)
    BY <2>3, <2>4, <2>5 DEF Sound, Thanking
  <2> QED BY <2>1, <2>6, OneRequest, QuietStep
<1>7. CASE CheckWarm(r)
  <2>1. Quiet /\ served' = served /\ Goes(r, "unwarmed") /\ req[r].phase = "refused"
    BY <1>7 DEF CheckWarm, Quiet
  <2>2. RequestsSound'
    BY <2>1, PhaseMoves DEF Phases, Holding, Thanking, Sound
  <2> QED BY <2>1, <2>2, QuietStep
<1>8. CASE TakeWarm(r)
  <2> DEFINE s == warm[Len(warm)]
             q == [req[r] EXCEPT !.phase = "flying", !.mode = "retry",
                                 !.session = s, !.retried = TRUE]
  <2>1. Quiet /\ served' = served /\ warm # << >>
        /\ (req' = [req EXCEPT ![r] = q] \/ Leaves(r))
    BY <1>8 DEF TakeWarm, Quiet
  <2>2. s \in served /\ s \in Sessions
    BY <2>1
  <2> HIDE DEF s
  <2>3. /\ q \in Request /\ q.phase = "flying"
        /\ q.session = s /\ q.list = req[r].list
    BY <2>2 DEF Request, Phases
  <2> HIDE DEF q
  <2>4. Sound(q, served)
    BY <2>2, <2>3 DEF Sound, Thanking
  <2>5. RequestsSound'
    BY <2>1, <2>4, OneRequest, RequestLeaves
  <2> QED BY <2>1, <2>5, QuietStep
<1>9. CASE GiveUp(r)
  <2>1. Quiet /\ served' = served /\ (Goes(r, "walking") \/ Leaves(r))
        /\ req[r].phase \in {"refused", "unwarmed"}
    BY <1>9 DEF GiveUp, Quiet
  <2>2. RequestsSound'
    BY <2>1, PhaseMoves, RequestLeaves DEF Phases, Holding, Thanking, Sound
  <2> QED BY <2>1, <2>2, QuietStep
<1> QED BY <1>1, <1>2, <1>3, <1>4, <1>5, <1>6, <1>7, <1>8, <1>9

LEMMA MemoStep ==
    ASSUME IInv, NEW r \in Requests, Recall(r) \/ Mint(r) \/ Rebind(r)
    PROVE  IInv'
<1> USE RequestFacts
<1>1. CASE Recall(r)
  <2> DEFINE k == req[r].seed
             q == [req[r] EXCEPT !.phase = "walking", !.session = memo[k]]
  <2>1. /\ k # NoSeed /\ memo[k] # NoSession /\ req[r].phase = "asking"
        /\ UNCHANGED store /\ UNCHANGED saving /\ served' = served /\ minted' = minted
        /\ dirty' \in BOOLEAN
    BY <1>1 DEF Recall, Known
  <2>2. req' = [req EXCEPT ![r] = q]
    BY <1>1 DEF Recall
  <2>3. memo[k] \in Sessions
    BY <2>1 DEF Request
  <2>4. /\ q \in Request /\ q.phase = "walking"
        /\ q.session = memo[k] /\ q.list = req[r].list
    BY <2>3 DEF Request, Phases
  <2> HIDE DEF q
  <2>5. Sound(q, served)
    BY <2>3, <2>4 DEF Sound, Thanking
  <2>6. RequestsSound'
    BY <2>1, <2>2, <2>5, OneRequest
  <2> QED BY <2>1, <2>6, StoreStands, FilesStand DEF IInv
<1>2. CASE Mint(r)
  <2>1. PICK s \in Sessions \ minted :
          /\ minted' = minted \cup {s}
          /\ req' = [req EXCEPT ![r].phase = "walking", ![r].session = s]
          /\ \/ req[r].seed = NoSeed /\ UNCHANGED <<store, dirty>>
             \/ /\ req[r].seed # NoSeed
                /\ \E before \in Room : Memoize(before, req[r].seed, s)
    BY <1>2 DEF Mint
  <2>2. UNCHANGED saving /\ served' = served
    BY <1>2 DEF Mint
  <2> DEFINE q == [req[r] EXCEPT !.phase = "walking", !.session = s]
  <2>3. req' = [req EXCEPT ![r] = q]
    BY <2>1
  <2>4. /\ q \in Request /\ q.phase = "walking"
        /\ q.session = s /\ q.list = req[r].list
    BY DEF Request, Phases
  <2> HIDE DEF q
  <2>5. Sound(q, served)
    BY <2>4 DEF Sound, Thanking
  <2>6. RequestsSound'
    BY <2>2, <2>3, <2>5, OneRequest
  <2>7. FileSound(InMemory, served)' /\ dirty' \in BOOLEAN
    <3>1. CASE UNCHANGED <<store, dirty>>
      BY <2>2, <3>1, StoreStands
    <3>2. CASE req[r].seed # NoSeed /\ \E before \in Room : Memoize(before, req[r].seed, s)
      <4>1. req[r].seed \in Seeds
        BY <3>2 DEF Request
      <4> QED BY <2>2, <3>2, <4>1, RoomType, MemoizeStep
    <3> QED BY <2>1, <3>1, <3>2
  <2> QED BY <2>1, <2>2, <2>6, <2>7, FilesStand DEF IInv
<1>3. CASE Rebind(r)
  <2>1. /\ UNCHANGED saving /\ served' = served /\ minted' = minted
        /\ req[r].phase = "rebinding"
        /\ Goes(r, "crediting") \/ Leaves(r)
    BY <1>3 DEF Rebind
  <2>2. req[r].session \in Sessions /\ req[r].session \in served
    BY <2>1 DEF Sound, Holding, Thanking
  <2>3. RequestsSound'
    BY <2>1, <2>2, PhaseMoves, RequestLeaves DEF Phases
  <2>4. FileSound(InMemory, served)' /\ dirty' \in BOOLEAN
    <3>1. CASE req[r].seed = NoSeed
      BY <1>3, <2>1, <3>1, StoreStands DEF Rebind
    <3>2. CASE req[r].seed # NoSeed
      <4>1. req[r].seed \in Seeds
        BY <3>2 DEF Request
      <4>2. Memoize(memo, req[r].seed, req[r].session)
        BY <1>3, <3>2 DEF Rebind
      <4> QED BY <2>1, <2>2, <4>1, <4>2, MemoizeStep
    <3> QED BY <3>1, <3>2
  <2> QED BY <2>1, <2>3, <2>4, FilesStand DEF IInv
<1> QED BY <1>1, <1>2, <1>3

(* An answer is noted for the session that was sent.                       *)
LEMMA AnswerStep ==
    ASSUME IInv, NEW r \in Requests, NEW answer \in Answers, Answer(r, answer)
    PROVE  IInv'
<1> DEFINE s == req[r].session
           U == IF answer \in {"ok", "empty"} THEN served \cup {s} ELSE served
<1> USE RequestFacts
<1>1. req[r].phase = "flying" /\ s \in Sessions
  BY DEF Answer, Sound, Holding
<1>2. UNCHANGED saving /\ minted' = minted /\ served' = U
  BY DEF Answer
<1>3. served \subseteq U /\ U \subseteq Sessions
  BY <1>1
<1>4. PICK phase \in AfterAnswer(req[r], answer, r \in Testers) :
         req' = [req EXCEPT ![r] = IF phase = "idle" THEN Idle
                                   ELSE [req[r] EXCEPT !.phase = phase]]
  BY DEF Answer
<1>5. RequestsSound'
  <2>1. CASE phase = "idle"
    BY <1>2, <1>3, <1>4, <2>1, IdleSound, OneRequest
  <2>2. CASE phase # "idle"
    <3>1. phase \in {"refused", "walking", "thanked", "crediting", "demoting"}
      BY <1>4, <2>2 DEF AfterAnswer, Accepts
    <3>2. phase \in Thanking => answer = "ok"
      BY <1>4, <3>1 DEF AfterAnswer, Thanking, Accepts
    <3>3. Sound(req[r], U)
      BY <1>3, SoundOn
    <3>4. phase \in Thanking => s \in U
      BY <3>2
    <3>5. phase \in Phases /\ phase # "flying"
      BY <3>1 DEF Phases
    <3> HIDE DEF U
    <3>6. Sound([req[r] EXCEPT !.phase = phase], U)
      BY <1>1, <3>3, <3>4, <3>5, PhaseSound
    <3> QED BY <1>2, <1>3, <1>4, <2>2, <3>6, OneRequest
  <2> QED BY <2>1, <2>2
<1>6. FileSound(InMemory, served)' /\ dirty' \in BOOLEAN
  <2>1. CASE Accepts(answer) /\ ~(r \in Testers /\ req[r].mode = "retry")
    <3>1. NoteSuccess(s)
      BY <2>1 DEF Answer
    <3>2. s \in U
      BY <2>1 DEF Accepts
    <3> HIDE DEF s, U
    <3> QED BY <1>1, <1>2, <1>3, <3>1, <3>2, SuccessStep
  <2>2. CASE ~(Accepts(answer) /\ ~(r \in Testers /\ req[r].mode = "retry"))
    <3>1. UNCHANGED store /\ dirty' = dirty
      BY <2>2 DEF Answer
    <3> HIDE DEF U
    <3> QED BY <1>2, <1>3, <3>1, StoreStands
  <2> QED BY <2>1, <2>2
<1> HIDE DEF U
<1>7. FileSound(copy, served)' /\ FileSound(disk, served)'
      /\ saver' \in {"idle", "writing", "leaving"}
  BY <1>2, <1>3, FilesStand
<1> QED BY <1>2, <1>3, <1>5, <1>6, <1>7 DEF IInv

LEMMA NoteStep ==
    ASSUME IInv, NEW r \in Requests, BlockAdmission(r) \/ Credit(r) \/ Demote(r)
    PROVE  IInv'
<1> USE RequestFacts
<1>1. UNCHANGED saving /\ minted' = minted /\ served' = served
  BY DEF BlockAdmission, Credit, Demote
<1>2. /\ FileSound(copy, served)' /\ FileSound(disk, served)'
      /\ saver' \in {"idle", "writing", "leaving"}
  BY <1>1, FilesStand
<1>3. CASE BlockAdmission(r)
  <2>1. /\ req[r].phase = "thanked" /\ Goes(r, "rebinding")
        /\ memo' = memo /\ warm' = warm /\ refused' = refused
        /\ blocked' = TRUE /\ dirty' = TRUE
    BY <1>3 DEF BlockAdmission
  <2>2. RequestsSound'
    BY <1>1, <2>1, PhaseMoves DEF Sound, Phases, Holding, Thanking
  <2>3. /\ Len(warm) <= WarmLimit
        /\ refused \in [Sessions -> 0 .. RefusalLimit - 1]
    BY MemoryIs DEF IInv
  <2>4. FileSound(InMemory', served)
    BY <2>1, <2>3 DEF InMemory, FileSound, File
  <2>5. FileSound(InMemory, served)'
    BY <1>1, <2>4 DEF FileSound, File
  <2> QED BY <1>1, <1>2, <2>1, <2>2, <2>5 DEF IInv
<1>4. CASE Credit(r)
  <2>1. req[r].phase = "crediting" /\ NoteSuccess(req[r].session) /\ Leaves(r)
    BY <1>4 DEF Credit
  <2>2. req[r].session \in served /\ req[r].session \in Sessions
    BY <2>1 DEF Sound, Holding, Thanking
  <2>3. FileSound(InMemory, served)' /\ dirty' \in BOOLEAN
    BY <1>1, <2>1, <2>2, SuccessStep
  <2> QED BY <1>1, <1>2, <2>1, <2>3, RequestLeaves DEF IInv
<1>5. CASE Demote(r)
  <2>1. req[r].phase = "demoting" /\ NoteRefused(req[r].session) /\ Goes(r, "probing")
    BY <1>5 DEF Demote
  <2>2. req[r].session \in Sessions
    BY <2>1 DEF Sound, Holding
  <2>3. RequestsSound'
    BY <1>1, <2>1, PhaseMoves DEF Phases, Holding, Thanking
  <2>4. FileSound(InMemory, served)' /\ dirty' \in BOOLEAN
    BY <1>1, <2>1, <2>2, RefusedStep
  <2> QED BY <1>1, <1>2, <2>3, <2>4 DEF IInv
<1> QED BY <1>3, <1>4, <1>5

-----------------------------------------------------------------------------
(* The steps of the saver and the process.                                 *)

LEMMA LoadStep ==
    ASSUME IInv, NEW file, FileSound(file, served), Load(file), served' = served
    PROVE  /\ FileSound(InMemory, served)' /\ dirty' \in BOOLEAN /\ saver' = "idle"
           /\ FileSound(copy, served)' /\ RequestsSound'
<1>1. /\ memo' = file.memo /\ warm' = file.warm /\ refused' = file.refused
      /\ blocked' = file.blocked /\ dirty' = FALSE /\ saver' = "idle" /\ copy' = EmptyFile
      /\ req' = [r \in Requests |-> Idle]
  BY DEF Load
<1>2. FileSound(InMemory', served)
  BY <1>1 DEF InMemory, FileSound, File
<1>3. FileSound(copy', served)
  BY <1>1, EmptyFileSound
<1>4. Idle \in Request
  BY IdleSound DEF Sound
<1>5. req' \in [Requests -> Request] /\ \A r \in Requests : Sound(req'[r], served)
  BY <1>1, <1>4, IdleSound
<1>6. FileSound(InMemory, served)' /\ FileSound(copy, served)'
  BY <1>2, <1>3 DEF FileSound, File
<1>7. ASSUME NEW r \in Requests PROVE Sound(req[r], served)'
  BY <1>5 DEF Sound
<1>8. RequestsSound'
  BY <1>5, <1>7 DEF RequestsSound
<1> QED BY <1>1, <1>6, <1>8

LEMMA SaverStep ==
    ASSUME IInv, Snapshot \/ WriteFile \/ Restart \/ Crash
    PROVE  IInv'
<1>1. /\ FileSound(InMemory, served) /\ FileSound(copy, served) /\ FileSound(disk, served)
      /\ dirty \in BOOLEAN /\ RequestsSound
      /\ minted \subseteq Sessions /\ served \subseteq Sessions
  BY DEF IInv
<1>2. ASSUME req' = req, served' = served PROVE RequestsSound'
  <2>1. ASSUME NEW r \in Requests PROVE Sound(req[r], served)'
    BY <1>1, <1>2 DEF Sound, RequestsSound
  <2> QED BY <1>1, <1>2, <2>1 DEF RequestsSound
<1>3. CASE Snapshot
  <2>1. /\ UNCHANGED store /\ disk' = disk /\ req' = req /\ minted' = minted
        /\ served' = served /\ dirty' = FALSE /\ copy' = InMemory
        /\ saver' \in {"writing", "leaving"}
    BY <1>3 DEF Snapshot
  <2>2. FileSound(InMemory, served)' /\ RequestsSound'
    BY <1>2, <2>1, StoreStands
  <2>3. FileSound(copy, served)' /\ FileSound(disk, served)'
    BY <1>1, <2>1 DEF FileSound, File
  <2> QED BY <1>1, <2>1, <2>2, <2>3 DEF IInv
<1>4. CASE WriteFile
  <2>1. PICK ok \in BOOLEAN : /\ disk' = IF ok THEN copy ELSE disk
                              /\ dirty' = FlagAfterWrite(ok)
    BY <1>4 DEF WriteFile
  <2>2. /\ UNCHANGED store /\ req' = req /\ minted' = minted /\ served' = served
        /\ saver' = "idle" /\ copy' = EmptyFile
    BY <1>4 DEF WriteFile
  <2>3. FileSound(InMemory, served)' /\ RequestsSound'
    BY <1>2, <2>2, StoreStands
  <2>4. FileSound(disk', served) /\ FileSound(copy', served) /\ dirty' \in BOOLEAN
    BY <1>1, <2>1, <2>2, EmptyFileSound DEF FlagAfterWrite
  <2>5. FileSound(copy, served)' /\ FileSound(disk, served)'
    BY <2>2, <2>4 DEF FileSound, File
  <2> QED BY <1>1, <2>2, <2>3, <2>4, <2>5 DEF IInv
<1>5. CASE Restart \/ Crash
  <2>1. /\ disk' \in {copy, disk} /\ Load(disk') /\ minted' = minted /\ served' = served
    BY <1>5 DEF Restart, Crash
  <2> DEFINE file == disk'
  <2>2. PICK f \in {copy, disk} : disk' = f
    BY <2>1
  <2>3. FileSound(f, served) /\ Load(f)
    BY <1>1, <2>1, <2>2
  <2>4. /\ FileSound(InMemory, served)' /\ dirty' \in BOOLEAN /\ saver' = "idle"
        /\ FileSound(copy, served)' /\ RequestsSound'
    BY <2>1, <2>3, LoadStep
  <2>5. FileSound(disk, served)'
    BY <2>1, <2>2, <2>3 DEF FileSound, File
  <2> QED BY <1>1, <2>1, <2>4, <2>5 DEF IInv
<1> QED BY <1>3, <1>4, <1>5

-----------------------------------------------------------------------------
(* The invariant holds, and what follows from it.                          *)

LEMMA InitInv == Init => IInv
<1> SUFFICES ASSUME Init PROVE IInv
  OBVIOUS
<1>1. InMemory = EmptyFile
  BY DEF Init, InMemory, EmptyFile
<1>2. FileSound(InMemory, served) /\ FileSound(copy, served) /\ FileSound(disk, served)
  BY <1>1, EmptyFileSound DEF Init
<1>3. Idle \in Request
  BY IdleSound DEF Sound
<1>4. RequestsSound
  BY <1>3, IdleSound DEF Init, RequestsSound
<1> QED BY <1>2, <1>4 DEF Init, IInv

LEMMA StepInv == IInv /\ [Next]_vars => IInv'
<1> SUFFICES ASSUME IInv, [Next]_vars PROVE IInv'
  OBVIOUS
<1>1. CASE Next
  BY <1>1, QuietSteps, MemoStep, AnswerStep, NoteStep, SaverStep DEF Next
<1>2. CASE UNCHANGED vars
  <2>1. Quiet /\ req' = req /\ served' = served
    BY <1>2 DEF vars, Quiet
  <2>2. ASSUME NEW r \in Requests PROVE Sound(req[r], served)'
    BY <2>1 DEF Sound, IInv, RequestsSound
  <2>3. RequestsSound'
    BY <2>1, <2>2 DEF IInv, RequestsSound
  <2> QED BY <2>1, <2>3, QuietStep
<1> QED BY <1>1, <1>2

LEMMA InvHolds == Spec => []IInv
BY InitInv, StepInv, PTL DEF Spec

(* The state of the store is well-typed, in memory, on its way to the file *)
(* and in the file; no lane exceeds its cap, and no refusal count reaches  *)
(* the limit, so that warm_session_candidates filters nothing out.         *)
THEOREM TypeCorrect == Spec => []TypeOK
<1>1. IInv => TypeOK
  BY DEF IInv, TypeOK, FileSound, RequestsSound
<1> QED BY <1>1, InvHolds, PTL

(* Only sessions that the upstream has accepted are sent by a retry or a   *)
(* probe, and only they are warm, in memory and on disk.                   *)
THEOREM AcceptedOffered == Spec => []OnlyAcceptedOffered
<1>1. ASSUME IInv PROVE OnlyAcceptedOffered
  <2>1. warm \in Seq(served) /\ disk.warm \in Seq(served)
    BY <1>1, MemoryIs DEF IInv, FileSound
  <2>2. \A sessions \in {warm, disk.warm} : Range(sessions) \subseteq served
    BY <2>1 DEF Range
  <2>3. \A r \in Requests :
           req[r].phase = "flying" /\ req[r].mode # "first" => req[r].session \in served
    BY <1>1 DEF IInv, RequestsSound, Sound
  <2> QED BY <2>2, <2>3 DEF OnlyAcceptedOffered
<1> QED BY <1>1, InvHolds, PTL

-----------------------------------------------------------------------------
(* The saver.  CleanIsSaved is inductive as it stands: a step that changes *)
(* what is kept marks it, and the flag is cleared only with the copy.      *)

LEMMA SavedStep == CleanIsSaved /\ [Next]_vars => CleanIsSaved'
<1> SUFFICES ASSUME CleanIsSaved, [Next]_vars PROVE CleanIsSaved'
  OBVIOUS
<1> USE InMemoryFields DEF Kept
<1>1. ASSUME UNCHANGED <<memo, warm, blocked>>, UNCHANGED saving, dirty' \in {dirty, TRUE}
      PROVE  CleanIsSaved'
  BY <1>1 DEF CleanIsSaved, saving, InMemory
<1>2. ASSUME dirty' = TRUE PROVE CleanIsSaved'
  BY <1>2 DEF CleanIsSaved
<1>3. ASSUME NEW r \in Requests,
             Arrive(r) \/ Recall(r) \/ Miss(r) \/ Dispatch(r) \/ Leave(r) \/ Exhausted(r)
             \/ Probe(r) \/ EndProbe(r) \/ CheckWarm(r) \/ TakeWarm(r) \/ GiveUp(r)
             \/ Cancel(r)
      PROVE  CleanIsSaved'
  BY <1>1, <1>3 DEF Arrive, Recall, Miss, Dispatch, Leave, Exhausted, Probe, EndProbe,
                    CheckWarm, TakeWarm, GiveUp, Cancel, Quiet, store, saving
<1>4. ASSUME NEW r \in Requests, Mint(r) \/ Rebind(r) PROVE CleanIsSaved'
  BY <1>1, <1>2, <1>4 DEF Mint, Rebind, Memoize, store, saving
<1>5. ASSUME NEW r \in Requests, NEW answer \in Answers, Answer(r, answer)
      PROVE  CleanIsSaved'
  BY <1>1, <1>2, <1>5 DEF Answer, NoteSuccess, store, saving
<1>6. ASSUME NEW r \in Requests, BlockAdmission(r) \/ Credit(r) \/ Demote(r)
      PROVE  CleanIsSaved'
  BY <1>1, <1>2, <1>6 DEF BlockAdmission, Credit, Demote, NoteSuccess, NoteRefused, saving
<1>7. CASE Snapshot
  BY <1>7 DEF Snapshot, CleanIsSaved, store, InMemory
<1>8. CASE WriteFile
  BY <1>8 DEF WriteFile, FlagAfterWrite, CleanIsSaved, store, InMemory
<1>9. CASE Restart \/ Crash
  <2>1. Load(disk')
    BY <1>9 DEF Restart, Crash
  <2> QED BY <2>1 DEF Load, CleanIsSaved, InMemory
<1>10. CASE UNCHANGED vars
  BY <1>1, <1>10 DEF vars, saving
<1> QED BY <1>3, <1>4, <1>5, <1>6, <1>7, <1>8, <1>9, <1>10 DEF Next

(* No change of the store is lost to the saver: whatever the requests do   *)
(* while a file is written, and whether the write succeeds, an unmarked    *)
(* store is the one on disk or on its way there.                           *)
THEOREM NothingLost == Spec => []CleanIsSaved
<1>1. Init => CleanIsSaved
  BY DEF Init, CleanIsSaved, Kept, InMemory, EmptyFile
<1> QED BY <1>1, SavedStep, PTL DEF Spec

-----------------------------------------------------------------------------
(* StreamPump: counting in queues.                                         *)

At(x, s) == {i \in DOMAIN s : s[i] = x}
Up(T, n) == {i + n : i \in T}

LEMMA AtFinite ==
    ASSUME NEW S, NEW s \in Seq(S), NEW T \in SUBSET (DOMAIN s)
    PROVE  IsFiniteSet(T) /\ Cardinality(T) \in Nat
<1>1. Len(s) \in Nat /\ DOMAIN s = 1 .. Len(s)
  OBVIOUS
<1>2. IsFiniteSet(1 .. Len(s))
  BY <1>1, FS_Interval
<1>3. IsFiniteSet(T)
  BY <1>1, <1>2, FS_Subset
<1> QED BY <1>3, FS_CardinalityType

LEMMA CountType ==
    ASSUME NEW S, NEW s \in Seq(S), NEW x
    PROVE  /\ Count(x, s) \in Nat
           /\ Count(x, s) = 0 <=> \A i \in 1 .. Len(s) : s[i] # x
<1>1. IsFiniteSet(At(x, s)) /\ Count(x, s) = Cardinality(At(x, s)) /\ Count(x, s) \in Nat
  BY AtFinite DEF At, Count
<1>2. Count(x, s) = 0 <=> At(x, s) = {}
  BY <1>1, FS_EmptySet
<1> QED BY <1>1, <1>2 DEF At

(* Moving a set of positions up leaves its size. *)
LEMMA Moved ==
    ASSUME NEW T \in SUBSET Nat, IsFiniteSet(T), NEW n \in Nat
    PROVE  IsFiniteSet(Up(T, n)) /\ Cardinality(Up(T, n)) = Cardinality(T)
<1> DEFINE U == Up(T, n)
           f == [i \in T |-> i + n]
<1>1. f \in [T -> U]
  BY DEF Up
<1>2. \A i, j \in T : f[i] = f[j] => i = j
  OBVIOUS
<1>3. \A u \in U : \E i \in T : f[i] = u
  BY DEF Up
<1>4. f \in Bijection(T, U)
  BY <1>1, <1>2, <1>3, Fun_IsBij
<1>5. ExistsBijection(T, U)
  BY <1>4 DEF ExistsBijection
<1> QED BY <1>5, FS_Bijection

(* Positions in a concatenation. *)
LEMMA Placed ==
    ASSUME NEW S, NEW s \in Seq(S), NEW t \in Seq(S),
           NEW A \in SUBSET (DOMAIN s), NEW B \in SUBSET (DOMAIN t)
    PROVE  Cardinality(A \cup Up(B, Len(s))) = Cardinality(A) + Cardinality(B)
<1> DEFINE moved == Up(B, Len(s))
<1>1. /\ Len(s) \in Nat /\ DOMAIN s = 1 .. Len(s) /\ DOMAIN t = 1 .. Len(t) /\ Len(t) \in Nat
  OBVIOUS
<1>2. /\ IsFiniteSet(A) /\ IsFiniteSet(B) /\ Cardinality(A) \in Nat /\ Cardinality(B) \in Nat
  BY AtFinite
<1>3. IsFiniteSet(moved) /\ Cardinality(moved) = Cardinality(B)
  BY <1>1, <1>2, Moved
<1>4. A \cap moved = {}
  BY <1>1 DEF Up
<1> HIDE DEF moved
<1>5. Cardinality(A \cap moved) = 0
  BY <1>4, FS_EmptySet
<1>6. IsFiniteSet(A \cup moved) /\ Cardinality(A \cup moved) = Cardinality(A) + Cardinality(moved) - 0
  BY <1>2, <1>3, <1>5, FS_Union
<1> QED BY <1>2, <1>3, <1>6 DEF moved

LEMMA CountConcat ==
    ASSUME NEW S, NEW s \in Seq(S), NEW t \in Seq(S), NEW x
    PROVE  Count(x, s \o t) = Count(x, s) + Count(x, t)
<1>1. At(x, s \o t) = At(x, s) \cup Up(At(x, t), Len(s))
  <2>1. /\ Len(s) \in Nat /\ Len(t) \in Nat /\ DOMAIN (s \o t) = 1 .. Len(s) + Len(t)
        /\ DOMAIN s = 1 .. Len(s) /\ DOMAIN t = 1 .. Len(t)
        /\ \A i \in 1 .. Len(s) + Len(t) :
              (s \o t)[i] = IF i <= Len(s) THEN s[i] ELSE t[i - Len(s)]
    OBVIOUS
  <2>2. ASSUME NEW i \in At(x, s \o t), ~(i <= Len(s))
        PROVE  i - Len(s) \in At(x, t) /\ i = (i - Len(s)) + Len(s)
    BY <2>1, <2>2 DEF At
  <2>3. ASSUME NEW i \in At(x, s \o t), i <= Len(s) PROVE i \in At(x, s)
    BY <2>1, <2>3 DEF At
  <2>4. ASSUME NEW i \in At(x, s) PROVE i \in At(x, s \o t)
    BY <2>1 DEF At
  <2>5. ASSUME NEW i \in At(x, t) PROVE i + Len(s) \in At(x, s \o t)
    <3>1. i \in 1 .. Len(t) /\ t[i] = x
      BY <2>1 DEF At
    <3> DEFINE j == i + Len(s)
    <3>3. j \in 1 .. Len(s) + Len(t) /\ ~(j <= Len(s)) /\ j - Len(s) = i
      BY <2>1, <3>1
    <3> HIDE DEF j
    <3>4. (s \o t)[j] = t[i]
      BY <2>1, <3>3
    <3>5. j \in At(x, s \o t)
      BY <2>1, <3>1, <3>3, <3>4 DEF At
    <3> QED BY <3>5 DEF j
  <2> QED BY <2>2, <2>3, <2>4, <2>5 DEF Up
<1>2. At(x, s) \subseteq DOMAIN s /\ At(x, t) \subseteq DOMAIN t
  BY DEF At
<1>3. Cardinality(At(x, s \o t)) = Cardinality(At(x, s)) + Cardinality(At(x, t))
  BY <1>1, <1>2, Placed
<1> QED BY <1>3 DEF Count, At

LEMMA CountOne ==
    ASSUME NEW x, NEW y
    PROVE  Count(x, <<y>>) = IF x = y THEN 1 ELSE 0
<1>1. At(x, <<y>>) = IF x = y THEN {1} ELSE {}
  BY DEF At
<1> QED BY <1>1, FS_EmptySet, FS_Singleton DEF Count, At

LEMMA CountNone ==
    ASSUME NEW x
    PROVE  Count(x, <<>>) = 0
<1>1. At(x, <<>>) = {}
  BY DEF At
<1> QED BY <1>1, FS_EmptySet DEF Count, At

LEMMA CountAppend ==
    ASSUME NEW S, NEW s \in Seq(S), NEW y \in S, NEW x
    PROVE  Count(x, Append(s, y)) = Count(x, s) + (IF x = y THEN 1 ELSE 0)
<1>1. Append(s, y) = s \o <<y>> /\ <<y>> \in Seq(S)
  OBVIOUS
<1>2. Count(x, s \o <<y>>) = Count(x, s) + Count(x, <<y>>)
  BY <1>1, CountConcat
<1> QED BY <1>1, <1>2, CountOne

LEMMA CountTail ==
    ASSUME NEW S, NEW s \in Seq(S), s # <<>>, NEW x
    PROVE  Count(x, s) = Count(x, Tail(s)) + (IF x = Head(s) THEN 1 ELSE 0)
<1>1. s = <<Head(s)>> \o Tail(s) /\ Tail(s) \in Seq(S) /\ <<Head(s)>> \in Seq(S)
  OBVIOUS
<1>2. Count(x, s) = Count(x, <<Head(s)>>) + Count(x, Tail(s))
  BY <1>1, CountConcat
<1>3. Count(x, Tail(s)) \in Nat
  BY <1>1, CountType
<1> QED BY <1>2, <1>3, CountOne

-----------------------------------------------------------------------------
(* The parser: what is open depends on the last line that is not of bytes  *)
(* alone, so that it does not matter where the stream is cut.              *)

Told(lines, i, j) == lines[j] # "bytes" /\ \A k \in j + 1 .. i - 1 : lines[k] = "bytes"

Opened(line) == IF line = "blank" THEN "none" ELSE line

LEMMA Least ==
    ASSUME NEW T \in SUBSET Nat, T # {}
    PROVE  \E x \in T : \A y \in T : x <= y
<1>1. IsWellFoundedOn(OpToRel(<, Nat), Nat)
  BY NatLessThanWellFounded
<1>2. \E x \in T : \A y \in T : ~(<<y, x>> \in OpToRel(<, Nat))
  BY <1>1, WFMin, Zenon
<1>3. PICK x \in T : \A y \in T : ~(<<y, x>> \in OpToRel(<, Nat))
  BY <1>2
<1>4. ASSUME NEW y \in T PROVE x <= y
  <2> DEFINE pair == <<y, x>>
  <2>1. pair \in Nat \X Nat /\ pair[1] = y /\ pair[2] = x
    OBVIOUS
  <2>2. ~(pair \in OpToRel(<, Nat))
    BY <1>3
  <2> HIDE DEF pair
  <2>3. ~(y < x)
    BY <2>1, <2>2 DEF OpToRel
  <2> QED BY <2>3
<1> QED BY <1>4

LEMMA LastTold ==
    ASSUME NEW lines, NEW i \in Nat, NEW m \in 1 .. i - 1, lines[m] # "bytes"
    PROVE  \E j \in 1 .. i - 1 : Told(lines, i, j)
<1> DEFINE T == {n \in 1 .. i - 1 : lines[i - n] # "bytes"}
<1>1. i - m \in T /\ T \in SUBSET Nat
  <2>1. i - m \in 1 .. i - 1 /\ i - (i - m) = m
    OBVIOUS
  <2> QED BY <2>1
<1>2. PICK n \in T : \A o \in T : n <= o
  BY <1>1, Least
<1>3. n \in 1 .. i - 1 /\ lines[i - n] # "bytes"
  OBVIOUS
<1>4. ASSUME NEW k \in (i - n) + 1 .. i - 1 PROVE lines[k] = "bytes"
  <2>1. i - k \in 1 .. i - 1 /\ i - (i - k) = k /\ ~(n <= i - k)
    BY <1>3
  <2>2. i - k \notin T
    BY <1>2, <2>1
  <2> QED BY <2>1, <2>2
<1>5. i - n \in 1 .. i - 1
  BY <1>3
<1> HIDE DEF T
<1> QED BY <1>3, <1>4, <1>5 DEF Told

LEMMA OpenTold ==
    ASSUME NEW start, NEW lines \in Seq(Lines), NEW i \in 1 .. Len(lines) + 1,
           NEW j \in 1 .. i - 1, Told(lines, i, j)
    PROVE  OpenAt(start, lines, i) = Opened(lines[j])
<1>1. Len(lines) \in Nat /\ lines[j] \in Lines /\ lines[j] # "bytes"
  BY DEF Told
<1>2. ASSUME NEW k \in 1 .. i - 1, Told(lines, i, k) PROVE k = j
  BY <1>1, <1>2 DEF Told
<1>3. lines[j] \in {"data", "done", "blank"}
  BY <1>1 DEF Lines
<1>4. ASSUME NEW kind
      PROVE  (\E k \in 1 .. i - 1 : Told(lines, i, k) /\ lines[k] = kind) <=> lines[j] = kind
  BY <1>2
<1>5. OpenAt(start, lines, i) =
        LET last(kind) == \E k \in 1 .. i - 1 : Told(lines, i, k) /\ lines[k] = kind
        IN  CASE last("data") -> "data"
              [] last("done") -> "done"
              [] last("blank") -> "none"
              [] OTHER -> start
  BY DEF OpenAt, Told
<1> QED BY <1>3, <1>4, <1>5 DEF Opened

LEMMA OpenUntold ==
    ASSUME NEW start, NEW lines, NEW i, \A j \in 1 .. i - 1 : lines[j] = "bytes"
    PROVE  OpenAt(start, lines, i) = start
BY DEF OpenAt

(* A line is open behind a cut exactly if a parser that goes on from what  *)
(* was open at the cut has it open.                                        *)
LEMMA OpenConcat ==
    ASSUME NEW start, NEW s \in Seq(Lines), NEW t \in Seq(Lines), NEW i \in 1 .. Len(t) + 1
    PROVE  OpenAt(start, s \o t, Len(s) + i) = OpenAt(OpenAt(start, s, Len(s) + 1), t, i)
<1> DEFINE n == Len(s)
           whole == s \o t
<1>1. /\ n \in Nat /\ Len(t) \in Nat /\ whole \in Seq(Lines) /\ Len(whole) = n + Len(t)
      /\ \A k \in 1 .. n : whole[k] = s[k]
      /\ \A k \in 1 .. Len(t) : whole[n + k] = t[k]
  OBVIOUS
<1> HIDE DEF n, whole
<1>2. n + i \in 1 .. Len(whole) + 1 /\ n + 1 \in 1 .. n + 1 /\ i \in Nat
  BY <1>1
<1>3. CASE \E m \in 1 .. i - 1 : t[m] # "bytes"
  <2>1. PICK j \in 1 .. i - 1 : Told(t, i, j)
    BY <1>2, <1>3, LastTold
  <2>2. n + j \in 1 .. (n + i) - 1 /\ j \in 1 .. Len(t)
    BY <1>1
  <2>3. whole[n + j] = t[j]
    BY <1>1, <2>2
  <2>4. ASSUME NEW k \in (n + j) + 1 .. (n + i) - 1 PROVE whole[k] = "bytes"
    <3>1. k - n \in j + 1 .. i - 1 /\ k - n \in 1 .. Len(t) /\ n + (k - n) = k
      BY <1>1
    <3> QED BY <1>1, <2>1, <3>1 DEF Told
  <2>5. Told(whole, n + i, n + j)
    BY <2>1, <2>3, <2>4 DEF Told
  <2>6. OpenAt(start, whole, n + i) = Opened(t[j])
    BY <1>1, <1>2, <2>2, <2>3, <2>5, OpenTold
  <2>7. OpenAt(OpenAt(start, s, n + 1), t, i) = Opened(t[j])
    BY <2>1, OpenTold
  <2> QED BY <2>6, <2>7 DEF n, whole
<1>4. CASE \A m \in 1 .. i - 1 : t[m] = "bytes"
  <2>1. OpenAt(OpenAt(start, s, n + 1), t, i) = OpenAt(start, s, n + 1)
    BY <1>4, OpenUntold
  <2>2. ASSUME NEW k \in n + 1 .. (n + i) - 1 PROVE whole[k] = "bytes"
    <3>1. k - n \in 1 .. i - 1 /\ k - n \in 1 .. Len(t) /\ n + (k - n) = k
      BY <1>1
    <3> QED BY <1>1, <1>4, <3>1
  <2>3. CASE \E m \in 1 .. (n + 1) - 1 : s[m] # "bytes"
    <3>1. PICK j \in 1 .. (n + 1) - 1 : Told(s, n + 1, j)
      BY <1>1, <2>3, LastTold
    <3>2. j \in 1 .. n /\ whole[j] = s[j] /\ j \in 1 .. (n + i) - 1
      BY <1>1
    <3>3. ASSUME NEW k \in j + 1 .. (n + i) - 1 PROVE whole[k] = "bytes"
      <4>1. CASE k <= n
        <5>1. k \in j + 1 .. (n + 1) - 1 /\ k \in 1 .. n
          BY <1>1, <3>2, <4>1
        <5> QED BY <1>1, <3>1, <5>1 DEF Told
      <4>2. CASE ~(k <= n)
        <5>1. k \in n + 1 .. (n + i) - 1
          BY <1>1, <3>2, <4>2
        <5> QED BY <2>2, <5>1
      <4> QED BY <4>1, <4>2
    <3>4. Told(whole, n + i, j)
      BY <3>1, <3>2, <3>3 DEF Told
    <3>5. OpenAt(start, whole, n + i) = Opened(s[j])
      BY <1>1, <1>2, <3>2, <3>4, OpenTold
    <3>6. OpenAt(start, s, n + 1) = Opened(s[j])
      BY <1>2, <3>1, OpenTold DEF n
    <3> QED BY <2>1, <3>5, <3>6 DEF n, whole
  <2>4. CASE \A m \in 1 .. (n + 1) - 1 : s[m] = "bytes"
    <3>1. ASSUME NEW k \in 1 .. (n + i) - 1 PROVE whole[k] = "bytes"
      <4>1. CASE k <= n
        BY <1>1, <2>4, <4>1
      <4>2. CASE ~(k <= n)
        <5>1. k \in n + 1 .. (n + i) - 1
          BY <1>1, <4>2
        <5> QED BY <2>2, <5>1
      <4> QED BY <4>1, <4>2
    <3>2. OpenAt(start, whole, n + i) = start /\ OpenAt(start, s, n + 1) = start
      BY <2>4, <3>1, OpenUntold
    <3> QED BY <2>1, <3>2 DEF n, whole
  <2> QED BY <2>3, <2>4
<1> QED BY <1>3, <1>4

(* The events of a sequence of lines, and those a parser completes.        *)
EventsOf(lines) ==
    {i \in DOMAIN lines : lines[i] = "blank" /\
        \E j \in 1 .. i - 1 : lines[j] = "data" /\ \A k \in j + 1 .. i - 1 : lines[k] = "bytes"}

Completed(start, lines, kind) ==
    {i \in DOMAIN lines : lines[i] = "blank" /\ OpenAt(start, lines, i) = kind}

(* [DONE] is the last event of a stream. *)
DoneIsLast(lines) ==
    \A j, k \in DOMAIN lines : j < k /\ lines[j] = "done" => lines[k] # "data"

LEMMA OpenKind ==
    ASSUME NEW lines \in Seq(Lines), NEW i \in 1 .. Len(lines) + 1, NEW kind \in {"data", "done"}
    PROVE  OpenAt("none", lines, i) = kind <=>
             \E j \in 1 .. i - 1 : lines[j] = kind /\ \A k \in j + 1 .. i - 1 : lines[k] = "bytes"
<1>1. ASSUME NEW j \in 1 .. i - 1, lines[j] = kind, \A k \in j + 1 .. i - 1 : lines[k] = "bytes"
      PROVE  OpenAt("none", lines, i) = kind
  <2>1. Told(lines, i, j)
    BY <1>1 DEF Told
  <2>2. OpenAt("none", lines, i) = Opened(kind)
    BY <1>1, <2>1, OpenTold
  <2> QED BY <2>2 DEF Opened
<1>2. ASSUME OpenAt("none", lines, i) = kind
      PROVE  \E j \in 1 .. i - 1 : lines[j] = kind /\ \A k \in j + 1 .. i - 1 : lines[k] = "bytes"
  <2>1. \E m \in 1 .. i - 1 : lines[m] # "bytes"
    BY <1>2, OpenUntold
  <2>2. PICK j \in 1 .. i - 1 : Told(lines, i, j)
    BY <2>1, LastTold
  <2>3. Opened(lines[j]) = kind
    BY <1>2, <2>2, OpenTold
  <2> QED BY <2>2, <2>3 DEF Opened, Told
<1> QED BY <1>1, <1>2

LEMMA EventsCompleted ==
    ASSUME NEW lines \in Seq(Lines)
    PROVE  EventsOf(lines) = Completed("none", lines, "data")
<1>1. ASSUME NEW i \in DOMAIN lines PROVE i \in 1 .. Len(lines) + 1
  OBVIOUS
<1> QED BY <1>1, OpenKind DEF EventsOf, Completed

(* What a read adds to the events. *)
LEMMA EventsGrow ==
    ASSUME NEW s \in Seq(Lines), NEW t \in Seq(Lines)
    PROVE  LET start == OpenAt("none", s, Len(s) + 1) IN
           Cardinality(EventsOf(s \o t)) =
             Cardinality(EventsOf(s)) + Cardinality(Completed(start, t, "data"))
<1> DEFINE n == Len(s)
           whole == s \o t
           start == OpenAt("none", s, n + 1)
<1>1. /\ n \in Nat /\ Len(t) \in Nat /\ whole \in Seq(Lines) /\ DOMAIN whole = 1 .. n + Len(t)
      /\ DOMAIN s = 1 .. n /\ DOMAIN t = 1 .. Len(t)
      /\ \A k \in 1 .. n : whole[k] = s[k]
      /\ \A k \in 1 .. Len(t) : whole[n + k] = t[k]
  OBVIOUS
<1>2. \A i \in 1 .. Len(t) : OpenAt("none", whole, n + i) = OpenAt(start, t, i)
  BY OpenConcat
<1> HIDE DEF n, whole, start
<1>3. Completed("none", whole, "data") = EventsOf(s) \cup Up(Completed(start, t, "data"), n)
  <2>1. ASSUME NEW i \in 1 .. n
        PROVE  i \in Completed("none", whole, "data") <=> i \in EventsOf(s)
    <3>1. i \in DOMAIN whole /\ whole[i] = s[i] /\ \A k \in 1 .. i - 1 : whole[k] = s[k]
      BY <1>1
    <3>2. i \in 1 .. Len(whole) + 1
      BY <1>1
    <3>3. OpenAt("none", whole, i) = "data" <=>
            \E j \in 1 .. i - 1 : s[j] = "data" /\ \A k \in j + 1 .. i - 1 : s[k] = "bytes"
      <4>1. OpenAt("none", whole, i) = "data" <=>
              \E j \in 1 .. i - 1 : whole[j] = "data" /\ \A k \in j + 1 .. i - 1 : whole[k] = "bytes"
        BY <1>1, <3>2, OpenKind
      <4>2. ASSUME NEW j \in 1 .. i - 1
            PROVE  (whole[j] = "data" /\ \A k \in j + 1 .. i - 1 : whole[k] = "bytes") <=>
                   (s[j] = "data" /\ \A k \in j + 1 .. i - 1 : s[k] = "bytes")
        <5>1. \A k \in j + 1 .. i - 1 : k \in 1 .. i - 1
          OBVIOUS
        <5> QED BY <3>1, <5>1
      <4> QED BY <4>1, <4>2
    <3> QED BY <1>1, <3>1, <3>3 DEF Completed, EventsOf
  <2>2. ASSUME NEW k \in 1 .. Len(t)
        PROVE  n + k \in Completed("none", whole, "data") <=> k \in Completed(start, t, "data")
    <3>1. n + k \in DOMAIN whole /\ whole[n + k] = t[k]
      BY <1>1
    <3> QED BY <1>1, <1>2, <3>1 DEF Completed
  <2>3. ASSUME NEW i \in Completed("none", whole, "data"), i \notin 1 .. n
        PROVE  i - n \in Completed(start, t, "data") /\ i = (i - n) + n
    <3>1. i - n \in 1 .. Len(t) /\ n + (i - n) = i /\ i = (i - n) + n
      BY <1>1, <2>3 DEF Completed
    <3> QED BY <2>2, <3>1
  <2>4. ASSUME NEW i \in Completed("none", whole, "data")
        PROVE  i \in EventsOf(s) \cup Up(Completed(start, t, "data"), n)
    <3>1. CASE i \in 1 .. n
      BY <2>1, <3>1
    <3>2. CASE i \notin 1 .. n
      BY <2>3, <3>2 DEF Up
    <3> QED BY <3>1, <3>2
  <2>5. ASSUME NEW i \in EventsOf(s) PROVE i \in Completed("none", whole, "data")
    BY <1>1, <2>1 DEF EventsOf
  <2>6. ASSUME NEW k \in Completed(start, t, "data")
        PROVE  k + n \in Completed("none", whole, "data")
    <3>1. k \in 1 .. Len(t) /\ k + n = n + k
      BY <1>1 DEF Completed
    <3> QED BY <2>2, <3>1
  <2> QED BY <2>4, <2>5, <2>6 DEF Up
<1>4. EventsOf(s) \in SUBSET (DOMAIN s) /\ Completed(start, t, "data") \in SUBSET (DOMAIN t)
  BY DEF EventsOf, Completed
<1>5. Cardinality(Completed("none", whole, "data")) =
        Cardinality(EventsOf(s)) + Cardinality(Completed(start, t, "data"))
  BY <1>3, <1>4, Placed DEF n
<1> QED BY <1>1, <1>5, EventsCompleted DEF n, whole, start

(* Nothing that a read completes is behind its [DONE]. *)
LEMMA NothingDropped ==
    ASSUME NEW s \in Seq(Lines), NEW t \in Seq(Lines), DoneIsLast(s \o t)
    PROVE  LET start == OpenAt("none", s, Len(s) + 1) IN
           \A i \in Completed(start, t, "data") : \A j \in Completed(start, t, "done") : i < j
<1> DEFINE n == Len(s)
           whole == s \o t
           start == OpenAt("none", s, n + 1)
<1>1. /\ n \in Nat /\ Len(t) \in Nat /\ whole \in Seq(Lines) /\ DOMAIN whole = 1 .. n + Len(t)
      /\ Len(whole) = n + Len(t) /\ DOMAIN t = 1 .. Len(t)
  OBVIOUS
<1>2. \A i \in 1 .. Len(t) : OpenAt("none", whole, n + i) = OpenAt(start, t, i)
  BY OpenConcat
<1>3. DoneIsLast(whole)
  OBVIOUS
<1> HIDE DEF n, whole, start
<1> SUFFICES ASSUME NEW i \in Completed(start, t, "data"), NEW j \in Completed(start, t, "done"),
                    ~(i < j)
             PROVE  FALSE
  BY DEF n, start
<1>4. /\ i \in 1 .. Len(t) /\ OpenAt("none", whole, n + i) = "data" /\ n + i \in 1 .. Len(whole) + 1
      /\ j \in 1 .. Len(t) /\ OpenAt("none", whole, n + j) = "done" /\ n + j \in 1 .. Len(whole) + 1
  BY <1>1, <1>2 DEF Completed
<1>5. PICK e \in 1 .. (n + i) - 1 :
        whole[e] = "data" /\ \A k \in e + 1 .. (n + i) - 1 : whole[k] = "bytes"
  BY <1>1, <1>4, OpenKind
<1>6. PICK d \in 1 .. (n + j) - 1 :
        whole[d] = "done" /\ \A k \in d + 1 .. (n + j) - 1 : whole[k] = "bytes"
  BY <1>1, <1>4, OpenKind
<1>7. e \in DOMAIN whole /\ d \in DOMAIN whole /\ d <= (n + i) - 1
  BY <1>1, <1>4
<1>8. CASE d < e
  BY <1>3, <1>5, <1>6, <1>7, <1>8 DEF DoneIsLast
<1>9. CASE ~(d < e)
  <2>1. d # e
    BY <1>5, <1>6
  <2>2. d \in e + 1 .. (n + i) - 1
    BY <1>1, <1>7, <1>9, <2>1
  <2> QED BY <1>5, <1>6, <2>2
<1> QED BY <1>8, <1>9

(* What the task does with a read.                                         *)
LEMMA Fed ==
    ASSUME NEW s \in Seq(Lines), NEW t \in Seq(Lines), DoneIsLast(s \o t)
    PROVE  LET fed == FeedFrom(OpenAt("none", s, Len(s) + 1), t) IN
           /\ fed.parser = OpenAt("none", s \o t, Len(s \o t) + 1)
           /\ fed.frames \in Seq({"frame"})
           /\ Cardinality(EventsOf(s \o t)) = Cardinality(EventsOf(s)) + Count("frame", fed.frames)
           /\ Count("finish", fed.frames) = 0 /\ Count("error", fed.frames) = 0
<1> DEFINE start == OpenAt("none", s, Len(s) + 1)
           kept == {i \in Completed(start, t, "data") :
                      \A j \in Completed(start, t, "done") : i < j}
           fed == FeedFrom(start, t)
           c == Cardinality(Completed(start, t, "data"))
<1>1. fed.parser = OpenAt(start, t, Len(t) + 1) /\ fed.frames = [n \in 1 .. Cardinality(kept) |-> "frame"]
  BY DEF FeedFrom, Completed
<1>2. kept = Completed(start, t, "data")
  BY NothingDropped
<1>3. c \in Nat
  <2>1. Completed(start, t, "data") \in SUBSET (DOMAIN t)
    BY DEF Completed
  <2> QED BY <2>1, AtFinite
<1>4. Cardinality(EventsOf(s \o t)) = Cardinality(EventsOf(s)) + c
  BY EventsGrow
<1>5. OpenAt(start, t, Len(t) + 1) = OpenAt("none", s \o t, Len(s \o t) + 1)
  <2>1. Len(t) + 1 \in 1 .. Len(t) + 1 /\ Len(s) + (Len(t) + 1) = Len(s \o t) + 1
    OBVIOUS
  <2> QED BY <2>1, OpenConcat
<1> HIDE DEF start, kept, fed, c
<1>6. fed.frames = [n \in 1 .. c |-> "frame"]
  BY <1>1, <1>2 DEF c
<1>7. fed.frames \in Seq({"frame"}) /\ Len(fed.frames) = c
  BY <1>3, <1>6
<1>8. Count("frame", fed.frames) = c
  <2>1. At("frame", fed.frames) = 1 .. c
    BY <1>3, <1>6 DEF At
  <2>2. Cardinality(1 .. c) = c
    BY <1>3, FS_Interval
  <2> QED BY <2>1, <2>2 DEF Count, At
<1>9. \A x : x # "frame" => Count(x, fed.frames) = 0
  BY <1>6, <1>7, <1>3, CountType
<1> QED BY <1>1, <1>4, <1>5, <1>7, <1>8, <1>9 DEF start, fed

-----------------------------------------------------------------------------
(* The inductive invariant.                                                *)

Frames == {"frame", "keepalive", "estimate", "finish", "error"}

PumpType ==
    /\ task \in {"idle", "selecting", "sending", "folding", "logged", "folded"}
    /\ then \in {"beat", "progress", "stop", "log"}
    /\ client \in {"reading", "gone"}
    /\ read \in Seq(Lines) /\ unread \in Seq(Lines) /\ sent = read \o unread
    /\ pending \in Seq(Frames) /\ channel \in Seq(Frames) /\ received \in Seq(Frames)

(* The parser is where one that never saw a cut would be. *)
Parsed == parser = OpenAt("none", read, Len(read) + 1) /\ DoneIsLast(sent)

Total(x) == Count(x, received) + Count(x, channel) + Count(x, pending)

Delivered == client = "reading" => Total("frame") = Cardinality(EventsOf(read))

Running == task \in {"idle", "selecting"} \/ (task = "sending" /\ then \in {"beat", "progress"})

(* The end is behind everything else that is on its way. *)
FinishLast ==
    /\ pending # <<>> => pending[Len(pending)] = "finish"
    /\ pending = <<>> /\ channel # <<>> => channel[Len(channel)] = "finish"
    /\ pending = <<>> /\ channel = <<>> => received # <<>> /\ received[Len(received)] = "finish"

Unended == Running =>
    status = 200 /\ (client = "reading" => Total("finish") = 0 /\ Total("error") = 0)

Broken == task = "sending" /\ then = "stop" =>
    status = 502 /\ (client = "reading" => Total("finish") = 0 /\ Total("error") = 1)

Ended == task \in {"sending", "logged"} /\ then = "log" /\ client = "reading" =>
    Total("finish") = 1 /\ FinishLast /\ ((status = 502) <=> (Total("error") > 0))

Drained ==
    /\ task \in {"idle", "selecting", "logged"} => pending = <<>>
    /\ task = "logged" => then = "log"
    /\ status = 499 => client = "gone"

PumpInv == PumpType /\ Parsed /\ Delivered /\ Unended /\ Broken /\ Ended /\ Drained

LEMMA TotalType ==
    ASSUME PumpType, NEW x
    PROVE  /\ Count(x, received) \in Nat /\ Count(x, channel) \in Nat /\ Count(x, pending) \in Nat
           /\ Total(x) \in Nat
<1>1. pending \in Seq(Frames) /\ channel \in Seq(Frames) /\ received \in Seq(Frames)
  BY DEF PumpType
<1>2. Count(x, received) \in Nat /\ Count(x, channel) \in Nat /\ Count(x, pending) \in Nat
  BY <1>1, CountType
<1> QED BY <1>2 DEF Total

LEMMA LastOfTail ==
    ASSUME NEW S, NEW s \in Seq(S), s # <<>>
    PROVE  /\ Tail(s) \in Seq(S) /\ Head(s) \in S
           /\ Tail(s) # <<>> => Tail(s)[Len(Tail(s))] = s[Len(s)]
           /\ Tail(s) = <<>> => Head(s) = s[Len(s)]
<1>1. Len(s) \in Nat \ {0} /\ Len(Tail(s)) = Len(s) - 1 /\ Head(s) = s[1] /\ Tail(s) \in Seq(S)
      /\ \A i \in 1 .. Len(s) - 1 : Tail(s)[i] = s[i + 1]
  OBVIOUS
<1>2. ASSUME Tail(s) # <<>> PROVE Tail(s)[Len(Tail(s))] = s[Len(s)]
  <2>1. Len(s) - 1 \in 1 .. Len(s) - 1
    BY <1>1, <1>2
  <2> QED BY <1>1, <2>1
<1>3. ASSUME Tail(s) = <<>> PROVE Head(s) = s[Len(s)]
  <2>1. Len(Tail(s)) = 0 /\ Len(s) = 1
    BY <1>1, <1>3, EmptySeq
  <2> QED BY <1>1, <2>1
<1> QED BY <1>1, <1>2, <1>3

(* What the task sends to end a stream. *)
LEMMA Close ==
    ASSUME NEW estimate \in BOOLEAN
    PROVE  LET frames == IF estimate THEN Closing ELSE Tail(Closing) IN
           /\ frames \in Seq(Frames) /\ frames # <<>> /\ frames[Len(frames)] = "finish"
           /\ Count("frame", frames) = 0 /\ Count("finish", frames) = 1 /\ Count("error", frames) = 0
<1>1. Tail(Closing) = <<"finish">>
  BY DEF Closing
<1>2. Closing = <<"estimate">> \o <<"finish">> /\ Closing[Len(Closing)] = "finish" /\ Closing # <<>>
  BY DEF Closing
<1>3. <<"estimate">> \in Seq(Frames) /\ <<"finish">> \in Seq(Frames) /\ Closing \in Seq(Frames)
  BY DEF Frames, Closing
<1>4. \A x : Count(x, Closing) = Count(x, <<"estimate">>) + Count(x, <<"finish">>)
  BY <1>2, <1>3, CountConcat
<1>5. \A x, y : Count(x, <<y>>) = IF x = y THEN 1 ELSE 0
  BY CountOne
<1>6. /\ Count("frame", Closing) = 0 /\ Count("finish", Closing) = 1 /\ Count("error", Closing) = 0
  BY <1>4, <1>5
<1>7. /\ Count("frame", <<"finish">>) = 0 /\ Count("finish", <<"finish">>) = 1
      /\ Count("error", <<"finish">>) = 0
  BY <1>5
<1>8. /\ <<"finish">> # <<>> /\ <<"finish">>[Len(<<"finish">>)] = "finish"
  OBVIOUS
<1> QED BY <1>1, <1>2, <1>3, <1>6, <1>7, <1>8

(* An upstream's next line keeps [DONE] the last event. *)
LEMMA DoneStaysLast ==
    ASSUME sent \in Seq(Lines), DoneIsLast(sent), NEW line \in Lines, MaySend(line)
    PROVE  DoneIsLast(Append(sent, line))
<1> DEFINE more == Append(sent, line)
<1>1. /\ Len(sent) \in Nat /\ DOMAIN more = 1 .. Len(sent) + 1 /\ DOMAIN sent = 1 .. Len(sent)
      /\ more[Len(sent) + 1] = line /\ \A i \in 1 .. Len(sent) : more[i] = sent[i]
  OBVIOUS
<1>2. line = "data" => \A i \in DOMAIN sent : sent[i] # "done"
  BY DEF MaySend, Lines
<1> HIDE DEF more
<1> SUFFICES ASSUME NEW j \in DOMAIN more, NEW k \in DOMAIN more, j < k, more[j] = "done",
                    more[k] = "data"
             PROVE  FALSE
  BY DEF DoneIsLast, more
<1>3. CASE k = Len(sent) + 1
  <2>1. j \in 1 .. Len(sent) /\ line = "data" /\ sent[j] = "done"
    BY <1>1, <1>3
  <2> QED BY <1>1, <1>2, <2>1
<1>4. CASE k # Len(sent) + 1
  <2>1. k \in 1 .. Len(sent) /\ j \in 1 .. Len(sent) /\ sent[j] = "done" /\ sent[k] = "data"
    BY <1>1, <1>4
  <2> QED BY <1>1, <2>1 DEF DoneIsLast
<1> QED BY <1>3, <1>4

LEMMA Associates ==
    ASSUME NEW S, NEW s \in Seq(S), NEW t \in Seq(S), NEW u \in Seq(S)
    PROVE  (s \o t) \o u = s \o (t \o u)
<1> DEFINE left == (s \o t) \o u
           right == s \o (t \o u)
<1>1. left \in Seq(S) /\ right \in Seq(S) /\ Len(left) = Len(right)
  OBVIOUS
<1>2. \A i \in 1 .. Len(left) : left[i] = right[i]
  OBVIOUS
<1> HIDE DEF left, right
<1>3. left = right
  BY <1>1, <1>2, SeqEqual
<1> QED BY <1>3 DEF left, right

(* A read of n lines, and what it leaves. *)
LEMMA Taken ==
    ASSUME PumpType, Parsed, NEW n \in 1 .. Len(unread)
    PROVE  LET part == SubSeq(unread, 1, n)
               rest == SubSeq(unread, n + 1, Len(unread))
           IN  /\ part \in Seq(Lines) /\ rest \in Seq(Lines) /\ read \o part \in Seq(Lines)
               /\ sent = (read \o part) \o rest
               /\ DoneIsLast(read \o part)
<1> DEFINE part == SubSeq(unread, 1, n)
           rest == SubSeq(unread, n + 1, Len(unread))
<1>1. read \in Seq(Lines) /\ unread \in Seq(Lines) /\ sent = read \o unread /\ DoneIsLast(sent)
  BY DEF PumpType, Parsed
<1>2. /\ Len(unread) \in Nat /\ part \in Seq(Lines) /\ rest \in Seq(Lines)
      /\ Len(part) = n /\ Len(rest) = Len(unread) - n
      /\ \A i \in 1 .. n : part[i] = unread[i]
      /\ \A i \in 1 .. Len(unread) - n : rest[i] = unread[n + i]
  BY <1>1
<1>3. unread = part \o rest
  <2>1. part \o rest \in Seq(Lines) /\ Len(part \o rest) = Len(unread)
    BY <1>2
  <2>2. \A i \in 1 .. Len(unread) : (part \o rest)[i] = unread[i]
    BY <1>2
  <2> HIDE DEF part, rest
  <2> QED BY <1>1, <2>1, <2>2, SeqEqual
<1>4. sent = (read \o part) \o rest
  <2> HIDE DEF part, rest
  <2>1. read \in Seq(Lines) /\ part \in Seq(Lines) /\ rest \in Seq(Lines)
    BY <1>1, <1>2
  <2>2. (read \o part) \o rest = read \o (part \o rest)
    BY <2>1, Associates
  <2> QED BY <1>1, <1>3, <2>2
<1>5. DoneIsLast(read \o part)
  <2> DEFINE some == read \o part
  <2>1. /\ some \in Seq(Lines) /\ Len(some) \in Nat /\ DOMAIN some = 1 .. Len(some)
        /\ DOMAIN sent = 1 .. Len(some) + Len(rest) /\ Len(rest) \in Nat
        /\ \A i \in 1 .. Len(some) : sent[i] = some[i]
    BY <1>1, <1>2, <1>4
  <2> HIDE DEF some, rest
  <2>2. \A i \in DOMAIN some : i \in DOMAIN sent /\ sent[i] = some[i]
    BY <2>1
  <2>3. DoneIsLast(some)
    BY <1>1, <2>2 DEF DoneIsLast
  <2> QED BY <2>3 DEF some
<1>6. read \o part \in Seq(Lines)
  BY <1>1, <1>2
<1> QED BY <1>2, <1>4, <1>5, <1>6

-----------------------------------------------------------------------------
(* The steps that move nothing through the queues.                         *)

LEMMA QueuesKept ==
    ASSUME UNCHANGED <<received, channel, pending>>
    PROVE  (\A x : Total(x)' = Total(x)) /\ (FinishLast' <=> FinishLast)
<1>1. \A x : Total(x)' = Total(x)
  BY DEF Total
<1>2. FinishLast' <=> FinishLast
  BY DEF FinishLast
<1> QED BY <1>1, <1>2

LEMMA LinesKept ==
    ASSUME PumpType, Parsed, UNCHANGED <<sent, unread, parser, read>>
    PROVE  Parsed' /\ read' \in Seq(Lines) /\ unread' \in Seq(Lines) /\ sent' = read' \o unread'
           /\ EventsOf(read') = EventsOf(read)
<1>1. Parsed'
  BY DEF Parsed
<1>2. read' \in Seq(Lines) /\ unread' \in Seq(Lines) /\ sent' = read' \o unread'
  BY DEF PumpType
<1> QED BY <1>1, <1>2

(* Turns of the loop and of the clock. *)
LEMMA TurnKeeps ==
    ASSUME PumpInv, Start \/ PumpTick \/ UpstreamStops \/ Resume \/ Log
    PROVE  PumpInv'
<1>1. /\ UNCHANGED <<sent, unread, parser, read>> /\ UNCHANGED <<received, channel, pending>>
      /\ UNCHANGED <<then, client, status>>
  BY DEF Start, PumpTick, UpstreamStops, Resume, Log
<1>2. PumpType /\ Parsed /\ Delivered /\ Unended /\ Broken /\ Ended /\ Drained
  BY DEF PumpInv
<1>3. (\A x : Total(x)' = Total(x)) /\ (FinishLast' <=> FinishLast)
  BY <1>1, QueuesKept
<1>4. Parsed' /\ read' \in Seq(Lines) /\ unread' \in Seq(Lines) /\ sent' = read' \o unread'
      /\ EventsOf(read') = EventsOf(read)
  BY <1>1, <1>2, LinesKept
<1>5. \/ task' = task
      \/ task = "idle" /\ task' \in {"selecting", "folding"}
      \/ task = "sending" /\ pending = <<>> /\ then \in {"beat", "progress"} /\ task' = "selecting"
      \/ task = "sending" /\ pending = <<>> /\ then = "log" /\ task' = "logged"
  BY DEF Start, PumpTick, UpstreamStops, Resume, Log
<1>6. PumpType'
  BY <1>1, <1>2, <1>4, <1>5 DEF PumpType
<1>7. Delivered'
  BY <1>1, <1>2, <1>3, <1>4 DEF Delivered
<1>8. Unended'
  BY <1>1, <1>2, <1>3, <1>5 DEF Unended, Running
<1>9. Broken'
  BY <1>1, <1>2, <1>3, <1>5 DEF Broken
<1>10. Ended'
  BY <1>1, <1>2, <1>3, <1>5 DEF Ended
<1>11. Drained'
  BY <1>1, <1>2, <1>5 DEF Drained
<1> QED BY <1>4, <1>6, <1>7, <1>8, <1>9, <1>10, <1>11 DEF PumpInv

LEMMA SendingKeeps ==
    ASSUME PumpInv, UpstreamSends
    PROVE  PumpInv'
<1>1. /\ UNCHANGED <<parser, read>> /\ UNCHANGED <<received, channel, pending>>
      /\ UNCHANGED <<task, then, client, status>>
  BY DEF UpstreamSends
<1>2. PumpType /\ Parsed /\ Delivered /\ Unended /\ Broken /\ Ended /\ Drained
  BY DEF PumpInv
<1>3. (\A x : Total(x)' = Total(x)) /\ (FinishLast' <=> FinishLast)
  BY <1>1, QueuesKept
<1>4. PICK line \in Lines :
        MaySend(line) /\ sent' = Append(sent, line) /\ unread' = Append(unread, line)
  BY DEF UpstreamSends
<1>5. read \in Seq(Lines) /\ unread \in Seq(Lines) /\ sent = read \o unread /\ sent \in Seq(Lines)
  BY <1>2 DEF PumpType
<1>6. unread' \in Seq(Lines) /\ sent' = read' \o unread'
  <2>1. <<line>> \in Seq(Lines) /\ Append(unread, line) = unread \o <<line>>
        /\ Append(read \o unread, line) = (read \o unread) \o <<line>>
    <3>1. line \in Lines /\ unread \in Seq(Lines) /\ read \o unread \in Seq(Lines)
      BY <1>4, <1>5
    <3>2. Append(unread, line) = unread \o <<line>>
      BY <3>1, AppendIsConcat
    <3>3. Append(read \o unread, line) = (read \o unread) \o <<line>>
      BY <3>1, AppendIsConcat
    <3> QED BY <3>1, <3>2, <3>3
  <2>2. (read \o unread) \o <<line>> = read \o (unread \o <<line>>)
    BY <1>5, <2>1, Associates
  <2>3. Append(unread, line) \in Seq(Lines)
    BY <1>5
  <2> QED BY <1>1, <1>4, <1>5, <2>1, <2>2, <2>3
<1>7. Parsed'
  <2>1. DoneIsLast(Append(sent, line))
    BY <1>2, <1>4, <1>5, DoneStaysLast DEF Parsed
  <2> QED BY <1>1, <1>2, <1>4, <2>1 DEF Parsed
<1>8. PumpType'
  BY <1>1, <1>2, <1>6 DEF PumpType
<1>9. Delivered' /\ Unended' /\ Broken' /\ Ended' /\ Drained'
  <2>1. Delivered'
    BY <1>1, <1>2, <1>3 DEF Delivered
  <2>2. Unended' /\ Broken' /\ Ended'
    BY <1>1, <1>2, <1>3 DEF Unended, Running, Broken, Ended
  <2>3. Drained'
    BY <1>1, <1>2 DEF Drained
  <2> QED BY <2>1, <2>2, <2>3
<1> QED BY <1>7, <1>8, <1>9 DEF PumpInv

-----------------------------------------------------------------------------
(* The client and the task's sends.                                        *)

LEMMA ReadingKeeps ==
    ASSUME PumpInv, ClientReads
    PROVE  PumpInv'
<1>1. /\ UNCHANGED <<sent, unread, parser, read>> /\ UNCHANGED <<task, then, client, status, pending>>
      /\ channel # <<>> /\ channel' = Tail(channel)
      /\ received' = IF Head(channel) = "keepalive" THEN received
                     ELSE Append(received, Head(channel))
  BY DEF ClientReads
<1>2. PumpType /\ Parsed /\ Delivered /\ Unended /\ Broken /\ Ended /\ Drained
  BY DEF PumpInv
<1>3. received \in Seq(Frames) /\ channel \in Seq(Frames) /\ pending \in Seq(Frames)
  BY <1>2 DEF PumpType
<1>4. /\ Tail(channel) \in Seq(Frames) /\ Head(channel) \in Frames
      /\ Tail(channel) # <<>> => Tail(channel)[Len(Tail(channel))] = channel[Len(channel)]
      /\ Tail(channel) = <<>> => Head(channel) = channel[Len(channel)]
  BY <1>1, <1>3, LastOfTail
<1>5. received' \in Seq(Frames) /\ channel' \in Seq(Frames)
  BY <1>1, <1>3, <1>4
<1>6. ASSUME NEW x \in {"frame", "finish", "error"} PROVE Total(x)' = Total(x)
  <2>1. Count(x, channel) = Count(x, channel') + (IF x = Head(channel) THEN 1 ELSE 0)
    BY <1>1, <1>3, CountTail
  <2>2. Count(x, Append(received, Head(channel))) =
          Count(x, received) + (IF x = Head(channel) THEN 1 ELSE 0)
    BY <1>3, <1>4, CountAppend
  <2>3. Count(x, received) \in Nat /\ Count(x, channel') \in Nat /\ Count(x, pending) \in Nat
    BY <1>3, <1>5, CountType
  <2>4. Count(x, received') + Count(x, channel') = Count(x, received) + Count(x, channel)
    <3>1. CASE Head(channel) = "keepalive"
      BY <1>1, <2>1, <2>3, <3>1
    <3>2. CASE Head(channel) # "keepalive"
      BY <1>1, <2>1, <2>2, <2>3, <3>2
    <3> QED BY <3>1, <3>2
  <2> QED BY <1>1, <2>4 DEF Total
<1>7. FinishLast => FinishLast'
  <2> SUFFICES ASSUME FinishLast PROVE FinishLast'
    OBVIOUS
  <2>1. CASE pending # <<>>
    BY <1>1, <2>1 DEF FinishLast
  <2>2. CASE pending = <<>>
    <3>1. channel[Len(channel)] = "finish"
      BY <1>1, <2>2 DEF FinishLast
    <3>2. CASE Tail(channel) # <<>>
      BY <1>1, <1>4, <2>2, <3>1, <3>2 DEF FinishLast
    <3>3. CASE Tail(channel) = <<>>
      <4>1. received' = Append(received, "finish")
        BY <1>1, <1>4, <3>1, <3>3
      <4>2. received' # <<>> /\ received'[Len(received')] = "finish"
        BY <1>3, <4>1
      <4> QED BY <1>1, <2>2, <3>3, <4>2 DEF FinishLast
    <3> QED BY <3>2, <3>3
  <2> QED BY <2>1, <2>2
<1>8. Parsed' /\ read' \in Seq(Lines) /\ unread' \in Seq(Lines) /\ sent' = read' \o unread'
      /\ EventsOf(read') = EventsOf(read)
  BY <1>1, <1>2, LinesKept
<1>9. PumpType'
  BY <1>1, <1>2, <1>5, <1>8 DEF PumpType
<1>10. Total("frame")' = Total("frame") /\ Total("finish")' = Total("finish")
       /\ Total("error")' = Total("error")
  BY <1>6
<1>11. Delivered' /\ Unended' /\ Broken' /\ Ended' /\ Drained'
  <2>1. Delivered'
    BY <1>1, <1>2, <1>8, <1>10 DEF Delivered
  <2>2. Unended' /\ Broken'
    BY <1>1, <1>2, <1>10 DEF Unended, Running, Broken
  <2>3. Ended'
    BY <1>1, <1>2, <1>7, <1>10 DEF Ended
  <2>4. Drained'
    BY <1>1, <1>2 DEF Drained
  <2> QED BY <2>1, <2>2, <2>3, <2>4
<1> QED BY <1>8, <1>9, <1>11 DEF PumpInv

LEMMA LeavingKeeps ==
    ASSUME PumpInv, ClientLeaves
    PROVE  PumpInv'
<1>1. /\ UNCHANGED <<sent, unread, parser, read>>
      /\ UNCHANGED <<task, then, status, pending, received>>
      /\ client' = "gone" /\ channel' = <<>>
  BY DEF ClientLeaves
<1>2. PumpType /\ Parsed /\ Unended /\ Broken /\ Drained
  BY DEF PumpInv
<1>3. Parsed' /\ read' \in Seq(Lines) /\ unread' \in Seq(Lines) /\ sent' = read' \o unread'
  BY <1>1, <1>2, LinesKept
<1>4. PumpType'
  <2>1. <<>> \in Seq(Frames)
    OBVIOUS
  <2> QED BY <1>1, <1>2, <1>3, <2>1 DEF PumpType
<1>5. Delivered' /\ Unended' /\ Broken' /\ Ended' /\ Drained'
  BY <1>1, <1>2 DEF Delivered, Unended, Running, Broken, Ended, Drained
<1> QED BY <1>3, <1>4, <1>5 DEF PumpInv

LEMMA PushKeeps ==
    ASSUME PumpInv, Push
    PROVE  PumpInv'
<1>1. /\ UNCHANGED <<sent, unread, parser, read>> /\ UNCHANGED <<task, then, client, status, received>>
      /\ task = "sending" /\ pending # <<>> /\ channel' = Append(channel, Head(pending))
      /\ pending' = Tail(pending)
  BY DEF Push
<1>2. PumpType /\ Parsed /\ Delivered /\ Unended /\ Broken /\ Ended /\ Drained
  BY DEF PumpInv
<1>3. received \in Seq(Frames) /\ channel \in Seq(Frames) /\ pending \in Seq(Frames)
  BY <1>2 DEF PumpType
<1>4. /\ Tail(pending) \in Seq(Frames) /\ Head(pending) \in Frames
      /\ Tail(pending) # <<>> => Tail(pending)[Len(Tail(pending))] = pending[Len(pending)]
      /\ Tail(pending) = <<>> => Head(pending) = pending[Len(pending)]
  BY <1>1, <1>3, LastOfTail
<1>5. channel' \in Seq(Frames) /\ pending' \in Seq(Frames)
      /\ channel' # <<>> /\ channel'[Len(channel')] = Head(pending)
  BY <1>1, <1>3, <1>4
<1>6. ASSUME NEW x PROVE Total(x)' = Total(x)
  <2>1. Count(x, pending) = Count(x, pending') + (IF x = Head(pending) THEN 1 ELSE 0)
    BY <1>1, <1>3, CountTail
  <2>2. Count(x, channel') = Count(x, channel) + (IF x = Head(pending) THEN 1 ELSE 0)
    BY <1>1, <1>3, <1>4, CountAppend
  <2>3. Count(x, received) \in Nat /\ Count(x, channel) \in Nat /\ Count(x, pending') \in Nat
    BY <1>3, <1>5, CountType
  <2> QED BY <1>1, <2>1, <2>2, <2>3 DEF Total
<1>7. FinishLast => FinishLast'
  BY <1>1, <1>4, <1>5 DEF FinishLast
<1>8. Parsed' /\ read' \in Seq(Lines) /\ unread' \in Seq(Lines) /\ sent' = read' \o unread'
      /\ EventsOf(read') = EventsOf(read)
  BY <1>1, <1>2, LinesKept
<1>9. PumpType'
  BY <1>1, <1>2, <1>3, <1>5, <1>8 DEF PumpType
<1>10. Delivered' /\ Unended' /\ Broken' /\ Ended' /\ Drained'
  <2>1. Delivered'
    BY <1>1, <1>2, <1>6, <1>8 DEF Delivered
  <2>2. Unended' /\ Broken'
    BY <1>1, <1>2, <1>6 DEF Unended, Running, Broken
  <2>3. Ended'
    BY <1>1, <1>2, <1>6, <1>7 DEF Ended
  <2>4. Drained'
    BY <1>1, <1>2 DEF Drained
  <2> QED BY <2>1, <2>2, <2>3, <2>4
<1> QED BY <1>8, <1>9, <1>10 DEF PumpInv

-----------------------------------------------------------------------------
(* What the task puts up for sending.                                      *)

LEMMA PutUp ==
    ASSUME PumpType, pending = <<>>, pending' \in Seq(Frames), UNCHANGED <<received, channel>>, NEW x
    PROVE  Total(x)' = Total(x) + Count(x, pending')
<1>1. Count(x, pending) = 0
  BY CountNone
<1>2. Count(x, received) \in Nat /\ Count(x, channel) \in Nat /\ Count(x, pending') \in Nat
  BY TotalType, CountType
<1> QED BY <1>1, <1>2 DEF Total

LEMMA HeartbeatKeeps ==
    ASSUME PumpInv, Heartbeat
    PROVE  PumpInv'
<1>1. /\ UNCHANGED <<sent, unread, parser, read>> /\ UNCHANGED <<client, status>>
      /\ UNCHANGED <<received, channel>>
      /\ task = "selecting" /\ task' = "sending" /\ pending' = <<"keepalive">> /\ then' = "beat"
  BY DEF Heartbeat, Sends
<1>2. PumpType /\ Parsed /\ Delivered /\ Unended /\ Drained
  BY DEF PumpInv
<1>3. pending = <<>> /\ pending' \in Seq(Frames)
  BY <1>1, <1>2 DEF Drained, Frames
<1>4. ASSUME NEW x \in {"frame", "finish", "error"} PROVE Total(x)' = Total(x)
  <2>1. Count(x, pending') = 0
    BY <1>1, CountOne
  <2> QED BY <1>1, <1>2, <1>3, <2>1, PutUp, TotalType
<1>5. Total("frame")' = Total("frame") /\ Total("finish")' = Total("finish")
      /\ Total("error")' = Total("error")
  BY <1>4
<1>6. Parsed' /\ read' \in Seq(Lines) /\ unread' \in Seq(Lines) /\ sent' = read' \o unread'
      /\ EventsOf(read') = EventsOf(read)
  BY <1>1, <1>2, LinesKept
<1>7. PumpType'
  BY <1>1, <1>2, <1>3, <1>6 DEF PumpType
<1>8. Delivered' /\ Unended' /\ Broken' /\ Ended' /\ Drained'
  <2>1. Delivered'
    BY <1>1, <1>2, <1>5, <1>6 DEF Delivered
  <2>2. Unended' /\ Broken' /\ Ended'
    BY <1>1, <1>2, <1>5 DEF Unended, Running, Broken, Ended
  <2>3. Drained'
    BY <1>1, <1>2 DEF Drained
  <2> QED BY <2>1, <2>2, <2>3
<1> QED BY <1>6, <1>7, <1>8 DEF PumpInv

(* The stream ends: by itself, by its gap, or behind the error. *)
LEMMA ClosingKeeps ==
    ASSUME PumpInv, EndsQuietly \/ CloseBroken
    PROVE  PumpInv'
<1>1. /\ UNCHANGED <<sent, unread, parser, read>> /\ UNCHANGED <<client, status>>
      /\ UNCHANGED <<received, channel>>
      /\ \/ task = "selecting"
         \/ task = "sending" /\ pending = <<>> /\ then = "stop"
  BY DEF EndsQuietly, CloseBroken
<1>2. PICK estimate \in BOOLEAN : Sends(IF estimate THEN Closing ELSE Tail(Closing), "log")
  BY DEF EndsQuietly, CloseBroken
<1>3. task' = "sending" /\ then' = "log" /\ pending' = IF estimate THEN Closing ELSE Tail(Closing)
  BY <1>2 DEF Sends
<1>4. PumpType /\ Parsed /\ Delivered /\ Unended /\ Broken /\ Drained
  BY DEF PumpInv
<1>5. pending = <<>>
  BY <1>1, <1>4 DEF Drained
<1>6. /\ pending' \in Seq(Frames) /\ pending' # <<>> /\ pending'[Len(pending')] = "finish"
      /\ Count("frame", pending') = 0 /\ Count("finish", pending') = 1 /\ Count("error", pending') = 0
  BY <1>3, Close
<1>7. \A x : Total(x)' = Total(x) + Count(x, pending')
  BY <1>1, <1>4, <1>5, <1>6, PutUp
<1>8. Total("frame") \in Nat /\ Total("finish") \in Nat /\ Total("error") \in Nat
  BY <1>4, TotalType
<1>9. /\ Total("frame")' = Total("frame") /\ Total("error")' = Total("error")
      /\ Total("finish")' = Total("finish") + 1
  <2>1. Total("frame")' = Total("frame") + 0 /\ Total("error")' = Total("error") + 0
        /\ Total("finish")' = Total("finish") + 1
    BY <1>6, <1>7
  <2> QED BY <1>8, <2>1
<1>10. Parsed' /\ read' \in Seq(Lines) /\ unread' \in Seq(Lines) /\ sent' = read' \o unread'
      /\ EventsOf(read') = EventsOf(read)
  BY <1>1, <1>4, LinesKept
<1>11. PumpType'
  BY <1>1, <1>3, <1>4, <1>6, <1>10 DEF PumpType
<1>12. Delivered' /\ Unended' /\ Broken' /\ Ended' /\ Drained'
  <2>1. Delivered'
    BY <1>1, <1>4, <1>9, <1>10 DEF Delivered
  <2>2. Unended' /\ Broken'
    BY <1>3 DEF Unended, Running, Broken
  <2>3. FinishLast'
    BY <1>6 DEF FinishLast
  <2>4. client = "reading" =>
          Total("finish") = 0 /\ ((status = 502) <=> (Total("error") > 0))
    BY <1>1, <1>4 DEF Unended, Running, Broken
  <2>5. Ended'
    BY <1>1, <1>9, <2>3, <2>4 DEF Ended
  <2>6. Drained'
    BY <1>1, <1>3, <1>4 DEF Drained
  <2> QED BY <2>1, <2>2, <2>5, <2>6
<1> QED BY <1>10, <1>11, <1>12 DEF PumpInv

LEMMA BreakingKeeps ==
    ASSUME PumpInv, EndsBroken
    PROVE  PumpInv'
<1>1. /\ UNCHANGED <<sent, unread, parser, read>> /\ UNCHANGED client
      /\ UNCHANGED <<received, channel>>
      /\ task = "selecting" /\ task' = "sending" /\ pending' = <<"error">> /\ then' = "stop"
      /\ status' = 502
  BY DEF EndsBroken, Sends
<1>2. PumpType /\ Parsed /\ Delivered /\ Unended /\ Drained
  BY DEF PumpInv
<1>3. pending = <<>> /\ pending' \in Seq(Frames)
  BY <1>1, <1>2 DEF Drained, Frames
<1>4. \A x : Total(x)' = Total(x) + Count(x, pending')
  BY <1>1, <1>2, <1>3, PutUp
<1>5. /\ Count("frame", pending') = 0 /\ Count("finish", pending') = 0
      /\ Count("error", pending') = 1
  BY <1>1, CountOne
<1>6. Total("frame") \in Nat /\ Total("finish") \in Nat /\ Total("error") \in Nat
  BY <1>2, TotalType
<1>7. /\ Total("frame")' = Total("frame") /\ Total("finish")' = Total("finish")
      /\ Total("error")' = Total("error") + 1
  <2>1. Total("frame")' = Total("frame") + 0 /\ Total("finish")' = Total("finish") + 0
        /\ Total("error")' = Total("error") + 1
    BY <1>4, <1>5
  <2> QED BY <1>6, <2>1
<1>8. Parsed' /\ read' \in Seq(Lines) /\ unread' \in Seq(Lines) /\ sent' = read' \o unread'
      /\ EventsOf(read') = EventsOf(read)
  BY <1>1, <1>2, LinesKept
<1>9. PumpType'
  BY <1>1, <1>2, <1>3, <1>8 DEF PumpType
<1>10. Delivered' /\ Unended' /\ Broken' /\ Ended' /\ Drained'
  <2>1. Delivered'
    BY <1>1, <1>2, <1>7, <1>8 DEF Delivered
  <2>2. Unended' /\ Ended'
    BY <1>1 DEF Unended, Running, Ended
  <2>3. Broken'
    BY <1>1, <1>2, <1>7 DEF Broken, Unended, Running
  <2>4. Drained'
    BY <1>1, <1>2 DEF Drained
  <2> QED BY <2>1, <2>2, <2>3, <2>4
<1> QED BY <1>8, <1>9, <1>10 DEF PumpInv

LEMMA FailingKeeps ==
    ASSUME PumpInv, PushFails
    PROVE  PumpInv'
<1>1. /\ UNCHANGED <<sent, unread, parser, read>> /\ UNCHANGED client
      /\ UNCHANGED <<received, channel>>
      /\ task = "sending" /\ pending # <<>> /\ client = "gone"
  BY DEF PushFails
<1>2. PumpType /\ Parsed /\ Unended /\ Broken /\ Drained
  BY DEF PumpInv
<1>3. \/ then \in {"beat", "progress"} /\ status' = 499 /\ task' = "sending" /\ then' = "log"
         /\ pending' \in Seq(Frames)
      \/ UNCHANGED <<task, then, status>> /\ then \notin {"beat", "progress"}
         /\ pending' \in Seq(Frames)
  <2>1. CASE then \in {"beat", "progress"}
    <3>1. PICK estimate \in BOOLEAN : Sends(IF estimate THEN Closing ELSE Tail(Closing), "log")
      BY <2>1 DEF PushFails
    <3>2. pending' \in Seq(Frames)
      BY <3>1, Close DEF Sends
    <3> QED BY <2>1, <3>1, <3>2 DEF PushFails, Sends
  <2>2. CASE then \notin {"beat", "progress"}
    <3>1. pending' = Tail(pending) /\ UNCHANGED <<task, then, status>>
      BY <2>2 DEF PushFails
    <3>2. pending \in Seq(Frames)
      BY <1>2 DEF PumpType
    <3> QED BY <1>1, <2>2, <3>1, <3>2, LastOfTail
  <2> QED BY <2>1, <2>2
<1>4. Parsed' /\ read' \in Seq(Lines) /\ unread' \in Seq(Lines) /\ sent' = read' \o unread'
  BY <1>1, <1>2, LinesKept
<1>5. PumpType'
  BY <1>1, <1>2, <1>3, <1>4 DEF PumpType
<1>6. Delivered' /\ Unended' /\ Broken' /\ Ended' /\ Drained'
  BY <1>1, <1>2, <1>3 DEF Delivered, Unended, Running, Broken, Ended, Drained
<1> QED BY <1>4, <1>5, <1>6 DEF PumpInv

-----------------------------------------------------------------------------
(* Reads.                                                                  *)

(* What reading n lines adds, to the task's sends or to the folded answer. *)
LEMMA ReadOf ==
    ASSUME PumpType, Parsed, NEW n \in 1 .. Len(unread),
           parser' = Feed(SubSeq(unread, 1, n)).parser,
           read' = read \o SubSeq(unread, 1, n),
           unread' = SubSeq(unread, n + 1, Len(unread)), sent' = sent
    PROVE  LET frames == Feed(SubSeq(unread, 1, n)).frames IN
           /\ Parsed' /\ read' \in Seq(Lines) /\ unread' \in Seq(Lines) /\ sent' = read' \o unread'
           /\ frames \in Seq(Frames)
           /\ Cardinality(EventsOf(read')) = Cardinality(EventsOf(read)) + Count("frame", frames)
           /\ Count("finish", frames) = 0 /\ Count("error", frames) = 0
<1> DEFINE part == SubSeq(unread, 1, n)
           fed == Feed(part)
<1>1. /\ part \in Seq(Lines) /\ unread' \in Seq(Lines) /\ read \o part \in Seq(Lines)
      /\ sent = (read \o part) \o unread' /\ DoneIsLast(read \o part)
  BY Taken
<1>2. read \in Seq(Lines) /\ parser = OpenAt("none", read, Len(read) + 1) /\ DoneIsLast(sent)
  BY DEF PumpType, Parsed
<1> HIDE DEF part
<1>3. fed = FeedFrom(OpenAt("none", read, Len(read) + 1), part)
  BY <1>2 DEF Feed
<1>4. /\ fed.parser = OpenAt("none", read \o part, Len(read \o part) + 1)
      /\ fed.frames \in Seq({"frame"})
      /\ Cardinality(EventsOf(read \o part)) = Cardinality(EventsOf(read)) + Count("frame", fed.frames)
      /\ Count("finish", fed.frames) = 0 /\ Count("error", fed.frames) = 0
  BY <1>1, <1>2, <1>3, Fed
<1>5. read' = read \o part /\ parser' = fed.parser
  BY DEF part
<1> HIDE DEF fed
<1>6. fed.frames \in Seq(Frames)
  BY <1>4 DEF Frames
<1>7. Parsed'
  BY <1>2, <1>4, <1>5 DEF Parsed
<1> QED BY <1>1, <1>4, <1>5, <1>6, <1>7 DEF fed, part

LEMMA ReadKeeps ==
    ASSUME PumpInv, Read
    PROVE  PumpInv'
<1>1. /\ task = "selecting" /\ UNCHANGED <<sent, channel, client, received, status>>
  BY DEF Read
<1>2. PumpType /\ Parsed /\ Delivered /\ Unended /\ Drained
  BY DEF PumpInv
<1>3. PICK n \in 1 .. Len(unread) :
        /\ Sends(Feed(SubSeq(unread, 1, n)).frames, "progress")
        /\ parser' = Feed(SubSeq(unread, 1, n)).parser
        /\ read' = read \o SubSeq(unread, 1, n)
        /\ unread' = SubSeq(unread, n + 1, Len(unread))
  BY DEF Read
<1>4. task' = "sending" /\ then' = "progress" /\ pending' = Feed(SubSeq(unread, 1, n)).frames
  BY <1>3 DEF Sends
<1>5. /\ Parsed' /\ read' \in Seq(Lines) /\ unread' \in Seq(Lines) /\ sent' = read' \o unread'
      /\ pending' \in Seq(Frames)
      /\ Cardinality(EventsOf(read')) = Cardinality(EventsOf(read)) + Count("frame", pending')
      /\ Count("finish", pending') = 0 /\ Count("error", pending') = 0
  BY <1>1, <1>2, <1>3, <1>4, ReadOf
<1>6. pending = <<>>
  BY <1>1, <1>2 DEF Drained
<1>7. \A x : Total(x)' = Total(x) + Count(x, pending')
  BY <1>1, <1>2, <1>5, <1>6, PutUp
<1>8. Total("finish") \in Nat /\ Total("error") \in Nat
  BY <1>2, TotalType
<1>9. Total("finish")' = Total("finish") /\ Total("error")' = Total("error")
  <2>1. Total("finish")' = Total("finish") + 0 /\ Total("error")' = Total("error") + 0
    BY <1>5, <1>7
  <2> QED BY <1>8, <2>1
<1>10. PumpType'
  BY <1>1, <1>2, <1>4, <1>5 DEF PumpType
<1>11. Delivered' /\ Unended' /\ Broken' /\ Ended' /\ Drained'
  <2>1. Delivered'
    BY <1>1, <1>2, <1>5, <1>7 DEF Delivered
  <2>2. Unended' /\ Broken' /\ Ended'
    BY <1>1, <1>2, <1>4, <1>9 DEF Unended, Running, Broken, Ended
  <2>3. Drained'
    BY <1>1, <1>2, <1>4 DEF Drained
  <2> QED BY <2>1, <2>2, <2>3
<1> QED BY <1>5, <1>10, <1>11 DEF PumpInv

LEMMA FoldReadKeeps ==
    ASSUME PumpInv, FoldRead
    PROVE  PumpInv'
<1>1. task = "folding" /\ UNCHANGED <<task, sent, pending, then, channel, client, status>>
  BY DEF FoldRead
<1>2. PumpType /\ Parsed /\ Delivered /\ Drained
  BY DEF PumpInv
<1>3. PICK n \in 1 .. Len(unread) :
        /\ received' = received \o Feed(SubSeq(unread, 1, n)).frames
        /\ parser' = Feed(SubSeq(unread, 1, n)).parser
        /\ read' = read \o SubSeq(unread, 1, n)
        /\ unread' = SubSeq(unread, n + 1, Len(unread))
  BY DEF FoldRead
<1> DEFINE frames == Feed(SubSeq(unread, 1, n)).frames
<1>4. /\ Parsed' /\ read' \in Seq(Lines) /\ unread' \in Seq(Lines) /\ sent' = read' \o unread'
      /\ frames \in Seq(Frames)
      /\ Cardinality(EventsOf(read')) = Cardinality(EventsOf(read)) + Count("frame", frames)
  BY <1>1, <1>2, <1>3, ReadOf
<1>5. received' = received \o frames
  BY <1>3
<1> HIDE DEF frames
<1>6. received \in Seq(Frames) /\ received' \in Seq(Frames)
  BY <1>2, <1>4, <1>5 DEF PumpType
<1>7. Total("frame")' = Total("frame") + Count("frame", frames)
  <2>1. Count("frame", received') = Count("frame", received) + Count("frame", frames)
    BY <1>4, <1>5, <1>6, CountConcat
  <2>2. /\ Count("frame", received) \in Nat /\ Count("frame", channel) \in Nat
        /\ Count("frame", pending) \in Nat /\ Count("frame", frames) \in Nat
    BY <1>2, <1>4, TotalType, CountType
  <2> QED BY <1>1, <2>1, <2>2 DEF Total
<1>8. PumpType'
  BY <1>1, <1>2, <1>4, <1>6 DEF PumpType
<1>9. Delivered' /\ Unended' /\ Broken' /\ Ended' /\ Drained'
  <2>1. Delivered'
    BY <1>1, <1>2, <1>4, <1>7 DEF Delivered
  <2>2. Unended' /\ Broken' /\ Ended'
    BY <1>1 DEF Unended, Running, Broken, Ended
  <2>3. Drained'
    BY <1>1, <1>2 DEF Drained
  <2> QED BY <2>1, <2>2, <2>3
<1> QED BY <1>4, <1>8, <1>9 DEF PumpInv

LEMMA FoldEndsKeeps ==
    ASSUME PumpInv, FoldEnds
    PROVE  PumpInv'
<1>1. /\ UNCHANGED <<sent, unread, parser, read>> /\ UNCHANGED <<received, channel, pending>>
      /\ UNCHANGED <<then, client>> /\ task = "folding" /\ task' = "folded"
      /\ status' \in {status, 502, 504}
  BY DEF FoldEnds
<1>2. PumpType /\ Parsed /\ Delivered /\ Drained
  BY DEF PumpInv
<1>3. \A x : Total(x)' = Total(x)
  BY <1>1, QueuesKept
<1>4. Parsed' /\ read' \in Seq(Lines) /\ unread' \in Seq(Lines) /\ sent' = read' \o unread'
      /\ EventsOf(read') = EventsOf(read)
  BY <1>1, <1>2, LinesKept
<1>5. PumpType'
  BY <1>1, <1>2, <1>4 DEF PumpType
<1>6. Delivered' /\ Unended' /\ Broken' /\ Ended' /\ Drained'
  <2>1. Delivered'
    BY <1>1, <1>2, <1>3, <1>4 DEF Delivered
  <2>2. Unended' /\ Broken' /\ Ended'
    BY <1>1 DEF Unended, Running, Broken, Ended
  <2>3. Drained'
    BY <1>1, <1>2 DEF Drained
  <2> QED BY <2>1, <2>2, <2>3
<1> QED BY <1>4, <1>5, <1>6 DEF PumpInv

-----------------------------------------------------------------------------
(* The result.                                                             *)

LEMMA InitPumpInv == PumpInit => PumpInv
<1> SUFFICES ASSUME PumpInit PROVE PumpInv
  OBVIOUS
<1>1. /\ task = "idle" /\ sent = <<>> /\ unread = <<>> /\ parser = "none" /\ read = <<>>
      /\ pending = <<>> /\ then = "beat" /\ channel = <<>> /\ client = "reading"
      /\ received = <<>> /\ status = 200
  BY DEF PumpInit
<1>2. PumpType
  BY <1>1 DEF PumpType
<1>3. Parsed
  <2>1. \A j \in 1 .. (Len(read) + 1) - 1 : read[j] = "bytes"
    BY <1>1
  <2>2. OpenAt("none", read, Len(read) + 1) = "none"
    BY <2>1, OpenUntold
  <2> QED BY <1>1, <2>2 DEF Parsed, DoneIsLast
<1>4. \A x : Total(x) = 0
  BY <1>1, CountNone DEF Total
<1>5. Cardinality(EventsOf(read)) = 0
  <2>1. EventsOf(read) = {}
    BY <1>1 DEF EventsOf
  <2> QED BY <2>1, FS_EmptySet
<1> QED BY <1>1, <1>2, <1>3, <1>4, <1>5
        DEF PumpInv, Delivered, Unended, Running, Broken, Ended, Drained

LEMMA StutterKeeps ==
    ASSUME PumpInv, UNCHANGED pumpVars
    PROVE  PumpInv'
<1> USE DEF PumpInv, PumpType, Parsed, Delivered, Total, Unended, Running, Broken, Ended,
            FinishLast, Drained, pumpVars
<1> QED OBVIOUS

LEMMA InductivePump == PumpInv /\ [PumpNext]_pumpVars => PumpInv'
<1> SUFFICES ASSUME PumpInv, [PumpNext]_pumpVars PROVE PumpInv'
  OBVIOUS
<1>1. CASE UNCHANGED pumpVars
  BY <1>1, StutterKeeps
<1>2. CASE Start \/ PumpTick \/ UpstreamStops \/ Resume \/ Log
  BY <1>2, TurnKeeps
<1>3. CASE UpstreamSends \/ ClientReads \/ ClientLeaves
  BY <1>3, SendingKeeps, ReadingKeeps, LeavingKeeps
<1>4. CASE Read \/ Heartbeat \/ FoldRead \/ FoldEnds
  BY <1>4, ReadKeeps, HeartbeatKeeps, FoldReadKeeps, FoldEndsKeeps
<1>5. CASE EndsQuietly \/ CloseBroken \/ EndsBroken
  BY <1>5, ClosingKeeps, BreakingKeeps
<1>6. CASE Push \/ PushFails
  BY <1>6, PushKeeps, FailingKeeps
<1> QED BY <1>1, <1>2, <1>3, <1>4, <1>5, <1>6 DEF PumpNext, Turn

LEMMA InvDelivers == PumpInv => ClientGetsTheStream
<1> SUFFICES ASSUME PumpInv PROVE ClientGetsTheStream
  OBVIOUS
<1>1. PumpType /\ Delivered /\ Ended /\ Drained
  BY DEF PumpInv
<1>2. received \in Seq(Frames) /\ channel \in Seq(Frames) /\ pending \in Seq(Frames)
  BY <1>1 DEF PumpType
<1>3. \A x : Count(x, Given) = Total(x)
  <2>1. received \o channel \in Seq(Frames)
    BY <1>2
  <2>2. \A x : Count(x, (received \o channel) \o pending) =
                 Count(x, received \o channel) + Count(x, pending)
    BY <1>2, <2>1, CountConcat
  <2>3. \A x : Count(x, received \o channel) = Count(x, received) + Count(x, channel)
    BY <1>2, CountConcat
  <2>4. Given = (received \o channel) \o pending
    BY DEF Given
  <2> QED BY <2>2, <2>3, <2>4 DEF Total
<1>4. Events = EventsOf(read)
  BY DEF Events, EventsOf
<1>5. ASSUME task = "logged", client = "reading"
      PROVE  Given[Len(Given)] = "finish"
  <2>1. pending = <<>> /\ FinishLast
    BY <1>1, <1>5 DEF Drained, Ended
  <2>2. Given = received \o channel
    BY <1>2, <2>1 DEF Given
  <2>3. CASE channel # <<>>
    BY <1>2, <2>1, <2>2, <2>3 DEF FinishLast
  <2>4. CASE channel = <<>>
    <3>1. received # <<>> /\ received[Len(received)] = "finish"
      BY <2>1, <2>4 DEF FinishLast
    <3>2. Given = received
      BY <1>2, <2>2, <2>4
    <3> QED BY <3>1, <3>2
  <2> QED BY <2>3, <2>4
<1>6. client = "reading" => Count("frame", Given) = Cardinality(Events)
  BY <1>1, <1>3, <1>4 DEF Delivered
<1>7. client = "reading" /\ task = "logged" =>
        Count("finish", Given) = 1 /\ ((status = 502) <=> (Count("error", Given) > 0))
  BY <1>1, <1>3 DEF Ended, Drained
<1> QED BY <1>1, <1>5, <1>6, <1>7 DEF ClientGetsTheStream, Drained

(* However an upstream's lines are cut into reads, whatever the heartbeat   *)
(* and the gap timer do between them and however slowly the client drains   *)
(* its channel: one that stays gets a frame for every event and, before the *)
(* log entry, one end, last.                                                *)
THEOREM StreamDelivered == PumpSpec => []ClientGetsTheStream
<1>1. PumpInit => PumpInv
  BY InitPumpInv
<1>2. PumpInv /\ [PumpNext]_pumpVars => PumpInv'
  BY InductivePump
<1>3. PumpInv => ClientGetsTheStream
  BY InvDelivers
<1> QED BY <1>1, <1>2, <1>3, PTL DEF PumpSpec
=============================================================================
