--------------------------- MODULE Progress_proofs ---------------------------
(***************************************************************************)
(* Proofs about two parts that do their work a step at a time: the state   *)
(* file, for any number of writers that take the lock, which is whole at   *)
(* every moment and implements DurableValue; and the exchange of the       *)
(* Bun-shaped transport, where a body the caller has seen end is whole.    *)
(* They share no state.                                                    *)
(***************************************************************************)
EXTENDS StateFile, BunExchange, SequenceTheorems, TLAPS

-----------------------------------------------------------------------------
(* StateFile: saves, crashes and the file.                                 *)

Busy(w) == save[w].phase # "idle"

(* One save at a time; what it took is between the file and the memory.    *)
OneSave == \A v, w \in Writers : Busy(v) /\ Busy(w) => v = w

FileTrails == content[target] \in Nat /\ content[target] <= memory

TakenBetween ==
    \A w \in Writers : Busy(w) => content[target] <= save[w].taken /\ save[w].taken <= memory

(* The temporary file is this save's own until it is renamed.              *)
TmpIsMine ==
    \A w \in Writers :
        /\ save[w].phase \in {"write", "rename"} => tmp \in Inodes /\ save[w].fd = tmp
        /\ save[w].phase = "write" => content[tmp] = Empty
        /\ save[w].phase = "rename" => content[tmp] = save[w].taken

FlagTells ==
    ~unsaved => /\ (\A w \in Writers : ~Busy(w)) => content[target] = memory
              /\ \A w \in Writers : Busy(w) => save[w].taken = memory

FileInv == FileTypeOK /\ OneSave /\ FileTrails /\ TakenBetween /\ TmpIsMine /\ FlagTells

-----------------------------------------------------------------------------

LEMMA InitInv == FileInit => FileInv
  <1> SUFFICES ASSUME FileInit PROVE FileInv
    OBVIOUS
  <1>1. target \in Inodes /\ content[target] = 0
    BY DEF FileInit
  <1>2. \A w \in Writers : ~Busy(w) /\ save[w] = NoSave
    BY DEF FileInit, Busy, NoSave
  <1>3. NoSave \in [phase : SavePhases, taken : Nat, fd : Inodes \cup {None}]
    BY DEF NoSave, SavePhases
  <1>4. content \in [Inodes -> Nat \cup {Empty, Torn}]
    BY DEF FileInit
  <1>5. FileTypeOK
    BY <1>1, <1>3, <1>4, FileAssumption DEF FileInit, FileTypeOK
  <1>6. OneSave /\ TakenBetween
    BY <1>2 DEF OneSave, TakenBetween
  <1>7. FileTrails /\ FlagTells
    BY <1>1, <1>2 DEF FileInit, FileTrails, FlagTells
  <1>8. TmpIsMine
    BY <1>2 DEF TmpIsMine, Busy
  <1> QED BY <1>5, <1>6, <1>7, <1>8 DEF FileInv

LEMMA EditInv == FileInv /\ Edit => FileInv'
  <1> SUFFICES ASSUME FileInv, Edit PROVE FileInv'
    OBVIOUS
  <1>1. memory' = memory + 1 /\ memory \in Nat /\ unsaved' /\ UNCHANGED <<target, tmp, content, save>>
    BY DEF Edit, FileInv, FileTypeOK
  <1>2. FileTypeOK'
    BY <1>1 DEF FileInv, FileTypeOK
  <1>3. OneSave' /\ TmpIsMine' /\ FlagTells'
    BY <1>1 DEF FileInv, OneSave, TmpIsMine, FlagTells, Busy
  <1>4. FileTrails'
    BY <1>1 DEF FileInv, FileTrails
  <1>5. TakenBetween'
    <2>1. \A w \in Writers : save[w].taken \in Nat
      BY DEF FileInv, FileTypeOK
    <2> QED BY <1>1, <2>1 DEF FileInv, TakenBetween, Busy
  <1> QED BY <1>2, <1>3, <1>4, <1>5 DEF FileInv

LEMMA TakeInv == ASSUME Locked, FileInv, NEW w \in Writers, Take(w) PROVE FileInv'
  <1>1. FileTypeOK'
    BY DEF Take, FileInv, FileTypeOK, SavePhases
  <1>2. OneSave' /\ FileTrails' /\ TakenBetween'
    BY DEF Take, FileInv, FileTypeOK, OneSave, FileTrails, TakenBetween, Busy
  <1>3. TmpIsMine'
    BY DEF Take, FileInv, FileTypeOK, TmpIsMine, Busy
  <1>4. FlagTells'
    BY DEF Take, FileInv, FileTypeOK, FlagTells, Busy
  <1> QED BY <1>1, <1>2, <1>3, <1>4 DEF FileInv

LEMMA OpenInv == ASSUME FileInv, NEW w \in Writers, Open(w) PROVE FileInv'
  <1>1. PICK i \in Inodes \ {target} :
          /\ tmp' = i /\ content' = [content EXCEPT ![i] = Empty]
          /\ save' = [save EXCEPT ![w].phase = "write", ![w].fd = i]
    BY DEF Open
  <1>2. save[w].phase = "open" /\ UNCHANGED <<memory, unsaved, target>>
    BY DEF Open
  <1>3. FileTypeOK'
    BY <1>1, <1>2, FileAssumption DEF FileInv, FileTypeOK, SavePhases, Empty
  <1>4. content'[target'] = content[target]
    BY <1>1, <1>2 DEF FileInv, FileTypeOK
  <1>5. \A v \in Writers : /\ v # w => save'[v] = save[v]
                           /\ save'[v].taken = save[v].taken
                           /\ Busy(v)' <=> Busy(v)
    BY <1>1, <1>2 DEF FileInv, FileTypeOK, Busy
  <1>6. OneSave' /\ FileTrails' /\ TakenBetween' /\ FlagTells'
    BY <1>2, <1>4, <1>5 DEF FileInv, FileTypeOK, OneSave, FileTrails, TakenBetween, FlagTells
  <1>7. TmpIsMine'
    <2>1. \A v \in Writers : v # w => save[v].phase \notin {"write", "rename"}
      BY <1>2 DEF FileInv, OneSave, Busy
    <2>2. save'[w].phase = "write" /\ save'[w].fd = i /\ content'[i] = Empty
      BY <1>1 DEF FileInv, FileTypeOK
    <2> QED BY <1>1, <1>5, <2>1, <2>2 DEF TmpIsMine
  <1> QED BY <1>3, <1>6, <1>7 DEF FileInv

LEMMA WriteInv == ASSUME FileInv, NEW w \in Writers, Write(w) PROVE FileInv'
  <1>1. /\ save[w].phase = "write" /\ tmp \in Inodes /\ save[w].fd = tmp /\ content[tmp] = Empty
        /\ tmp # target /\ save[w].taken \in Nat
    BY DEF Write, FileInv, FileTypeOK, TmpIsMine
  <1>2. /\ content' = [content EXCEPT ![tmp] = save[w].taken]
        /\ save' = [save EXCEPT ![w].phase = "rename"]
        /\ UNCHANGED <<memory, unsaved, target, tmp>>
    BY <1>1 DEF Write
  <1>3. FileTypeOK'
    BY <1>1, <1>2 DEF FileInv, FileTypeOK, SavePhases
  <1>4. content'[target'] = content[target]
    BY <1>1, <1>2 DEF FileInv, FileTypeOK
  <1>5. \A v \in Writers : /\ v # w => save'[v] = save[v]
                           /\ save'[v].taken = save[v].taken
                           /\ Busy(v)' <=> Busy(v)
    BY <1>1, <1>2 DEF FileInv, FileTypeOK, Busy
  <1>6. OneSave' /\ FileTrails' /\ TakenBetween' /\ FlagTells'
    BY <1>2, <1>4, <1>5 DEF FileInv, FileTypeOK, OneSave, FileTrails, TakenBetween, FlagTells
  <1>7. TmpIsMine'
    <2>1. \A v \in Writers : v # w => save[v].phase \notin {"write", "rename"}
      BY <1>1 DEF FileInv, OneSave, Busy
    <2>2. /\ save'[w].phase = "rename" /\ save'[w].fd = tmp
          /\ content'[tmp] = save[w].taken /\ save'[w].taken = save[w].taken
      BY <1>1, <1>2 DEF FileInv, FileTypeOK
    <2> QED BY <1>1, <1>2, <1>5, <2>1, <2>2 DEF TmpIsMine
  <1> QED BY <1>3, <1>6, <1>7 DEF FileInv

LEMMA RenameInv == ASSUME FileInv, NEW w \in Writers, Rename(w) PROVE FileInv'
  <1>1. /\ save[w].phase = "rename" /\ tmp \in Inodes /\ content[tmp] = save[w].taken
        /\ save[w].taken \in Nat /\ save[w].taken <= memory /\ Busy(w)
    BY DEF Rename, FileInv, FileTypeOK, TmpIsMine, TakenBetween, Busy
  <1>2. /\ target' = tmp /\ tmp' = None /\ save' = [save EXCEPT ![w] = NoSave]
        /\ UNCHANGED <<memory, unsaved, content>>
    BY DEF Rename
  <1>3. FileTypeOK'
    BY <1>1, <1>2, FileAssumption DEF FileInv, FileTypeOK, SavePhases, NoSave
  <1>4. \A v \in Writers : ~Busy(v)' /\ save'[v].phase = "idle"
    BY <1>1, <1>2 DEF FileInv, FileTypeOK, OneSave, Busy, NoSave
  <1>5. OneSave' /\ FileTrails' /\ TakenBetween' /\ TmpIsMine'
    BY <1>1, <1>2, <1>4 DEF OneSave, FileTrails, TakenBetween, TmpIsMine
  <1>6. FlagTells'
    BY <1>1, <1>2, <1>4 DEF FileInv, FlagTells
  <1> QED BY <1>3, <1>5, <1>6 DEF FileInv

LEMMA FailInv == ASSUME FileInv, NEW w \in Writers, SaveFails(w) PROVE FileInv'
  <1>1. Busy(w) /\ unsaved' = TRUE /\ save' = [save EXCEPT ![w] = NoSave] /\ UNCHANGED <<memory, target, tmp>>
    BY DEF SaveFails, Busy
  <1>2. FileTypeOK' /\ content'[target'] = content[target]
    <2>1. CASE save[w].phase = "write"
      <3>1. save[w].fd = tmp /\ tmp \in Inodes /\ tmp # target
        BY <2>1 DEF FileInv, FileTypeOK, TmpIsMine
      <3>2. content' = [content EXCEPT ![tmp] = Torn]
        BY <2>1, <3>1 DEF SaveFails
      <3> QED BY <1>1, <3>1, <3>2 DEF FileInv, FileTypeOK, SavePhases, NoSave
    <2>2. CASE save[w].phase # "write"
      <3>1. content' = content
        BY <2>2 DEF SaveFails
      <3> QED BY <1>1, <3>1 DEF FileInv, FileTypeOK, SavePhases, NoSave
    <2> QED BY <2>1, <2>2
  <1>3. \A v \in Writers : ~Busy(v)' /\ save'[v].phase = "idle"
    BY <1>1 DEF FileInv, FileTypeOK, OneSave, Busy, NoSave
  <1>4. OneSave' /\ FileTrails' /\ TakenBetween' /\ TmpIsMine' /\ FlagTells'
    BY <1>1, <1>2, <1>3 DEF FileInv, OneSave, FileTrails, TakenBetween, TmpIsMine, FlagTells
  <1> QED BY <1>2, <1>4 DEF FileInv

LEMMA CrashInv == FileInv /\ Stop => FileInv'
  <1> SUFFICES ASSUME FileInv, Stop PROVE FileInv'
    OBVIOUS
  <1>1. content[target] \in Nat /\ memory' = content[target] /\ UNCHANGED <<target, tmp, content>>
    BY DEF FileInv, FileTrails, Stop, Durable, Parsed
  <1>2. \A w \in Writers : save'[w] = NoSave /\ ~Busy(w)'
    BY DEF Stop, Busy, NoSave
  <1>3. FileTypeOK'
    <2>1. NoSave \in [phase : SavePhases, taken : Nat, fd : Inodes \cup {None}]
      BY DEF NoSave, SavePhases
    <2>2. save' \in [Writers -> [phase : SavePhases, taken : Nat, fd : Inodes \cup {None}]]
      BY <2>1 DEF Stop
    <2> QED BY <1>1, <2>2 DEF Stop, FileInv, FileTypeOK
  <1>4. OneSave' /\ FileTrails' /\ TakenBetween' /\ FlagTells'
    BY <1>1, <1>2 DEF OneSave, FileTrails, TakenBetween, FlagTells
  <1>5. TmpIsMine'
    BY <1>2 DEF TmpIsMine, Busy
  <1> QED BY <1>3, <1>4, <1>5 DEF FileInv

LEMMA StepInv == Locked /\ FileInv /\ [FileNext]_fileVars => FileInv'
  <1> SUFFICES ASSUME Locked, FileInv, [FileNext]_fileVars PROVE FileInv'
    OBVIOUS
  <1>1. CASE Edit BY <1>1, EditInv
  <1>2. CASE Stop BY <1>2, CrashInv
  <1>3. ASSUME NEW w \in Writers, Saves(w) \/ SaveFails(w) PROVE FileInv'
    BY <1>3, TakeInv, OpenInv, WriteInv, RenameInv, FailInv DEF Saves
  <1>4. CASE UNCHANGED fileVars
    BY <1>4 DEF fileVars, FileInv, FileTypeOK, OneSave, FileTrails, TakenBetween, TmpIsMine, FlagTells, Busy
  <1> QED BY <1>1, <1>2, <1>3, <1>4 DEF FileNext

-----------------------------------------------------------------------------

(* Under the lock the invariant holds in every behaviour.                  *)
LEMMA Invariant == Locked /\ FileSpec => []FileInv
  <1>1. FileInit => FileInv BY InitInv
  <1>2. Locked /\ FileInv /\ [FileNext]_fileVars => FileInv' BY StepInv
  <1>3. ASSUME Locked PROVE FileSpec => []FileInv
    <2>1. FileInv /\ [FileNext]_fileVars => FileInv' BY <1>2, <1>3
    <2> QED BY <1>1, <2>1, PTL DEF FileSpec
  <1> QED BY <1>3

(* The variables keep their types.                                         *)
THEOREM FileTypeCorrect == Locked /\ FileSpec => []FileTypeOK
  <1>1. FileInv => FileTypeOK BY DEF FileInv
  <1> QED BY <1>1, Invariant, PTL

(* The file parses at every moment, wherever a save stops.                 *)
THEOREM FileIsWhole == Locked /\ FileSpec => []TargetIsWhole
  <1>1. FileInv => TargetIsWhole BY DEF FileInv, FileTrails, TargetIsWhole
  <1> QED BY <1>1, Invariant, PTL

(* No edit and no failed save is forgotten.                                *)
THEOREM CleanIsSaved == Locked /\ FileSpec => []CleanMeansSaved
  <1>1. FileInv => CleanMeansSaved
    BY DEF FileInv, FileTrails, FlagTells, CleanMeansSaved, Busy, Durable, Parsed
  <1> QED BY <1>1, Invariant, PTL

-----------------------------------------------------------------------------

LEMMA InitRefines == FileInit => D!DurableInit
  BY FileAssumption DEF FileInit, D!DurableInit, Durable, Parsed

(* Every step of the file is a step of the value, or none.                 *)
LEMMA StepRefines == Locked /\ FileInv /\ [FileNext]_fileVars => [D!DurableNext]_(D!durableVars)
  <1> SUFFICES ASSUME Locked, FileInv, [FileNext]_fileVars PROVE [D!DurableNext]_(D!durableVars)
    OBVIOUS
  <1> USE DEF D!DurableNext, D!durableVars, D!Change, D!Save, D!Restart
  <1>0. FileInv' BY StepInv
  <1>1. Durable = content[target] /\ Durable' = content'[target']
    BY <1>0 DEF FileInv, FileTrails, Durable, Parsed
  <1>2. CASE Edit BY <1>1, <1>2 DEF Edit
  <1>3. CASE Stop BY <1>1, <1>3 DEF Stop
  <1>4. ASSUME NEW w \in Writers, Take(w) PROVE UNCHANGED <<memory, Durable>>
    BY <1>1, <1>4 DEF Take
  <1>5. ASSUME NEW w \in Writers, Open(w) PROVE UNCHANGED <<memory, Durable>>
    BY <1>1, <1>5 DEF Open, FileInv, FileTypeOK
  <1>6. ASSUME NEW w \in Writers, Write(w) PROVE UNCHANGED <<memory, Durable>>
    <2>1. save[w].fd = tmp /\ tmp # target
      BY <1>6 DEF Write, FileInv, FileTypeOK, TmpIsMine
    <2> QED BY <1>1, <1>6, <2>1 DEF Write, FileInv, FileTypeOK
  <1>7. ASSUME NEW w \in Writers, SaveFails(w) PROVE UNCHANGED <<memory, Durable>>
    <2>1. save[w].phase = "write" => save[w].fd = tmp /\ tmp # target
      BY DEF FileInv, FileTypeOK, TmpIsMine
    <2> QED BY <1>1, <1>7, <2>1 DEF SaveFails, FileInv, FileTypeOK
  <1>8. ASSUME NEW w \in Writers, Rename(w) PROVE D!Save \/ UNCHANGED <<memory, Durable>>
    <2>1. /\ content'[target'] = save[w].taken /\ memory' = memory
          /\ content[target] <= save[w].taken /\ save[w].taken <= memory
      BY <1>8 DEF Rename, FileInv, TmpIsMine, TakenBetween, Busy
    <2>2. content[target] \in Nat /\ save[w].taken \in Nat /\ memory \in Nat
      BY DEF FileInv, FileTypeOK, FileTrails
    <2> QED BY <1>1, <2>1, <2>2
  <1>9. CASE UNCHANGED fileVars BY <1>9 DEF fileVars, Durable, Parsed
  <1> QED BY <1>2, <1>3, <1>4, <1>5, <1>6, <1>7, <1>8, <1>9 DEF FileNext, Saves

(* A file written under the lock is a durable value.                       *)
THEOREM FileRefines == Locked /\ FileSpec => ImplementsDurableValue
  <1>1. ASSUME Locked PROVE FileSpec => ImplementsDurableValue
    <2>1. FileInv /\ [FileNext]_fileVars => [D!DurableNext]_(D!durableVars) BY <1>1, StepRefines
    <2>2. FileSpec => []FileInv BY <1>1, Invariant
    <2> QED BY InitRefines, <2>1, <2>2, PTL DEF FileSpec, ImplementsDurableValue, D!DurableSpec
  <1> QED BY <1>1

-----------------------------------------------------------------------------
(* BunExchange: for any deadlines, any capacity of the channel and bodies  *)
(* of any length.                                                          *)

Before == {"dial", "greet", "auth", "ask", "tls", "head"}
Held == {"handing", "sending"}
After == {"body", "trailers"} \cup Held
Chunks == [n : Nat, bad : BOOLEAN]

BunType ==
    /\ worker \in Before \cup After \cup {"report", "ended"}
    /\ framing \in [by : Framings, packed : BOOLEAN]
    /\ size \in Nat /\ copied \in Nat /\ got \in Nat
    /\ head \in {"empty", "ok", "error", "used"}
    /\ caller \in {"waiting", "reading", "done", "failed", "left"}
    /\ chan \in Seq(Chunks)

(* Nothing is handed over before the head is, and a reading caller has     *)
(* used it.                                                                *)
HeadFirst ==
    /\ worker \in Before =>
          head = "empty" /\ fault = "none" /\ copied = 0
    /\ head = "empty" => chan = <<>> /\ got = 0 /\ caller # "reading" /\ worker \notin After
    /\ worker \in After => fault = "none"
    /\ worker = "report" => fault # "none"
    /\ head = "error" => worker = "ended" /\ caller # "reading" /\ fault # "none"
    /\ worker = "ended" => head # "empty"

(* While nothing has failed, what the caller has, what is queued and what  *)
(* the worker holds is what was read off the socket.                       *)
Unfailed == Receiving /\ fault = "none"

PlainKept ==
    (Unfailed /\ framing.packed = FALSE) =>
        /\ \A i \in 1 .. Len(chan) : chan[i] = Piece(1)
        /\ worker \in Held => got + Len(chan) + 1 = copied
        /\ worker \notin Held => got + Len(chan) = copied
        /\ worker \in {"trailers", "ended"} => copied = size

(* A compressed body is handed over whole, as the last thing.              *)
PackedKept ==
    (Unfailed /\ framing.packed = TRUE) =>
        /\ worker # "ended" => chan = <<>> /\ got = 0
        /\ worker = "ended" => \/ chan = <<>> /\ got = size
                               \/ chan = <<Piece(size)>> /\ got = 0

NothingLost == PlainKept /\ PackedKept

(* A failure the caller has not seen is the last thing in the channel.     *)
FailureIsLast ==
    /\ (Receiving /\ fault # "none" /\ worker = "ended" /\ head # "error") =>
          chan # <<>> /\ chan[Len(chan)].bad
    /\ worker # "ended" => \A i \in 1 .. Len(chan) : ~chan[i].bad

DoneIsWhole == caller = "done" => worker = "ended" /\ got = size

BunInv == BunType /\ HeadFirst /\ NothingLost /\ FailureIsLast /\ DoneIsWhole

-----------------------------------------------------------------------------

LEMMA BunStarts == BunInit => BunInv
  <1> SUFFICES ASSUME BunInit PROVE BunInv
    OBVIOUS
  <1>1. /\ worker = "dial" /\ fault = "none" /\ size = 0 /\ copied = 0 /\ head = "empty"
        /\ chan = <<>> /\ caller = "waiting" /\ got = 0
        /\ framing = [by |-> "eof", packed |-> FALSE]
    BY DEF BunInit
  <1>2. BunType
    BY <1>1 DEF BunType, Before, Framings
  <1>3. HeadFirst /\ DoneIsWhole /\ FailureIsLast
    BY <1>1 DEF HeadFirst, DoneIsWhole, FailureIsLast, Before, After, Held
  <1>4. NothingLost
    BY <1>1 DEF NothingLost, PlainKept, Held, PackedKept
  <1> QED BY <1>2, <1>3, <1>4 DEF BunInv

(* As long as nothing was read off the socket, nothing is lost.            *)
LEMMA NoPieces ==
    ASSUME Len(chan') = 0, got' = 0, copied' = 0,
           worker' \notin Held \cup {"trailers", "ended"}
    PROVE  PlainKept'
  <1>1. \A i \in 1 .. Len(chan') : chan'[i] = Piece(1)
    OBVIOUS
  <1>2. got' + Len(chan') = copied'
    OBVIOUS
  <1> QED BY <1>1, <1>2 DEF PlainKept, Held, Piece

LEMMA NothingYet ==
    ASSUME chan' = <<>>, got' = 0, copied' = 0, worker' \notin Held \cup {"trailers", "ended"}
    PROVE  NothingLost'
  <1>1. Len(chan') = 0
    OBVIOUS
  <1>2. PlainKept'
    BY <1>1, NoPieces
  <1> QED BY <1>2 DEF NothingLost, PackedKept

(* A step that leaves the body and the caller alone, while nothing has     *)
(* been handed over.                                                       *)
LEMMA BeforeTheBody ==
    ASSUME BunInv, worker \in Before, worker' \in Before \cup {"report"},
           worker' = "report" <=> fault' # "none",
           UNCHANGED <<head, chan, caller, got, framing, size, copied>>
    PROVE  BunInv'
  <1>1. BunType'
    BY DEF BunInv, BunType
  <1>2. head = "empty" /\ chan = <<>> /\ got = 0 /\ copied = 0 /\ caller # "reading"
    BY DEF BunInv, HeadFirst
  <1>3. HeadFirst'
    BY <1>2 DEF HeadFirst, Before, After, Held
  <1>4. NothingLost'
    BY <1>2, NothingYet DEF Before, Held
  <1>5. FailureIsLast' /\ DoneIsWhole'
    BY <1>2 DEF BunInv, FailureIsLast, DoneIsWhole, Before
  <1> QED BY <1>1, <1>3, <1>4, <1>5 DEF BunInv

(* A failure in the body: what is queued stays, the error is to follow.    *)
LEMMA BodyFails ==
    ASSUME BunInv, worker \in After, worker' = "report", fault' # "none",
           UNCHANGED <<head, chan, caller, got, framing, size, copied>>
    PROVE  BunInv'
  <1>1. BunType'
    BY DEF BunInv, BunType
  <1>2. HeadFirst' /\ NothingLost'
    BY DEF BunInv, HeadFirst, NothingLost, PlainKept, Held, PackedKept, Unfailed, Before, After
  <1>3. FailureIsLast' /\ DoneIsWhole'
    BY DEF BunInv, FailureIsLast, DoneIsWhole, After, Held
  <1> QED BY <1>1, <1>2, <1>3 DEF BunInv

LEMMA DialInv == BunInv /\ Dial => BunInv'
  BY BeforeTheBody DEF Dial, Goes, Fails, Before, wire, BunInv, HeadFirst

LEMMA NegotiateInv == BunInv /\ Negotiate => BunInv'
  BY BeforeTheBody DEF Negotiate, InTunnel, Goes, Fails, Before, wire, BunInv, HeadFirst

LEMMA WriteRequestInv == BunInv /\ WriteRequest => BunInv'
  BY BeforeTheBody DEF WriteRequest, Goes, Fails, Before, wire, BunInv, HeadFirst

(* A look, a line that is skipped, a turn of the peer: nothing is read.    *)
LEMMA StandsStill ==
    ASSUME BunInv, UNCHANGED <<worker, fault, head, chan, caller, got, framing, size, copied>>
    PROVE  BunInv'
  BY DEF BunInv, BunType, HeadFirst, NothingLost, PlainKept, Held, PackedKept, Unfailed, FailureIsLast,
         DoneIsWhole, Receiving

LEMMA SkipInv == BunInv /\ Skip => BunInv'
  BY StandsStill DEF Skip

LEMMA BadHeadInv == BunInv /\ BadHead => BunInv'
  BY BeforeTheBody DEF BadHead, Fails, Before, wire, BunInv, HeadFirst

LEMMA HeadInv == ASSUME MaxPieces \in Nat, BunInv, Head_ PROVE BunInv'
  <1>1. PICK by \in Framings, packed \in BOOLEAN, n \in 0 .. MaxPieces :
            /\ framing' = [by |-> by, packed |-> packed] /\ size' = n
            /\ IF caller = "waiting"
               THEN head' = "ok" /\ worker' = "body" /\ UNCHANGED <<fault, chan>>
               ELSE Fails("gone")
    BY DEF Head_
  <1>2. /\ worker = "head" /\ head = "empty" /\ fault = "none" /\ copied = 0
        /\ chan = <<>> /\ Len(chan) = 0 /\ got = 0 /\ caller # "reading"
    BY DEF Head_, BunInv, HeadFirst, Before
  <1>3. UNCHANGED <<caller, got, copied>>
    BY DEF Head_
  <1>4. chan' = <<>> /\ Len(chan') = 0 /\ framing'.packed \in BOOLEAN /\ worker' \in {"body", "report"}
    BY <1>1, <1>2 DEF Fails
  <1>5. BunType'
    <2>1. framing' \in [by : Framings, packed : BOOLEAN] /\ size' \in Nat
      BY <1>1
    <2>2. head' \in {"empty", "ok"}
      BY <1>1, <1>2 DEF Fails
    <2>3. UNCHANGED <<copied, got, caller, chan>> /\ worker' \in After \cup {"report"}
      BY <1>2, <1>3, <1>4 DEF After, Held
    <2> QED BY <2>1, <2>2, <2>3 DEF BunInv, BunType
  <1>6. HeadFirst'
    BY <1>1, <1>2, <1>3, <1>4 DEF HeadFirst, Fails, Before, After, Held
  <1>7. NothingLost'
    BY <1>2, <1>3, <1>4, NothingYet DEF Held
  <1>8. FailureIsLast' /\ DoneIsWhole'
    BY <1>2, <1>3, <1>4 DEF BunInv, FailureIsLast, DoneIsWhole
  <1> QED BY <1>5, <1>6, <1>7, <1>8 DEF BunInv

LEMMA CopyInv == BunInv /\ Copy => BunInv'
  <1> SUFFICES ASSUME BunInv, Copy PROVE BunInv'
    OBVIOUS
  <1>1. /\ worker = "body" /\ copied' = copied + 1
        /\ UNCHANGED <<fault, head, chan, caller, got, framing, size>>
    BY DEF Copy
  <1>2. \/ framing.packed = TRUE /\ worker' = "body"
        \/ framing.packed = FALSE /\ worker' = "handing"
    BY <1>1 DEF Copy, BunInv, BunType
  <1>3. copied \in Nat /\ got \in Nat /\ Len(chan) \in Nat
    BY DEF BunInv, BunType
  <1>4. BunType'
    <2>1. worker' \in After /\ copied' \in Nat
      BY <1>1, <1>2, <1>3 DEF After, Held
    <2> QED BY <1>1, <2>1 DEF BunInv, BunType
  <1>5. HeadFirst'
    BY <1>1, <1>2 DEF BunInv, HeadFirst, Before, After, Held
  <1>6. NothingLost'
    BY <1>1, <1>2, <1>3 DEF BunInv, NothingLost, PlainKept, PackedKept, Unfailed, Receiving, Held
  <1>7. FailureIsLast' /\ DoneIsWhole'
    BY <1>1, <1>2 DEF BunInv, FailureIsLast, DoneIsWhole
  <1> QED BY <1>4, <1>5, <1>6, <1>7 DEF BunInv

(* The piece in hand waits for room.                                       *)
LEMMA HandOverInv == BunInv /\ HandOver => BunInv'
  <1> SUFFICES ASSUME BunInv, HandOver PROVE BunInv'
    OBVIOUS
  <1>1. worker = "handing" /\ UNCHANGED <<caller, got, framing, size, copied>>
    BY DEF HandOver, wire
  <1>2. CASE Fails("deadline")
    BY <1>1, <1>2, BodyFails DEF Fails, After, Held
  <1>3. CASE Goes("sending")
    BY <1>1, <1>3 DEF Goes, BunInv, BunType, HeadFirst, NothingLost, PlainKept, PackedKept, Unfailed,
                      FailureIsLast, DoneIsWhole, Receiving, Before, After, Held
  <1> QED BY <1>2, <1>3 DEF HandOver

(* The one piece, or the whole of a decoded body, at the end of the queue. *)
LEMMA SendInv == BunInv /\ Send_ => BunInv'
  <1> SUFFICES ASSUME BunInv, Send_ PROVE BunInv'
    OBVIOUS
  <1>1. worker = "sending" /\ UNCHANGED <<caller, got, framing, size, copied>>
    BY DEF Send_, wire
  <1>2. CASE Fails("gone")
    BY <1>1, <1>2, BodyFails DEF Fails, After, Held
  <1>3. ASSUME NEW p, p = Piece(IF framing.packed THEN size ELSE 1),
               Receiving, chan' = Append(chan, p),
               worker' = (IF framing.packed THEN "ended" ELSE "body"),
               UNCHANGED <<fault, head>>
        PROVE  BunInv'
    <2>1. /\ copied \in Nat /\ got \in Nat /\ size \in Nat /\ chan \in Seq(Chunks) /\ Len(chan) \in Nat
      BY DEF BunInv, BunType
    <2>2. \/ framing.packed = TRUE /\ p = Piece(size) /\ worker' = "ended"
          \/ framing.packed = FALSE /\ p = Piece(1) /\ worker' = "body"
      BY <1>3 DEF BunInv, BunType
    <2>3. p \in Chunks /\ ~p.bad
      <3>1. \A n \in Nat : Piece(n) \in Chunks /\ ~Piece(n).bad
        BY DEF Piece, Chunks
      <3> QED BY <2>1, <2>2, <3>1
    <2>4. /\ chan' \in Seq(Chunks) /\ Len(chan') = Len(chan) + 1 /\ chan'[Len(chan) + 1] = p
          /\ \A i \in 1 .. Len(chan) : chan'[i] = chan[i]
      BY <1>3, <2>1, <2>3, AppendProperties
    <2>5. fault = "none" /\ head # "empty" /\ head # "error"
      BY <1>1 DEF BunInv, HeadFirst, After, Held
    <2>6. BunType' /\ DoneIsWhole'
      BY <1>1, <1>3, <2>2, <2>4 DEF BunInv, BunType, DoneIsWhole, After, Held, Receiving
    <2>7. HeadFirst'
      BY <1>3, <2>2, <2>5 DEF HeadFirst, Before, After, Held
    <2>8. FailureIsLast'
      <3>1. \A i \in 1 .. Len(chan) : ~chan[i].bad
        BY <1>1 DEF BunInv, FailureIsLast
      <3>2. \A i \in 1 .. Len(chan') : i \in 1 .. Len(chan) \/ i = Len(chan) + 1
        BY <2>1, <2>4
      <3>3. \A i \in 1 .. Len(chan') : ~chan'[i].bad
        BY <2>3, <2>4, <3>1, <3>2
      <3> QED BY <1>3, <2>5, <3>3 DEF FailureIsLast
    <2>9. PackedKept'
      <3>1. CASE framing.packed = TRUE
        <4>1. chan = <<>> /\ got = 0
          BY <1>1, <1>3, <2>5, <3>1 DEF BunInv, NothingLost, PackedKept, Unfailed
        <4>2. chan' = <<Piece(size)>>
          BY <1>3, <2>2, <3>1, <4>1
        <4> QED BY <1>1, <2>2, <3>1, <4>1, <4>2 DEF PackedKept, Piece
      <3> QED BY <1>1, <3>1 DEF PackedKept
    <2>10. PlainKept'
      <3>1. CASE framing.packed = FALSE
        <4>1. /\ \A i \in 1 .. Len(chan) : chan[i] = Piece(1)
              /\ got + Len(chan) + 1 = copied
          BY <1>1, <1>3, <2>5, <3>1 DEF BunInv, NothingLost, PlainKept, Held, Unfailed
        <4>2. \A i \in 1 .. Len(chan') : i \in 1 .. Len(chan) \/ i = Len(chan) + 1
          BY <2>1, <2>4
        <4>3. \A i \in 1 .. Len(chan') : chan'[i] = Piece(1)
          BY <2>2, <2>4, <3>1, <4>1, <4>2
        <4>4. worker' = "body" /\ got' + Len(chan') = copied'
          <5>1. worker' = "body" /\ got' = got /\ copied' = copied
            BY <1>1, <2>2, <3>1
          <5> QED BY <2>1, <2>4, <4>1, <5>1
        <4> QED BY <4>3, <4>4 DEF PlainKept, Held, Piece
      <3> QED BY <1>1, <3>1 DEF PlainKept, Held
    <2> QED BY <2>6, <2>7, <2>8, <2>9, <2>10 DEF BunInv, NothingLost
  <1> QED BY <1>1, <1>2, <1>3 DEF Send_

(* The end of the data, where all of it has been read.                     *)
LEMMA DataEndsInv ==
    ASSUME BunInv, worker \in {"body", "trailers"}, copied = size \/ worker = "trailers", DataEnds,
           UNCHANGED <<caller, got, framing, size, copied>>
    PROVE  BunInv'
  <1>1. /\ copied \in Nat /\ got \in Nat /\ Len(chan) \in Nat /\ framing.packed \in BOOLEAN
        /\ size \in Nat
    <2>1. chan \in Seq(Chunks) /\ framing.packed \in BOOLEAN /\ copied \in Nat /\ got \in Nat
      BY DEF BunInv, BunType
    <2>2. Len(chan) \in Nat
      BY <2>1
    <2> QED BY <2>1, <2>2 DEF BunInv, BunType
  <1>2. CASE Fails("decode")
    BY <1>1, <1>2, BodyFails DEF Fails, After, Held
  <1>3. CASE framing.packed /\ size > 0 /\ Goes("handing")
    BY <1>1, <1>3 DEF BunInv, BunType, HeadFirst, NothingLost, PlainKept, PackedKept, Unfailed,
                      FailureIsLast, DoneIsWhole, Receiving, Before, After, Held, Goes
  <1>4. CASE Goes("ended") /\ (framing.packed => size = 0)
    <2>1. fault = "none" /\ head # "empty" /\ UNCHANGED <<fault, head, chan>> /\ worker' = "ended"
      BY <1>1, <1>4 DEF BunInv, HeadFirst, After, Held, Goes
    <2>2. BunType' /\ HeadFirst' /\ FailureIsLast' /\ DoneIsWhole'
      BY <1>1, <2>1 DEF BunInv, BunType, HeadFirst, FailureIsLast, DoneIsWhole, Before, After, Held
    <2>3. NothingLost'
      BY <1>1, <1>4, <2>1 DEF BunInv, NothingLost, PlainKept, PackedKept, Unfailed, Receiving, Held
    <2> QED BY <2>2, <2>3 DEF BunInv
  <1>5. framing.packed = TRUE /\ ~(size > 0) => size = 0
    BY <1>1
  <1> QED BY <1>1, <1>2, <1>3, <1>4, <1>5 DEF DataEnds

LEMMA EndOfBodyInv == BunInv /\ EndOfBody => BunInv'
  <1> SUFFICES ASSUME BunInv, EndOfBody PROVE BunInv'
    OBVIOUS
  <1>1. worker = "body" /\ copied = size /\ UNCHANGED <<caller, got, framing, size, copied>>
    BY DEF EndOfBody, wire
  <1>2. CASE DataEnds
    BY <1>1, <1>2, DataEndsInv
  <1>3. CASE Goes("trailers")
    BY <1>1, <1>3 DEF BunInv, BunType, HeadFirst, NothingLost, PlainKept, PackedKept, Unfailed,
                      FailureIsLast, DoneIsWhole, Receiving, Before, After, Held, Goes
  <1> QED BY <1>2, <1>3 DEF EndOfBody

LEMMA EndOfTrailersInv == BunInv /\ EndOfTrailers => BunInv'
  BY DataEndsInv DEF EndOfTrailers, wire

LEMMA ClosedInv == BunInv /\ Closed => BunInv'
  <1> SUFFICES ASSUME BunInv, Closed PROVE BunInv'
    OBVIOUS
  <1>1. worker = "body" /\ UNCHANGED <<caller, got, framing, copied>> /\ framing.packed \in BOOLEAN
    BY DEF Closed, BunInv, BunType
  <1>2. CASE Fails("io") /\ UNCHANGED size
    BY <1>1, <1>2, BodyFails DEF Fails, After, Held
  <1>3. CASE size' = copied /\ UNCHANGED <<worker, fault, head, chan>>
    BY <1>1, <1>3 DEF BunInv, BunType, HeadFirst, NothingLost, PlainKept, Held, PackedKept, Unfailed,
                      FailureIsLast, DoneIsWhole, Receiving, Before, After
  <1> QED BY <1>1, <1>2, <1>3 DEF Closed

LEMMA BrokenInv == BunInv /\ Broken => BunInv'
  BY BodyFails DEF Broken, Fails, After, Held, wire

LEMMA PollInv == BunInv /\ Poll => BunInv'
  <1> SUFFICES ASSUME BunInv, Poll PROVE BunInv'
    OBVIOUS
  <1>1. UNCHANGED <<head, chan, caller, got, framing, size, copied>> /\ worker' = "report" /\ fault' # "none"
    BY DEF Poll, Fails, wire
  <1>2. worker \in Before \/ worker \in After
    BY DEF Poll, Listening, InTunnel, Before, After, Held
  <1> QED BY <1>1, <1>2, BeforeTheBody, BodyFails

LEMMA ReportInv == BunInv /\ Report => BunInv'
  <1> SUFFICES ASSUME BunInv, Report PROVE BunInv'
    OBVIOUS
  <1>1. /\ worker = "report" /\ worker' = "ended" /\ fault # "none"
        /\ UNCHANGED <<fault, caller, got, framing, size, copied>>
    BY DEF Report, wire, BunInv, HeadFirst
  <1>2. NothingLost' /\ DoneIsWhole'
    BY <1>1 DEF BunInv, NothingLost, PlainKept, Held, PackedKept, Unfailed, DoneIsWhole
  <1>3. CASE head = "empty" /\ head' = "error" /\ UNCHANGED chan
    BY <1>1, <1>2, <1>3 DEF BunInv, BunType, HeadFirst, FailureIsLast, Before, After, Held
  <1>4. CASE Receiving /\ head # "empty" /\ chan' = Append(chan, Trouble) /\ UNCHANGED head
    <2>1. Trouble \in Chunks /\ Trouble.bad /\ chan \in Seq(Chunks)
      BY DEF Trouble, Chunks, BunInv, BunType
    <2>2. /\ chan' \in Seq(Chunks) /\ Len(chan') = Len(chan) + 1 /\ chan'[Len(chan')] = Trouble
          /\ Len(chan) \in Nat /\ chan' # <<>>
      BY <1>4, <2>1, AppendProperties
    <2>3. BunType' /\ HeadFirst' /\ FailureIsLast'
      BY <1>1, <1>4, <2>1, <2>2 DEF BunInv, BunType, HeadFirst, FailureIsLast, Before, After, Held
    <2> QED BY <1>2, <2>3 DEF BunInv
  <1>5. CASE ~Receiving /\ head # "empty" /\ UNCHANGED <<chan, head>>
    BY <1>1, <1>2, <1>5 DEF BunInv, BunType, HeadFirst, FailureIsLast, Before, After, Held, Receiving
  <1> QED BY <1>3, <1>4, <1>5 DEF Report

(* The caller learns the head, and with an error head nothing else.        *)
LEMMA GetHeadInv == BunInv /\ GetHead => BunInv'
  <1> SUFFICES ASSUME BunInv, GetHead PROVE BunInv'
    OBVIOUS
  <1>1. /\ caller = "waiting" /\ head' = "used"
        /\ UNCHANGED <<worker, fault, chan, got, framing, size, copied>>
    BY DEF GetHead, wire
  <1>2. worker \notin Before
    BY DEF BunInv, HeadFirst, GetHead
  <1>3. CASE head = "ok" /\ caller' = "reading"
    BY <1>1, <1>2, <1>3 DEF BunInv, BunType, HeadFirst, NothingLost, PlainKept, Held, PackedKept, Unfailed,
                            FailureIsLast, DoneIsWhole, Receiving
  <1>4. CASE head = "error" /\ caller' = "failed"
    BY <1>1, <1>2, <1>4 DEF BunInv, BunType, HeadFirst, NothingLost, PlainKept, Held, PackedKept, Unfailed,
                            FailureIsLast, DoneIsWhole, Receiving
  <1> QED BY <1>3, <1>4 DEF GetHead

(* A caller that stops listening is promised nothing more.                 *)
LEMMA GoneInv ==
    ASSUME BunInv, caller' \in {"failed", "left"}, chan' \in {<<>>, chan},
           UNCHANGED <<worker, fault, head, got, framing, size, copied>>
    PROVE  BunInv'
  <1>1. BunType'
    <2>1. <<>> \in Seq(Chunks)
      OBVIOUS
    <2>2. chan' \in Seq(Chunks)
      BY <2>1 DEF BunInv, BunType
    <2> QED BY <2>2 DEF BunInv, BunType
  <1>2. HeadFirst' /\ NothingLost' /\ DoneIsWhole'
    BY DEF BunInv, HeadFirst, NothingLost, PlainKept, Held, PackedKept, Unfailed, Receiving, DoneIsWhole
  <1>3. FailureIsLast'
    <2>1. Len(<<>>) = 0
      OBVIOUS
    <2>2. worker # "ended" => \A i \in 1 .. Len(chan') : ~chan'[i].bad
      BY <2>1 DEF BunInv, FailureIsLast
    <2> QED BY <2>2 DEF FailureIsLast, Receiving
  <1> QED BY <1>1, <1>2, <1>3 DEF BunInv

LEMMA TimedOutInv == BunInv /\ TimedOut => BunInv'
  BY GoneInv DEF TimedOut, wire

LEMMA LeaveInv == BunInv /\ Leave => BunInv'
  BY GoneInv DEF Leave, wire

(* A piece moves from the queue to the caller.                             *)
LEMMA ReadBodyInv == BunInv /\ ReadBody => BunInv'
  <1> SUFFICES ASSUME BunInv, ReadBody PROVE BunInv'
    OBVIOUS
  <1>1. /\ caller = "reading" /\ chan # <<>> /\ chan' = Tail(chan) /\ got' = got + Head(chan).n
        /\ UNCHANGED <<worker, fault, head, framing, size, copied>>
    BY DEF ReadBody, wire
  <1>2. /\ chan \in Seq(Chunks) /\ got \in Nat /\ copied \in Nat /\ size \in Nat
        /\ framing.packed \in BOOLEAN
    BY DEF BunInv, BunType
  <1>3. /\ chan' \in Seq(Chunks) /\ Len(chan') = Len(chan) - 1 /\ Len(chan) \in Nat /\ Len(chan) > 0
        /\ \A i \in 1 .. Len(chan') : chan'[i] = chan[i + 1] /\ i + 1 \in 1 .. Len(chan)
        /\ Head(chan) = chan[1] /\ Head(chan) \in Chunks
    BY <1>1, <1>2, HeadTailProperties
  <1>4. Head(chan).n \in Nat /\ got' \in Nat
    BY <1>1, <1>2, <1>3 DEF Chunks
  <1>5. caller' \in {"reading", "failed"} /\ (caller' = "reading" => ~Head(chan).bad)
    BY <1>1 DEF ReadBody
  <1>6. BunType'
    BY <1>1, <1>3, <1>4, <1>5 DEF BunInv, BunType
  <1>7. HeadFirst' /\ DoneIsWhole'
    BY <1>1, <1>5 DEF BunInv, HeadFirst, DoneIsWhole
  <1>8. FailureIsLast'
    <2>1. worker' # "ended" => \A i \in 1 .. Len(chan') : ~chan'[i].bad
      BY <1>1, <1>3 DEF BunInv, FailureIsLast
    <2>2. ASSUME Receiving', fault' # "none", worker' = "ended", head' # "error"
          PROVE  chan' # <<>> /\ chan'[Len(chan')].bad
      <3>1. caller' = "reading" /\ ~chan[1].bad
        BY <1>3, <1>5, <2>2 DEF Receiving
      <3>2. chan[Len(chan)].bad
        BY <1>1, <2>2 DEF BunInv, FailureIsLast, Receiving
      <3>3. Len(chan) # 1
        BY <3>1, <3>2
      <3>4. Len(chan') \in 1 .. Len(chan') /\ Len(chan') + 1 = Len(chan)
        BY <1>3, <3>3
      <3> QED BY <1>3, <3>2, <3>4
    <2> QED BY <2>1, <2>2 DEF FailureIsLast
  <1>9. PlainKept'
    <2>1. CASE caller' = "reading" /\ fault = "none" /\ framing.packed = FALSE
      <3>1. /\ \A i \in 1 .. Len(chan) : chan[i] = Piece(1)
            /\ worker \in Held => got + Len(chan) + 1 = copied
            /\ worker \notin Held => got + Len(chan) = copied
            /\ worker \in {"trailers", "ended"} => copied = size
        BY <1>1, <2>1 DEF BunInv, NothingLost, PlainKept, Held, Unfailed, Receiving
      <3>2. Head(chan).n = 1
        <4>1. Head(chan) = chan[1] /\ 1 \in 1 .. Len(chan)
          BY <1>3
        <4>2. Head(chan) = Piece(1)
          BY <3>1, <4>1
        <4> QED BY <4>2 DEF Piece
      <3>3. got' + Len(chan') = got + Len(chan)
        BY <1>1, <1>2, <1>3, <3>2
      <3>4. \A i \in 1 .. Len(chan') : chan'[i] = Piece(1)
        BY <1>3, <3>1
      <3>5. /\ worker' \in Held => got' + Len(chan') + 1 = copied'
            /\ worker' \notin Held => got' + Len(chan') = copied'
            /\ worker' \in {"trailers", "ended"} => copied' = size'
        BY <1>1, <3>1, <3>3
      <3> QED BY <3>4, <3>5 DEF PlainKept, Held, Piece
    <2> QED BY <1>1, <1>5, <2>1 DEF PlainKept, Held, Unfailed, Receiving
  <1>10. PackedKept'
    <2>1. CASE caller' = "reading" /\ fault = "none" /\ framing.packed = TRUE
      <3>1. worker = "ended" /\ chan = <<Piece(size)>> /\ got = 0
        BY <1>1, <2>1 DEF BunInv, NothingLost, PackedKept, Unfailed, Receiving
      <3>2. chan' = <<>> /\ Head(chan).n = size
        BY <1>1, <3>1 DEF Piece
      <3>3. got' = size
        BY <1>1, <1>2, <3>1, <3>2
      <3> QED BY <1>1, <3>1, <3>2, <3>3 DEF PackedKept
    <2> QED BY <1>1, <1>5, <2>1 DEF PackedKept, Unfailed, Receiving
  <1> QED BY <1>6, <1>7, <1>8, <1>9, <1>10 DEF BunInv, NothingLost

LEMMA EndReadingInv == BunInv /\ EndReading => BunInv'
  <1> SUFFICES ASSUME BunInv, EndReading PROVE BunInv'
    OBVIOUS
  <1>1. /\ caller = "reading" /\ chan = <<>> /\ worker = "ended" /\ caller' = "done"
        /\ UNCHANGED <<worker, fault, head, chan, got, framing, size, copied>>
    BY DEF EndReading, wire
  <1>2. fault = "none"
    BY <1>1 DEF BunInv, FailureIsLast, HeadFirst, Receiving
  <1>3. got = size
    <2>1. Len(chan) = 0 /\ got \in Nat /\ framing.packed \in BOOLEAN
      BY <1>1 DEF BunInv, BunType
    <2>2. CASE framing.packed = FALSE
      BY <1>1, <1>2, <2>1, <2>2 DEF BunInv, NothingLost, PlainKept, Held, Unfailed, Receiving
    <2>3. CASE framing.packed = TRUE
      BY <1>1, <1>2, <2>3 DEF BunInv, NothingLost, PackedKept, Unfailed, Receiving
    <2> QED BY <2>1, <2>2, <2>3
  <1> QED BY <1>1, <1>3 DEF BunInv, BunType, HeadFirst, NothingLost, PlainKept, Held, PackedKept, Unfailed,
                            FailureIsLast, DoneIsWhole, Receiving

LEMMA BunStep == ASSUME MaxPieces \in Nat, BunInv, [BunNext]_bunVars PROVE BunInv'
  <1>1. CASE Works
    BY <1>1, DialInv, NegotiateInv, WriteRequestInv, SkipInv, HeadInv, BadHeadInv, CopyInv, HandOverInv,
       SendInv, EndOfBodyInv, EndOfTrailersInv, ClosedInv, BrokenInv DEF Works
  <1>2. CASE Poll \/ Report
    BY <1>2, PollInv, ReportInv
  <1>3. CASE GetHead \/ TimedOut \/ ReadBody \/ EndReading \/ Leave
    BY <1>3, GetHeadInv, TimedOutInv, ReadBodyInv, EndReadingInv, LeaveInv
  <1>4. CASE TimePasses \/ PeerTurns
    BY <1>4, StandsStill DEF TimePasses, PeerTurns, wire
  <1>5. CASE UNCHANGED bunVars
    BY <1>5, StandsStill DEF bunVars, wire
  <1> QED BY <1>1, <1>2, <1>3, <1>4, <1>5 DEF BunNext

(* A caller that saw the body end without an error has all of it, whatever *)
(* the peers, the clock and the other end of the channels do.              *)
THEOREM BodyIsWhole == ASSUME MaxPieces \in Nat PROVE BunSpec => []EndedBodyIsWhole
  <1>1. BunInv /\ [BunNext]_bunVars => BunInv'
    BY BunStep
  <1>2. BunInv => EndedBodyIsWhole
    BY DEF BunInv, DoneIsWhole, EndedBodyIsWhole
  <1> QED BY <1>1, <1>2, BunStarts, PTL DEF BunSpec
=============================================================================
