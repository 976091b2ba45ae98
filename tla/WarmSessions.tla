---------------------------- MODULE WarmSessions ----------------------------
(***************************************************************************)
(* The session store of the free lane (opencode_free.rs): the memo that    *)
(* gives each conversation its session id, the warm set of ids the         *)
(* upstream has accepted, and the saver that keeps both on disk; together  *)
(* with the requests that ask it, retry a refused fresh session on a warm  *)
(* one, and probe warm ones when the local budget is exhausted.            *)
(*                                                                         *)
(* One lane: every free-lane provider name maps to the same one.  The      *)
(* budget (FreeLaneBudget) is external: it lets a request dispatch or      *)
(* reports exhaustion.  The stamps of the memo are left open: any entry    *)
(* may be the least recently used one, or due for a fresh stamp.           *)
(***************************************************************************)
EXTENDS Integers, Sequences, FiniteSets, SequencesExt

CONSTANTS
    Requests,
    Testers,        \* the requests that are admin connection tests
    Seeds, NoSeed,  \* conversations; a body without a user turn has no seed
    Sessions, NoSession,
    MemoLimit,      \* SESSION_MEMO_LIMIT
    WarmLimit,      \* WARM_SESSION_LIMIT
    RefusalLimit,   \* WARM_REFUSAL_LIMIT
    ProbeAttempts   \* WARM_PROBE_ATTEMPTS

ASSUME SessionAssumption ==
    /\ Testers \subseteq Requests
    /\ NoSeed \notin Seeds /\ NoSession \notin Sessions
    /\ {MemoLimit, WarmLimit, RefusalLimit} \subseteq Nat \ {0}
    /\ ProbeAttempts \in Nat

VARIABLES
    memo,       \* seed -> session
    warm,       \* accepted sessions, the latest last
    refused,    \* session -> refusals counted against it
    blocked,    \* admission_blocked
    dirty,
    saver,      \* "idle", "writing", or "leaving": the flush at shutdown
    copy,       \* what the saver writes, while it writes
    disk,       \* the session file
    req,
    minted,     \* ids generated so far (they never repeat)
    served      \* history: sessions the upstream has accepted

store == <<memo, warm, refused, blocked>>
saving == <<saver, copy, disk>>
vars == <<memo, warm, refused, blocked, dirty, saver, copy, disk, req, minted, served>>

File == [memo : [Seeds -> Sessions \cup {NoSession}],
         warm : {w \in Seq(Sessions) : Len(w) <= WarmLimit},
         refused : [Sessions -> 0 .. RefusalLimit - 1], blocked : BOOLEAN]

EmptyFile == [memo |-> [k \in Seeds |-> NoSession],
              warm |-> << >>, refused |-> [s \in Sessions |-> 0], blocked |-> FALSE]

InMemory == [memo |-> memo, warm |-> warm, refused |-> refused, blocked |-> blocked]

(* asking, minting: the two lock sections of session_for.  refused,        *)
(* unwarmed: the two that decide on a warm retry.  thanked, rebinding,     *)
(* crediting: those that follow a warm session's success.                  *)
Phases == {"idle", "asking", "minting", "walking", "flying", "refused", "unwarmed",
           "thanked", "rebinding", "crediting", "probing", "demoting"}

(* mode: what a dispatch is; retried: the warm retry is spent; list: the   *)
(* warm sessions left to probe.                                            *)
Request == [phase : Phases, seed : Seeds \cup {NoSeed}, session : Sessions \cup {NoSession},
            mode : {"first", "retry", "probe"}, retried : BOOLEAN, list : Seq(Sessions)]

Idle == [phase |-> "idle", seed |-> NoSeed, session |-> NoSession, mode |-> "first",
         retried |-> FALSE, list |-> << >>]

Init ==
    /\ memo = EmptyFile.memo /\ warm = EmptyFile.warm
    /\ refused = EmptyFile.refused /\ blocked = EmptyFile.blocked
    /\ dirty = FALSE
    /\ saver = "idle" /\ copy = EmptyFile /\ disk = EmptyFile
    /\ req = [r \in Requests |-> Idle]
    /\ minted = {} /\ served = {}

-----------------------------------------------------------------------------
(* The operations of the store.                                            *)

(* The ids of a lane are distinct: at most one is removed. *)
Without(sessions, s) ==
    IF s \in Range(sessions)
    THEN RemoveAt(sessions, CHOOSE i \in DOMAIN sessions : sessions[i] = s) ELSE sessions

(* Slip: one id too many is kept. *)
WarmedBeyond(sessions, s) ==
    LET next == Append(Without(sessions, s), s)
    IN  IF Len(next) > WarmLimit + 1 THEN Tail(next) ELSE next

(* The session becomes the latest; the oldest leaves when the lane is full. *)
Warmed(sessions, s) ==
    LET next == Append(Without(sessions, s), s)
    IN  IF Len(next) > WarmLimit THEN Tail(next) ELSE next

(* note_session_success: a success of an id that was not warm shows that   *)
(* admission is open again.                                                *)
NoteSuccess(s) ==
    /\ warm' = Warmed(warm, s)
    /\ blocked' = (blocked /\ s \in Range(warm))
    /\ dirty' = TRUE
    /\ UNCHANGED <<memo, refused>>

(* A refused id is counted and, at the limit, leaves the lane and the memo. *)
NoteRefused(s) ==
    IF refused[s] + 1 < RefusalLimit
    THEN /\ refused' = [refused EXCEPT ![s] = @ + 1]
         /\ UNCHANGED <<memo, warm, blocked, dirty>>
    ELSE /\ refused' = [refused EXCEPT ![s] = 0]
         /\ warm' = Without(warm, s)
         /\ memo' = [k \in Seeds |-> IF memo[k] = s THEN NoSession ELSE memo[k]]
         /\ dirty' = TRUE
         /\ UNCHANGED blocked

Memoized == {k \in Seeds : memo[k] # NoSession}

(* The memo without the entry that makes room, if one must. *)
Room == IF Cardinality(Memoized) >= MemoLimit
        THEN {[memo EXCEPT ![k] = NoSession] : k \in Memoized} ELSE {memo}

Memoize(before, k, s) ==
    /\ memo' = [before EXCEPT ![k] = s]
    /\ dirty' = TRUE
    /\ UNCHANGED <<warm, refused, blocked>>

(* warm_session_candidates: the latest first, as many as a probe may try.  *)
(* Its filter keeps them all, and its last resort is never reached: an id  *)
(* whose count reaches the limit leaves the lane, and the count goes with  *)
(* it (TypeOK bounds the counts).                                          *)
Offered ==
    LET n == IF Len(warm) < ProbeAttempts THEN Len(warm) ELSE ProbeAttempts
    IN  [i \in 1 .. n |-> warm[Len(warm) + 1 - i]]

-----------------------------------------------------------------------------
(* A request and its session id.                                           *)

Quiet == UNCHANGED <<memo, warm, refused, blocked, dirty, saver, copy, disk,
                     minted, served>>

Goes(r, phase) == req' = [req EXCEPT ![r].phase = phase]
Leaves(r) == req' = [req EXCEPT ![r] = Idle]

Arrive(r) ==
    /\ req[r].phase = "idle"
    /\ saver # "leaving"
    /\ \E k \in Seeds \cup {NoSeed} :
          req' = [req EXCEPT ![r] = [@ EXCEPT !.phase = "asking", !.seed = k]]
    /\ Quiet

Known(k) == k # NoSeed /\ memo[k] # NoSession

Recall(r) ==
    LET k == req[r].seed
    IN  /\ req[r].phase = "asking"
        /\ Known(k)
        /\ req' = [req EXCEPT ![r].phase = "walking", ![r].session = memo[k]]
        /\ dirty' \in {dirty, TRUE}
        /\ UNCHANGED <<store, saving, minted, served>>

Miss(r) ==
    /\ req[r].phase = "asking"
    /\ ~Known(req[r].seed)
    /\ Goes(r, "minting")
    /\ Quiet

(* The entry is inserted whatever another request memoized meanwhile. *)
Mint(r) ==
    /\ req[r].phase = "minting"
    /\ \E s \in Sessions \ minted :
          /\ minted' = minted \cup {s}
          /\ req' = [req EXCEPT ![r].phase = "walking", ![r].session = s]
          /\ \/ /\ req[r].seed = NoSeed
                /\ UNCHANGED <<store, dirty>>
             \/ /\ req[r].seed # NoSeed
                /\ \E before \in Room : Memoize(before, req[r].seed, s)
    /\ UNCHANGED <<saving, served>>

Dispatch(r) ==
    /\ req[r].phase = "walking"
    /\ req' = [req EXCEPT ![r].phase = "flying", ![r].mode = "first"]
    /\ Quiet

(* Nothing to dispatch on, no exit left, or the slot deadline. *)
Leave(r) ==
    /\ req[r].phase = "walking"
    /\ r \notin Testers
    /\ Leaves(r)
    /\ Quiet

(* The budget is exhausted: probe warm sessions, unless the warm retry has *)
(* been spent.                                                             *)
Exhausted(r) ==
    /\ req[r].phase = "walking"
    /\ r \notin Testers
    /\ ~req[r].retried
    /\ req' = [req EXCEPT ![r] = [Idle EXCEPT !.phase = "probing", !.list = Offered]]
    /\ Quiet

Probe(r) ==
    /\ req[r].phase = "probing"
    /\ req[r].list # << >>
    /\ req' = [req EXCEPT ![r] = [@ EXCEPT !.phase = "flying", !.mode = "probe",
                                           !.session = Head(req[r].list),
                                           !.list = Tail(req[r].list)]]
    /\ Quiet

(* No session left, or no slot for the probe. *)
EndProbe(r) == req[r].phase = "probing" /\ Leaves(r) /\ Quiet

-----------------------------------------------------------------------------
(* What the upstream answers: "ok", a 2xx whose body is "empty", the       *)
(* "quota" 429, or any "other" failure.                                    *)
Answers == {"ok", "empty", "quota", "other"}

(* Slip: the session is noted before the status is looked at. *)
AcceptsAll(answer) == answer # "other"

Accepts(answer) == answer \in {"ok", "empty"}

(* Where the answer takes the request: to its end, too, when the client    *)
(* disconnects while the body is read.                                     *)
AfterAnswer(q, answer, test) ==
    {"idle"} \cup
    CASE q.mode = "first" /\ answer = "quota" -> {"refused"}
      [] q.mode = "first" /\ answer = "other" /\ ~test -> {"walking"}
      [] q.mode = "retry" /\ answer = "quota" /\ ~test -> {"walking"}
      [] q.mode = "retry" /\ answer = "ok" -> {"thanked"}
      [] q.mode = "probe" /\ answer = "ok" -> {"crediting"}
      [] q.mode = "probe" /\ answer # "ok" -> {"demoting"}
      [] OTHER -> {}

(* A connection test looks at the status alone, and notes the success of   *)
(* its warm retry only at the end.                                         *)
Answer(r, answer) ==
    LET s == req[r].session
    IN  /\ req[r].phase = "flying"
        /\ answer = "empty" => r \notin Testers
        /\ \E phase \in AfterAnswer(req[r], answer, r \in Testers) :
              req' = [req EXCEPT ![r] = IF phase = "idle" THEN Idle
                                        ELSE [@ EXCEPT !.phase = phase]]
        /\ IF Accepts(answer) /\ ~(r \in Testers /\ req[r].mode = "retry")
           THEN NoteSuccess(s) ELSE UNCHANGED <<store, dirty>>
        /\ served' = IF answer \in {"ok", "empty"} THEN served \cup {s} ELSE served
        /\ UNCHANGED <<saving, minted>>

(* A long Retry-After on a session that is not warm. *)
CheckWarm(r) ==
    /\ req[r].phase = "refused"
    /\ ~req[r].retried
    /\ req[r].session \notin Range(warm)
    /\ Goes(r, "unwarmed")
    /\ Quiet

(* The latest warm session, looked up in a lock section of its own; the    *)
(* request may find no slot for it.                                        *)
TakeWarm(r) ==
    /\ req[r].phase = "unwarmed"
    /\ warm # << >>
    /\ \/ req' = [req EXCEPT ![r] = [@ EXCEPT !.phase = "flying", !.mode = "retry",
                                              !.session = warm[Len(warm)], !.retried = TRUE]]
       \/ r \notin Testers /\ Leaves(r)
    /\ Quiet

(* The refusal is the quota's: the next credential, or the end. *)
GiveUp(r) ==
    /\ req[r].phase = "refused" \/ (req[r].phase = "unwarmed" /\ warm = << >>)
    /\ \/ r \notin Testers /\ Goes(r, "walking")
       \/ Leaves(r)
    /\ Quiet

(* note_session_admission_refusal *)
BlockAdmission(r) ==
    /\ req[r].phase = "thanked"
    /\ blocked' = TRUE
    /\ dirty' = TRUE
    /\ Goes(r, "rebinding")
    /\ UNCHANGED <<memo, warm, refused, saving, minted, served>>

(* rebind_session: the conversation moves to the warm session. *)
Rebind(r) ==
    /\ req[r].phase = "rebinding"
    /\ IF req[r].seed = NoSeed THEN UNCHANGED <<store, dirty>>
       ELSE Memoize(memo, req[r].seed, req[r].session)
    /\ IF r \in Testers THEN Goes(r, "crediting") ELSE Leaves(r)
    /\ UNCHANGED <<saving, minted, served>>

Credit(r) ==
    /\ req[r].phase = "crediting"
    /\ NoteSuccess(req[r].session)
    /\ Leaves(r)
    /\ UNCHANGED <<saving, minted, served>>

Demote(r) ==
    /\ req[r].phase = "demoting"
    /\ NoteRefused(req[r].session)
    /\ Goes(r, "probing")
    /\ UNCHANGED <<saving, minted, served>>

(* The client disconnects while the request is upstream. *)
Cancel(r) == req[r].phase = "flying" /\ Leaves(r) /\ Quiet

-----------------------------------------------------------------------------
(* The saver: the flag is cleared and the store copied under its lock, the *)
(* file is written outside it and renamed into place.                      *)
Snapshot ==
    /\ saver = "idle"
    /\ \/ dirty /\ saver' = "writing"
       \/ (\A r \in Requests : req[r].phase = "idle") /\ saver' = "leaving"
    /\ dirty' = FALSE
    /\ copy' = InMemory
    /\ UNCHANGED <<store, disk, req, minted, served>>

(* Slip: the flag is cleared once the file is written. *)
FlagCleared(ok) == ~ok

FlagAfterWrite(ok) == dirty \/ ~ok

WriteFile ==
    /\ saver = "writing"
    /\ \E ok \in BOOLEAN :
          /\ disk' = IF ok THEN copy ELSE disk
          /\ dirty' = FlagAfterWrite(ok)
    /\ saver' = "idle"
    /\ copy' = EmptyFile
    /\ UNCHANGED <<store, req, minted, served>>

(* A start of the process: the file is loaded. *)
Load(file) ==
    /\ memo' = file.memo /\ warm' = file.warm
    /\ refused' = file.refused /\ blocked' = file.blocked
    /\ dirty' = FALSE
    /\ saver' = "idle" /\ copy' = EmptyFile
    /\ req' = [r \in Requests |-> Idle]

Restart ==
    /\ saver = "leaving"
    /\ disk' \in {copy, disk}
    /\ Load(disk')
    /\ UNCHANGED <<minted, served>>

Crash == Load(disk) /\ UNCHANGED <<disk, minted, served>>

Next ==
    \/ \E r \in Requests :
          \/ Arrive(r) \/ Recall(r) \/ Miss(r) \/ Mint(r)
          \/ Dispatch(r) \/ Leave(r) \/ Exhausted(r) \/ Probe(r) \/ EndProbe(r)
          \/ \E answer \in Answers : Answer(r, answer)
          \/ CheckWarm(r) \/ TakeWarm(r) \/ GiveUp(r)
          \/ BlockAdmission(r) \/ Rebind(r) \/ Credit(r) \/ Demote(r) \/ Cancel(r)
    \/ Snapshot \/ WriteFile \/ Restart \/ Crash

Spec == Init /\ [][Next]_vars
-----------------------------------------------------------------------------
TypeOK ==
    /\ InMemory \in File /\ copy \in File /\ disk \in File
    /\ dirty \in BOOLEAN
    /\ saver \in {"idle", "writing", "leaving"}
    /\ req \in [Requests -> Request]
    /\ minted \subseteq Sessions /\ served \subseteq Sessions

(* Whatever is refused, raced, saved or reloaded, a retry or a probe sends *)
(* only a session the upstream has accepted, and the warm set, in memory   *)
(* as on disk, holds nothing else (note_session_success, its only writer). *)
OnlyAcceptedOffered ==
    /\ \A sessions \in {warm, disk.warm} : Range(sessions) \subseteq served
    /\ \A r \in Requests :
          req[r].phase = "flying" /\ req[r].mode # "first" => req[r].session \in served

(* The part of the store whose every change is to be saved: a refusal      *)
(* below the limit is not.                                                 *)
Kept(file) == <<file.memo, file.warm, file.blocked>>

(* No change is lost to the saver's races: while the store is not marked   *)
(* dirty, the file, or the one being written, holds its state, although    *)
(* requests change it during the write and a write may fail                *)
(* (save_sessions_disk, bootstrap_sessions).                               *)
CleanIsSaved ==
    ~dirty => Kept(InMemory) = Kept(IF saver = "idle" THEN disk ELSE copy)

-----------------------------------------------------------------------------
(* What the repository says and the code does not keep.                    *)

(* The count kept against a session is of consecutive refusals: a stray    *)
(* 429 does not cost one that has served since (WARM_REFUSAL_LIMIT).       *)
ServingForgives ==
    [][\A r \in Requests :
          req[r].phase = "crediting" /\ req'[r].phase = "idle" =>
              refused'[req[r].session] = 0]_vars
=============================================================================
