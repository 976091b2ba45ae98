---------------------------- MODULE Connections ----------------------------
(***************************************************************************)
(* The provider connections an operator manages and the live views made    *)
(* from them: the registry entry of a compatible provider, the credential  *)
(* overlay, the account pools requests draw from and the routable models.  *)
(* Handlers and model syncs run on several threads and no lock is held     *)
(* from one read to the next write, so each is a worker that goes from one *)
(* access of the shared state to the next: it reads, applies, takes a      *)
(* snapshot of the store, saves it, publishes it and rebuilds a pool.      *)
(***************************************************************************)
EXTENDS Naturals, Sequences, FiniteSets, SequencesExt

CONSTANTS
    Ids,            \* connection ids
    Workers,        \* handlers and syncs that run at once
    Files,          \* what the store may be read from at first: sequences of Connections
    MaxEdits        \* bound: operator's calls, restarts and rounds

Providers == {"compat", "zai"}      \* a dynamic family and a static entry
Models == {"m", "n"}
StaticModels(p) == IF p = "zai" THEN {"m"} ELSE {}
Answers == {{}, {"n"}}              \* what an upstream may list
NoKey == "none"

Connections ==
    [id : Ids, provider : Providers, key : {NoKey, "k1", "k2"}, enabled : BOOLEAN,
     manual : SUBSET Models, synced : Answers, listed : BOOLEAN, hidden : SUBSET Models]

VARIABLES
    store,          \* connections in memory, in file order
    file,           \* connections on disk
    registered,     \* models of each registered provider; "no entry" when absent
    overlay,        \* last credential applied to each provider
    pools,          \* accounts in rotation
    round,          \* the background round's connections still to do
    work,           \* what each worker is about
    edits

connVars == <<store, file, registered, overlay, pools, round, work, edits>>

NoEntry == [present |-> FALSE, models |-> {}]
Entry(ms) == [present |-> TRUE, models |-> ms]
NoOverlay == [key |-> NoKey, enabled |-> FALSE]

(* conn: the worker's own copy; snap: its snapshot of the store; seen: what *)
(* was hidden when it looked, which only a property reads.                 *)
Task(op, stage, conn) == [op |-> op, stage |-> stage, conn |-> conn, seen |-> {}, snap |-> <<>>]
Idle == [op |-> "idle", stage |-> "idle", seen |-> {}, snap |-> <<>>]

----------------------------------------------------------------------------
(* The store and what is derived from it.                                  *)

(* Ids are unique: an upsert replaces the connection of its id.            *)
Has(id) == \E i \in DOMAIN store : store[i].id = id
Position(s, id) == CHOOSE i \in DOMAIN s : s[i].id = id
Get(id) == store[Position(store, id)]

Upserted(s, c) ==
    IF \E i \in DOMAIN s : s[i].id = c.id
    THEN [i \in DOMAIN s |-> IF s[i].id = c.id THEN c ELSE s[i]]
    ELSE Append(s, c)
Removed(s, id) ==
    IF \E i \in DOMAIN s : s[i].id = id THEN RemoveAt(s, Position(s, id)) ELSE s

Of(s, p) == {c \in ToSet(s) : c.provider = p}
Enabled(s, p) == {c \in Of(s, p) : c.enabled}
Pool(s, p) == LET InPool(c) == c.enabled /\ c.provider = p
                  on == SelectSeq(s, InPool)
              IN  [i \in 1..Len(on) |-> [id |-> on[i].id, key |-> on[i].key]]

Applied(c, reg) ==
    IF c.provider = "compat" THEN [reg EXCEPT !["compat"] = Entry(c.manual \cup c.synced)] ELSE reg

Overlaid(c, over) ==
    IF c.key = NoKey THEN over
    ELSE [over EXCEPT ![c.provider] = [key |-> c.key, enabled |-> c.enabled]]

(* An account without a key of its own is used with what the overlay or    *)
(* the environment has; it does not make its provider routable.            *)
Routed(p) == registered[p].present /\ \E c \in Enabled(store, p) : c.key # NoKey
HiddenBy(cs) == UNION {c.hidden : c \in cs}

Routable(p) ==
    LET cs == Enabled(store, p)
        declared == UNION {c.manual \cup c.synced : c \in cs}
        seeds == IF \E c \in cs : c.listed THEN {} ELSE registered[p].models
    IN  IF Routed(p) THEN (seeds \cup declared) \ HiddenBy(cs) ELSE {}

----------------------------------------------------------------------------
(* Starting: the registry and the pools are rebuilt from the file.         *)

Rebuilt(s) ==
    LET compat == SelectSeq(s, LAMBDA c : c.provider = "compat")
        last == compat[Len(compat)]
    IN  [p \in Providers |->
            IF p = "zai" THEN Entry(StaticModels(p))
            ELSE IF compat = <<>> THEN NoEntry ELSE Entry(last.manual \cup last.synced)]

OverlayOf(s) ==
    [p \in Providers |->
        LET on == SelectSeq(s, LAMBDA c : c.enabled /\ c.provider = p)
        IN  IF on = <<>> THEN NoOverlay ELSE [key |-> on[Len(on)].key, enabled |-> TRUE]]

ConnInit ==
    /\ file \in Files /\ store = file
    /\ registered = Rebuilt(file) /\ overlay = OverlayOf(file)
    /\ pools = [p \in Providers |-> Pool(file, p)]
    /\ round = <<>> /\ work = [w \in Workers |-> Idle] /\ edits = 0

Restart ==
    /\ edits < MaxEdits /\ edits' = edits + 1
    /\ store' = file
    /\ registered' = Rebuilt(file) /\ overlay' = OverlayOf(file)
    /\ pools' = [p \in Providers |-> Pool(file, p)]
    /\ round' = <<>> /\ work' = [w \in Workers |-> Idle]
    /\ UNCHANGED file

----------------------------------------------------------------------------
(* The steps a worker takes through the shared state.                      *)

At(w, stage) == work[w].stage = stage
Goes(w, task) == work' = [work EXCEPT ![w] = task]

Siblings(c) == {o \in Of(store, c.provider) : o.id # c.id}

\* Slip: only the accounts in use are asked what is hidden.
MasksInUse(c) == HiddenBy({o \in Siblings(c) : o.enabled})

(* inherit_hidden_models asks the siblings, in use or not.                 *)
Masks(c) == HiddenBy(Siblings(c))

Look(w) ==
    /\ At(w, "look")
    /\ Goes(w, [work[w] EXCEPT !.stage = "apply", !.conn.hidden = Masks(work[w].conn),
                   !.seen = HiddenBy(Siblings(work[w].conn))])
    /\ UNCHANGED <<store, file, registered, overlay, pools, round, edits>>

Apply(w) ==
    /\ At(w, "apply")
    /\ registered' = Applied(work[w].conn, registered)
    /\ overlay' = Overlaid(work[w].conn, overlay)
    /\ Goes(w, [work[w] EXCEPT !.stage = "snapshot"])
    /\ UNCHANGED <<store, file, pools, round, edits>>

Snapshot(w) ==
    /\ At(w, "snapshot")
    /\ Goes(w, [work[w] EXCEPT !.stage = "save",
                   !.snap = IF work[w].op = "delete" THEN Removed(store, work[w].conn.id)
                            ELSE Upserted(store, work[w].conn)])
    /\ UNCHANGED <<store, file, registered, overlay, pools, round, edits>>

Save(w) ==
    /\ At(w, "save")
    /\ file' = work[w].snap
    /\ Goes(w, [work[w] EXCEPT !.stage = "publish"])
    /\ UNCHANGED <<store, registered, overlay, pools, round, edits>>

(* A sync and the removal of a model leave the pools as they are.          *)
Publish(w) ==
    /\ At(w, "publish")
    /\ store' = work[w].snap
    /\ Goes(w, CASE work[w].op = "delete" -> Task("delete", "unregister", work[w].conn)
                 [] work[w].op \in {"sync", "round", "button", "trim"} -> Idle
                 [] OTHER -> Task(work[w].op, "refresh", work[w].conn))
    /\ UNCHANGED <<file, registered, overlay, pools, round, edits>>

(* The family is unregistered with its first connection, not with its last. *)
Unregister(w) ==
    /\ At(w, "unregister")
    /\ registered' = IF work[w].conn.provider = "zai" THEN registered
                     ELSE [registered EXCEPT !["compat"] = NoEntry]
    /\ Goes(w, [work[w] EXCEPT !.stage = "refresh"])
    /\ UNCHANGED <<store, file, overlay, pools, round, edits>>

Refresh(w) ==
    /\ At(w, "refresh")
    /\ Goes(w, [work[w] EXCEPT !.stage = "rotate", !.snap = store])
    /\ UNCHANGED <<store, file, registered, overlay, pools, round, edits>>

(* A change the upstream's list may depend on is followed by a sync of the *)
(* connection, when it is enabled.                                         *)
Rotate(w) ==
    LET c == work[w].conn
    IN  /\ At(w, "rotate")
        /\ pools' = [pools EXCEPT ![c.provider] = Pool(work[w].snap, c.provider)]
        /\ Goes(w, IF work[w].op \in {"inherit", "create", "update"} /\ c.enabled
                   THEN Task("sync", "begin", c) ELSE Idle)
        /\ UNCHANGED <<store, file, registered, overlay, round, edits>>

----------------------------------------------------------------------------
(* The operator's calls.                                                   *)

Call(w) == At(w, "idle") /\ edits < MaxEdits /\ edits' = edits + 1

(* An existing id is replaced whole: a field the body leaves out is empty. *)
(* The posted connection is enabled, has a key and one model of its own;   *)
(* an update may take either away.  A new account with no list of hidden   *)
(* models takes the masks of its siblings.                                 *)
Create(w) ==
    \E id \in Ids, p \in Providers, asked \in {"absent", "m"} :
        LET body == [id |-> id, provider |-> p, key |-> "k1", enabled |-> TRUE, manual |-> {"m"},
                     synced |-> {}, listed |-> FALSE,
                     hidden |-> IF asked = "m" THEN {"m"} ELSE {}]
        IN  /\ Call(w)
            /\ Goes(w, IF asked = "absent" /\ ~ Has(id) THEN Task("inherit", "look", body)
                       ELSE Task("create", "apply", body))
            /\ UNCHANGED <<store, file, registered, overlay, pools, round>>

Patches(c) ==
    ({[c EXCEPT !.key = k] : k \in {NoKey, "k2"}} \cup {[c EXCEPT !.enabled = e] : e \in BOOLEAN} \cup
     {[c EXCEPT !.hidden = ms] : ms \in SUBSET {"m"}}) \ {c}

Update(w) ==
    \E id \in Ids :
        /\ Has(id)
        /\ \E c \in Patches(Get(id)) :
              /\ Call(w)
              /\ Goes(w, Task(IF c.hidden = Get(id).hidden THEN "update" ELSE "relabel", "apply", c))
              /\ UNCHANGED <<store, file, registered, overlay, pools, round>>

Delete(w) ==
    \E id \in Ids :
        /\ Has(id) /\ Call(w)
        /\ Goes(w, Task("delete", "snapshot", Get(id)))
        /\ UNCHANGED <<store, file, registered, overlay, pools, round>>

DeleteModel(w) ==
    \E id \in Ids :
        /\ Has(id) /\ "m" \in Get(id).manual /\ Call(w)
        /\ Goes(w, Task("trim", "snapshot", [Get(id) EXCEPT !.manual = @ \ {"m"}]))
        /\ UNCHANGED <<store, file, registered, overlay, pools, round>>

(* The dashboard's sync button: the same question, put by the handler.     *)
AskModels(w) ==
    \E id \in Ids :
        /\ Has(id) /\ registered[Get(id).provider].present /\ Call(w)
        /\ Goes(w, Task("button", "asked", Get(id)))
        /\ UNCHANGED <<store, file, registered, overlay, pools, round>>

----------------------------------------------------------------------------
(* Syncs.                                                                  *)

(* The background round asks the connections of one snapshot in turn.      *)
RoundRests == \A w \in Workers : work[w].op # "round"

StartRound ==
    /\ round = <<>> /\ RoundRests
    /\ edits < MaxEdits /\ edits' = edits + 1
    /\ round' = SelectSeq(store, LAMBDA c : c.enabled)
    /\ round' # <<>>
    /\ UNCHANGED <<store, file, registered, overlay, pools, work>>

NextOfRound(w) ==
    /\ round # <<>> /\ RoundRests /\ At(w, "idle")
    /\ Goes(w, Task("round", "begin", Head(round)))
    /\ round' = Tail(round)
    /\ UNCHANGED <<store, file, registered, overlay, pools, edits>>

(* A provider that is no longer registered is not asked.                   *)
Begin(w) ==
    /\ At(w, "begin")
    /\ Goes(w, IF registered[work[w].conn.provider].present
               THEN [work[w] EXCEPT !.stage = "asked"] ELSE Idle)
    /\ UNCHANGED <<store, file, registered, overlay, pools, round, edits>>

(* The answer goes into the copy the worker has, and that into the store.  *)
Answered(w) ==
    /\ At(w, "asked")
    /\ \E ms \in Answers :
          Goes(w, [work[w] EXCEPT !.conn.synced = ms, !.conn.listed = TRUE,
                      !.stage = IF work[w].op = "button" THEN "snapshot" ELSE "apply"])
    /\ UNCHANGED <<store, file, registered, overlay, pools, round, edits>>

Unanswered(w) ==
    /\ At(w, "asked") /\ Goes(w, Idle)
    /\ UNCHANGED <<store, file, registered, overlay, pools, round, edits>>

Calls(w) == Create(w) \/ Update(w) \/ Delete(w) \/ DeleteModel(w) \/ AskModels(w)
Syncs(w) == NextOfRound(w) \/ Begin(w) \/ Answered(w) \/ Unanswered(w)
Writes(w) == Look(w) \/ Apply(w) \/ Snapshot(w) \/ Save(w) \/ Publish(w) \/ Unregister(w)
             \/ Refresh(w) \/ Rotate(w)

ConnNext == Restart \/ StartRound \/ \E w \in Workers : Calls(w) \/ Syncs(w) \/ Writes(w)

ConnSpec == ConnInit /\ [][ConnNext]_connVars

----------------------------------------------------------------------------
(* Properties.                                                             *)

(* The worker makes an account of p that inherits known to all.            *)
Joins(w, p) ==
    /\ work[w].op = "inherit" /\ work[w].conn.provider = p
    /\ At(w, "publish") /\ (work[w].stage)' = "refresh"

(* "A brand-new account of a provider starts from the visibility the       *)
(* operator already chose for that provider's existing accounts": nothing  *)
(* that any account of the provider, in use or not, hid when the new one   *)
(* was made is routable once it joins, whatever else was written between.  *)
JoinsMasked ==
    \A w \in Workers, p \in Providers : Joins(w, p) => Routable(p)' \cap work[w].seen = {}

HiddenStaysHidden == [][JoinsMasked]_connVars

(* "Without this a freshly added account re-exposes every model the        *)
(* operator had already hidden, and the routable set silently widens": an  *)
(* account that joins makes no model routable which an account of its      *)
(* provider hides at that moment.                                          *)
JoinsQuietly ==
    \A w \in Workers, p \in Providers :
        Joins(w, p) => (Routable(p)' \ Routable(p)) \cap HiddenBy(Of(store, p)) = {}

NewAccountsStayHidden == [][JoinsQuietly]_connVars

=============================================================================
