----------------------------- MODULE LaneRoster -----------------------------
(***************************************************************************)
(* The free lane's roster: the directory the upstream publishes, what the  *)
(* price catalogue says of its ids, and what this gateway has learned from *)
(* its own traffic (denials, the lane's gate, the workspace's consent, who *)
(* answered last).  Everything is one value that a change copies, alters   *)
(* and puts back under two separate locks, so two changes at once keep     *)
(* only one of them.  Deadlines and stamps are absolute in the code; here  *)
(* they are ticks left and ticks of age, in every copy of the value.       *)
(***************************************************************************)
EXTENDS Integers, Sequences, SequencesExt

CONSTANTS
    Tasks,          \* threads that can change the roster at the same time
    MaxVerdicts     \* bound: upstream answers since the first start

(* An id on the verified list that the catalogue calls deprecated, a free  *)
(* name it does not know, one it says costs money and one on the blocklist. *)
Ids == {"pickle", "nova-free", "paid-free", "exo-free"}
StaticVerified == {"pickle"}
Blocklist == {"exo-free"}
Metadata == [m \in Ids |-> CASE m = "pickle" -> "deprecated"
                             [] m = "paid-free" -> "paid"
                             [] OTHER -> "unknown"]
FreeNames == Ids \ {"pickle"}
Directories == {FreeNames, Ids}

Learnable == {"nova-free"}       \* the ids requests are made for

(* Ticks, in the order of the code's times: a rate limit lasts a minute, a *)
(* delisting an hour; region and protocol verdicts differ by lasting more. *)
Ttl == [RateLimited |-> 1, Gone |-> 2]
GateTtl == 1
ConsentTtl == 1
Cutoff == 0         \* a restart forgets the stamps that are older
Oldest == 1         \* age at which an id counts as new no more
Never == -1

VARIABLES
    state,          \* the shared value
    task,           \* each task's copy and the changes it still has to make
    disk,           \* the cache file
    verdicts

rosterVars == <<state, task, disk, verdicts>>

NoStamps == [m \in Learnable |-> Never]
Fresh == [live |-> {}, listed |-> FALSE, error |-> FALSE, denied |-> NoStamps,
          seen |-> NoStamps, verified |-> NoStamps, gate |-> 0, consent |-> 0]

----------------------------------------------------------------------------
(* What is read from the value.                                            *)

\* Slip: a denial holds as long as its entry is there.
DeniedForGood(s, m) == m \in Blocklist \/ (m \in Learnable /\ s.denied[m] # Never)

IsDenied(s, m) == m \in Blocklist \/ (m \in Learnable /\ s.denied[m] > 0)

MetadataAllows(m) ==
    CASE Metadata[m] = "deprecated" -> m \in StaticVerified
      [] Metadata[m] = "free" -> TRUE
      [] Metadata[m] = "paid" -> FALSE
      [] OTHER -> m \in FreeNames

Allowed(s, m) ==
    ~ IsDenied(s, m) /\
    (MetadataAllows(m) \/ (Metadata[m] # "deprecated" /\ m \in StaticVerified))

Source(s) == IF s.listed /\ s.live # {} THEN s.live ELSE StaticVerified
Exposed(s) == {m \in Source(s) : Allowed(s, m)}

Keyed(s) == s.consent = 0

Status(s) == IF ~ s.listed THEN IF s.error THEN "error" ELSE "pending"
             ELSE IF s.error THEN "stale" ELSE "ready"

(* The rank of an id: newness and verification, which only ids seen in a   *)
(* directory have; ties go by name.                                        *)
Recent(age, window) == IF age = Never \/ age >= window THEN 0 ELSE window - age
Score(s, m) == IF m \in Learnable
               THEN 4 * Recent(s.seen[m], Oldest) + Recent(s.verified[m], Oldest) ELSE 0
ByName == <<"exo-free", "nova-free", "paid-free", "pickle">>
Before(s, m, n) == \/ Score(s, m) > Score(s, n)
                   \/ Score(s, m) = Score(s, n) /\ \E i, j \in DOMAIN ByName :
                                                       i < j /\ ByName[i] = m /\ ByName[j] = n

(* The automatic chain leaves a parked lane out.                           *)
AutoFree(s) == IF s.gate > 0 THEN <<>>
               ELSE SetToSortSeq(Exposed(s), LAMBDA m, n : Before(s, m, n))

----------------------------------------------------------------------------
(* Changes of the value, one per closure handed to write_state.            *)

Installed(s, ids) ==
    [s EXCEPT !.live = ids, !.listed = TRUE, !.error = FALSE,
              !.seen = [m \in Learnable |-> IF m \notin ids THEN Never
                                            ELSE IF s.seen[m] = Never THEN 0 ELSE s.seen[m]]]

Succeeded(s, m) ==
    [s EXCEPT !.verified[m] = 0, !.denied[m] = Never,
              !.seen[m] = IF @ = Never THEN 0 ELSE @]

Changed(s, c) ==
    CASE c.do = "count" -> s
      [] c.do = "success" -> Succeeded(s, c.id)
      [] c.do = "forgive" -> [s EXCEPT !.denied[c.id] = Never]
      [] c.do = "deny" -> [s EXCEPT !.denied[c.id] = Ttl[c.why], !.verified[c.id] = Never]
      [] c.do = "deny go" -> [s EXCEPT !.denied[c.id] = Ttl[c.why]]
      [] c.do = "gate" -> [s EXCEPT !.gate = IF @ > GateTtl THEN @ ELSE GateTtl]
      [] c.do = "consent" -> [s EXCEPT !.consent = ConsentTtl]
      [] c.do = "error" -> [s EXCEPT !.error = TRUE]
      [] c.do = "install" -> Installed(s, c.ids)
      [] c.do = "prune" -> [s EXCEPT !.denied = [m \in Learnable |-> IF @[m] = 0 THEN Never ELSE @[m]]]

Do(what, m) == [do |-> what, id |-> m]
Deny(what, m, why) == [do |-> what, id |-> m, why |-> why]
Count == [do |-> "count"]

(* What a verdict changes, in order.  The Go tier shares the denials and   *)
(* counts nothing; of the lane's own failures only some are the model's.   *)
Learned(m, tier, answer) ==
    CASE answer = "ok" -> <<Do(IF tier = "go" THEN "forgive" ELSE "success", m)>>
      [] answer \in DOMAIN Ttl ->
            IF tier = "go" THEN <<Deny("deny go", m, answer)>> ELSE <<Count, Deny("deny", m, answer)>>
      [] tier = "go" -> <<>>
      [] answer \in {"gate", "consent"} -> <<Count, Do(answer, m)>>
      [] OTHER -> <<Count>>

----------------------------------------------------------------------------
Idle == [copy |-> Fresh, todo |-> <<>>, saves |-> FALSE]

RosterInit ==
    /\ state = Fresh /\ disk = Fresh
    /\ task = [t \in Tasks |-> Idle]
    /\ verdicts = 0

Starts(t, todo, saves) ==
    /\ task[t].todo = <<>> /\ ~ task[t].saves
    /\ todo # <<>>
    /\ task' = [task EXCEPT ![t] = [copy |-> state, todo |-> todo, saves |-> saves]]
    /\ UNCHANGED <<state, disk>>

Verdict(t) ==
    /\ verdicts < MaxVerdicts /\ verdicts' = verdicts + 1
    /\ \E m \in Learnable, tier \in {"zen", "go"},
          answer \in DOMAIN Ttl \cup {"ok", "gate", "consent", "other"} :
             Starts(t, Learned(m, tier, answer), FALSE)

(* The background refresh and its failure; only a success is saved.        *)
Refresh(t) ==
    /\ \A u \in Tasks : ~ task[u].saves
    /\ \/ \E ids \in Directories : Starts(t, <<[do |-> "install", ids |-> ids]>>, TRUE)
       \/ Status(state) \in {"pending", "ready"} /\ Starts(t, <<[do |-> "error"]>>, FALSE)
    /\ UNCHANGED verdicts

(* The status endpoint drops the denials that have run out.                *)
Prune(t) ==
    /\ \E m \in Learnable : state.denied[m] = 0
    /\ Starts(t, <<[do |-> "prune"]>>, FALSE)
    /\ UNCHANGED verdicts

(* The copy is put back, and the next change takes a copy of its own.      *)
PutBack(t) ==
    /\ task[t].todo # <<>>
    /\ state' = Changed(task[t].copy, Head(task[t].todo))
    /\ task' = [task EXCEPT ![t].todo = Tail(@),
                            ![t].copy = IF Tail(task[t].todo) = <<>> THEN Fresh ELSE state']
    /\ UNCHANGED <<disk, verdicts>>

Save(t) ==
    /\ task[t].todo = <<>> /\ task[t].saves
    /\ disk' = [state EXCEPT !.consent = 0, !.error = FALSE]
    /\ task' = [task EXCEPT ![t] = Idle]
    /\ UNCHANGED <<state, verdicts>>

Older(stamps) == [m \in Learnable |-> IF stamps[m] = Never \/ stamps[m] = Oldest THEN stamps[m] ELSE stamps[m] + 1]
Sooner(left) == IF left > 0 THEN left - 1 ELSE left
Aged(s) == [s EXCEPT !.seen = Older(@), !.verified = Older(@), !.gate = Sooner(@),
                     !.consent = Sooner(@), !.denied = [m \in Learnable |-> Sooner(@[m])]]

Tick ==
    /\ state' = Aged(state) /\ disk' = Aged(disk)
    /\ task' = [t \in Tasks |-> [task[t] EXCEPT !.copy = Aged(@)]]
    /\ UNCHANGED verdicts

(* A start reads the file and forgets the stamps that have grown old.      *)
Kept(stamps) == [m \in Learnable |-> IF stamps[m] > Cutoff THEN Never ELSE stamps[m]]
Restart ==
    /\ state' = [disk EXCEPT !.seen = Kept(@), !.verified = Kept(@)]
    /\ task' = [t \in Tasks |-> Idle]
    /\ UNCHANGED <<disk, verdicts>>

RosterNext ==
    \/ Tick \/ Restart
    \/ \E t \in Tasks : Verdict(t) \/ Refresh(t) \/ Prune(t) \/ PutBack(t) \/ Save(t)

(* The clock runs and a thread that has taken its copy goes on.            *)
RosterFairness == WF_rosterVars(Tick) /\ WF_rosterVars(\E t \in Tasks : PutBack(t))

----------------------------------------------------------------------------
(* Properties.                                                             *)

(* "Learning the verdict here is what lets the roster self-heal: a region- *)
(* blocked or delisted model leaves at once and comes back when its denial *)
(* expires": whatever the verdicts were and whichever of them were lost,   *)
(* every id that is free is served again, keyed calls are tried again and  *)
(* the automatic chain has the roster back.                                *)
RosterHeals ==
    []<>(/\ \A m \in Learnable : Allowed(state, m)
         /\ Keyed(state)
         /\ ToSet(AutoFree(state)) = Exposed(state) /\ Exposed(state) # {})
=============================================================================
