------------------------------ MODULE StateFile ------------------------------
(***************************************************************************)
(* How the gateway's JSON files are written: the free lane's accounting    *)
(* and its session memo by a flusher, with a dirty flag and a lock; the    *)
(* connections, API keys and the password record by the handlers that      *)
(* change them, with the same steps and no lock.  A save serialises a      *)
(* snapshot into the file's one temporary name and renames it into place.  *)
(*                                                                         *)
(* Contents are numbered by the edits that made them.  A write over bytes  *)
(* another writer left may leave a tail of them behind: such a file, like  *)
(* an empty one, does not parse.                                           *)
(***************************************************************************)
EXTENDS Integers

CONSTANTS
    Writers,        \* tasks that may save at the same time
    Inodes,         \* files that can exist
    None,           \* no file
    Locked,         \* is there a lock around a save?
    MaxEdits        \* bound: edits since the file was read

ASSUME FileAssumption == None \notin Inodes /\ MaxEdits \in Nat /\ Locked \in BOOLEAN

Empty == -1
Torn == -2

VARIABLES
    memory,     \* edits the program has seen
    unsaved,    \* are there edits that no save has taken?
    target,     \* inode of the file
    tmp,        \* inode of the temporary name, or None
    content,    \* what each inode holds
    save        \* each writer's save: phase, snapshot and open file

fileVars == <<memory, unsaved, target, tmp, content, save>>

NoSave == [phase |-> "idle", taken |-> 0, fd |-> None]
SavePhases == {"idle", "open", "write", "rename"}

\* What a restart reads: a file that does not parse is as good as none.
Parsed(c) == IF c >= 0 THEN c ELSE 0
Durable == Parsed(content[target])

FileInit ==
    /\ memory = 0 /\ unsaved = FALSE
    /\ target \in Inodes /\ tmp = None
    /\ content = [i \in Inodes |-> IF i = target THEN 0 ELSE Empty]
    /\ save = [w \in Writers |-> NoSave]

Edit ==
    /\ memory < MaxEdits
    /\ memory' = memory + 1 /\ unsaved' = TRUE
    /\ UNCHANGED <<target, tmp, content, save>>

(* The flag is cleared with the snapshot, under the state's own lock.      *)
Take(w) ==
    /\ save[w].phase = "idle" /\ unsaved
    /\ Locked => \A v \in Writers : save[v].phase = "idle"
    /\ unsaved' = FALSE
    /\ save' = [save EXCEPT ![w] = [phase |-> "open", taken |-> memory, fd |-> None]]
    /\ UNCHANGED <<memory, target, tmp, content>>

\* Slip: the file is written where it stands.
OpenInPlace(w) ==
    /\ save[w].phase = "open"
    /\ tmp' = target
    /\ content' = [content EXCEPT ![target] = Empty]
    /\ save' = [save EXCEPT ![w].phase = "write", ![w].fd = target]
    /\ UNCHANGED <<memory, unsaved, target>>

(* Create or truncate the temporary file.                                  *)
Open(w) ==
    /\ save[w].phase = "open"
    /\ \E i \in Inodes \ {target} :
          /\ IF tmp # None THEN i = tmp ELSE \A v \in Writers : save[v].fd # i
          /\ tmp' = i
          /\ content' = [content EXCEPT ![i] = Empty]
          /\ save' = [save EXCEPT ![w].phase = "write", ![w].fd = i]
    /\ UNCHANGED <<memory, unsaved, target>>

(* Every writer writes from the start of the file it has open.             *)
Write(w) ==
    /\ save[w].phase = "write"
    /\ \E c \in IF content[save[w].fd] = Empty THEN {save[w].taken} ELSE {save[w].taken, Torn} :
          content' = [content EXCEPT ![save[w].fd] = c]
    /\ save' = [save EXCEPT ![w].phase = "rename"]
    /\ UNCHANGED <<memory, unsaved, target, tmp>>

(* The temporary name may be gone: another writer has renamed it.          *)
Rename(w) ==
    /\ save[w].phase = "rename" /\ tmp # None
    /\ target' = tmp /\ tmp' = None
    /\ save' = [save EXCEPT ![w] = NoSave]
    /\ UNCHANGED <<memory, unsaved, content>>

\* Slip: a save that failed is forgotten.
SaveFailsQuietly(w) ==
    /\ save[w].phase # "idle"
    /\ IF save[w].phase = "write"
       THEN content' = [content EXCEPT ![save[w].fd] = Torn] ELSE UNCHANGED content
    /\ save' = [save EXCEPT ![w] = NoSave]
    /\ UNCHANGED <<memory, unsaved, target, tmp>>

(* No space, no permission, no temporary file: the flag is set again.      *)
SaveFails(w) ==
    /\ save[w].phase # "idle"
    /\ IF save[w].phase = "write"
       THEN content' = [content EXCEPT ![save[w].fd] = Torn] ELSE UNCHANGED content
    /\ unsaved' = TRUE
    /\ save' = [save EXCEPT ![w] = NoSave]
    /\ UNCHANGED <<memory, target, tmp>>

(* A stop at any point, and the start that follows it.                     *)
Stop ==
    /\ memory' = Durable /\ unsaved' = FALSE
    /\ save' = [w \in Writers |-> NoSave]
    /\ UNCHANGED <<target, tmp, content>>

Saves(w) == Take(w) \/ Open(w) \/ Write(w) \/ Rename(w)

FileNext == Edit \/ Stop \/ \E w \in Writers : Saves(w) \/ SaveFails(w)

\* The flusher wakes every two seconds, and the disk does not fail for ever.
FileFairness ==
    /\ WF_fileVars(\E w \in Writers : Saves(w))
    /\ <>[][~ \E w \in Writers : SaveFails(w)]_fileVars

FileSpec == FileInit /\ [][FileNext]_fileVars

-----------------------------------------------------------------------------

FileTypeOK ==
    /\ memory \in Nat /\ unsaved \in BOOLEAN
    /\ target \in Inodes /\ tmp \in (Inodes \cup {None}) \ {target}
    /\ content \in [Inodes -> Nat \cup {Empty, Torn}]
    /\ save \in [Writers -> [phase : SavePhases, taken : Nat, fd : Inodes \cup {None}]]

(* A file is replaced whole or not at all: whatever writers race and       *)
(* wherever a save or the program stops, the file parses ("so a crash      *)
(* never truncates it").                                                   *)
TargetIsWhole == content[target] >= 0

(* When no save runs and none is due, the file holds what the program      *)
(* goes by: no edit made during a save, and no failed save, is forgotten.  *)
CleanMeansSaved ==
    (~unsaved /\ \A w \in Writers : save[w].phase = "idle") => Durable = memory

(* The file implements a durable value: see DurableValue.                  *)
D == INSTANCE DurableValue WITH value <- memory, durable <- Durable
ImplementsDurableValue == D!DurableSpec

(* Every edit reaches the disk, though saves fail, unless a stop comes     *)
(* first and takes it back.                                                *)
EditsReachDisk == \A n \in 1 .. MaxEdits : []<>(memory < n \/ Durable >= n)

=============================================================================
