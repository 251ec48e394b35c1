----------------------------- MODULE LocalVolumes -----------------------------
(***************************************************************************)
(* Local volumes and their issues: what reviewers enter by hand for comics  *)
(* ComicVine does not have.                                                *)
(*                                                                         *)
(* An entry is a local_issues row together with the file_matches row of the *)
(* file it was made for.  Deleting a volume deletes its issues, and those  *)
(* the matches that point at them (both foreign keys cascade).  Requests *)
(* run at READ COMMITTED and lock nothing they read; what they write is     *)
(* locked until they commit, and an insert or an update that refers to a    *)
(* volume keeps that volume from being deleted until then.  A statement     *)
(* that waits for such a lock is an action that is not enabled; the         *)
(* statements of a request between which it neither reads nor waits are one *)
(* action with its commit.                                                 *)
(*                                                                         *)
(* The rows of file_matches themselves are in FileMatches.  Names, years    *)
(* and publishers of volumes are left out.                                 *)
(***************************************************************************)
EXTENDS FiniteSets

CONSTANTS
    LocalIds,   \* ids of local volumes
    Entries,    \* ids of local issues
    Numbers,    \* issue numbers, as they are compared: stripped, in lower case
    Edits,      \* requests under way at once
    Nowhere     \* no volume, no number

ASSUME LocalAssumption == Nowhere \notin LocalIds \union Numbers

VARIABLES
    volumes,    \* the rows of local_volumes
    unborn,     \* volumes that were never created
    home,       \* the volume of each local_issues row
    number,     \* its issue_number; of a row not committed yet, the one submitted
    fresh,      \* entries that were never made
    phase,      \* where each request is
    target,     \* the volume it adds to, or merges into
    source,     \* the volume it merges away
    batch,      \* the entries it is to make
    moved,      \* the rows its UPDATE moved to the target, not committed yet
    newer       \* history: rows that came into the volume it looked at, or were
                \* renumbered there, since it did

rows    == <<home, number>>
request == <<phase, target, source, batch, moved>>
localVars    == <<volumes, unborn, home, number, fresh, phase, target, source, batch,
             moved, newer>>

LocalTypeOK ==
    /\ volumes \subseteq LocalIds
    /\ unborn \subseteq LocalIds \ volumes
    /\ home \in [Entries -> LocalIds \union {Nowhere}]
    /\ number \in [Entries -> Numbers \union {Nowhere}]
    /\ fresh \subseteq Entries
    /\ phase \in [Edits -> {"idle", "entry", "group", "attach", "merge", "moved"}]
    /\ target \in [Edits -> LocalIds \union {Nowhere}]
    /\ source \in [Edits -> LocalIds \union {Nowhere}]
    /\ batch \in [Edits -> SUBSET Entries]
    /\ moved \in [Edits -> SUBSET Entries]
    /\ newer \in [Edits -> SUBSET Entries]

-----------------------------------------------------------------------------
(* Rows and locks *)

In(v) == {e \in Entries : home[e] = v}

\* The rows another transaction has updated and not committed.
LockedFor(r) == UNION {moved[q] : q \in Edits \ {r}}

\* Another transaction's uncommitted rows refer to volume v: a DELETE of v waits.
Referred(r, v) == \E q \in Edits \ {r} : moved[q] # {} /\ target[q] = v

\* The volume whose rows a request has looked at and still relies on.
Watched(q) == CASE phase[q] = "moved" -> source[q]
                [] phase[q] = "attach" -> target[q]
                [] OTHER -> Nowhere

\* The history of the other requests after rows E came into v, or changed there.
Arrive(r, E, v) ==
    newer' = [q \in Edits |->
                IF q = r THEN {}
                ELSE IF Watched(q) = v THEN newer[q] \union E ELSE newer[q]]

\* A request ends; entries it did not make can be made by another one.
End(r, unused) ==
    /\ phase' = [phase EXCEPT ![r] = "idle"]
    /\ target' = [target EXCEPT ![r] = Nowhere]
    /\ source' = [source EXCEPT ![r] = Nowhere]
    /\ batch' = [batch EXCEPT ![r] = {}]
    /\ moved' = [moved EXCEPT ![r] = {}]
    /\ fresh' = fresh \union unused

-----------------------------------------------------------------------------
(* Adding entries *)

\* create_local_entry with a new volume, create_local_group: the volume and its
\* entries are inserted in one transaction, their numbers are not compared.
CreateVolume == \E v \in unborn, made \in SUBSET fresh \ {{}} :
    /\ volumes' = volumes \union {v}
    /\ unborn' = unborn \ {v}
    /\ home' = [e \in Entries |-> IF e \in made THEN v ELSE home[e]]
    /\ \E n \in [made -> Numbers \union {Nowhere}] :
          number' = [e \in Entries |-> IF e \in made THEN n[e] ELSE number[e]]
    /\ fresh' = fresh \ made
    /\ UNCHANGED <<request, newer>>

\* create_local_entry and attach_local_group load the volume that was picked.
OpenForm(r, at, entries) == \E v \in volumes, n \in [entries -> Numbers \union {Nowhere}] :
    /\ phase[r] = "idle"
    /\ entries # {} /\ entries \subseteq fresh
    /\ phase' = [phase EXCEPT ![r] = at]
    /\ target' = [target EXCEPT ![r] = v]
    /\ batch' = [batch EXCEPT ![r] = entries]
    /\ number' = [e \in Entries |-> IF e \in entries THEN n[e] ELSE number[e]]
    /\ fresh' = fresh \ entries
    /\ UNCHANGED <<volumes, unborn, home, source, moved, newer>>

OpenEntry(r) == \E e \in Entries : OpenForm(r, "entry", {e})

OpenGroup(r) == \E entries \in SUBSET Entries : OpenForm(r, "group", entries)

\* Mutant: the batch is compared with the target, not within itself.
ConflictMutant(r) == \E e \in batch[r], o \in In(target[r]) :
    number[e] # Nowhere /\ number[e] = number[o]

\* Pass 1 of attach_local_group: a number that the volume has, or that the batch has
\* twice, ends the request.
Conflict(r) == \E e \in batch[r], o \in In(target[r]) \union batch[r] :
    e # o /\ number[e] # Nowhere /\ number[e] = number[o]

CheckNumbers(r) ==
    /\ phase[r] = "group"
    /\ IF Conflict(r)
       THEN End(r, batch[r])
       ELSE /\ phase' = [phase EXCEPT ![r] = "attach"]
            /\ UNCHANGED <<target, source, batch, moved, fresh>>
    /\ UNCHANGED <<volumes, unborn, rows, newer>>

\* The entries are inserted and committed, but for files that were decided
\* meanwhile.  The foreign key fails if the volume is gone.
SaveEntries(r) == \E made \in SUBSET batch[r] \ {{}} :
    /\ phase[r] \in {"entry", "attach"}
    /\ target[r] \in volumes
    /\ home' = [e \in Entries |-> IF e \in made THEN target[r] ELSE home[e]]
    /\ Arrive(r, made, target[r])
    /\ End(r, batch[r] \ made)
    /\ UNCHANGED <<volumes, unborn, number>>

\* update_local_issue: the number may become any, no other is looked at.
Renumber(e) == \E n \in Numbers \union {Nowhere} :
    /\ home[e] # Nowhere
    /\ \A q \in Edits : e \notin moved[q]
    /\ number' = [number EXCEPT ![e] = n]
    /\ newer' = [q \in Edits |->
                   IF Watched(q) = home[e] THEN newer[q] \union {e} ELSE newer[q]]
    /\ UNCHANGED <<volumes, unborn, home, fresh, request>>

-----------------------------------------------------------------------------
(* merge_local_volumes *)

\* Both volumes are loaded.
OpenMerge(r) == \E t, s \in volumes :
    /\ phase[r] = "idle"
    /\ t # s
    /\ phase' = [phase EXCEPT ![r] = "merge"]
    /\ target' = [target EXCEPT ![r] = t]
    /\ source' = [source EXCEPT ![r] = s]
    /\ UNCHANGED <<volumes, unborn, rows, fresh, batch, moved, newer>>

\* Mutant: the DELETE is flushed before the UPDATE, which then finds nothing to move.
MoveMutant(r) ==
    /\ phase[r] = "merge"
    /\ In(source[r]) \intersect LockedFor(r) = {}
    /\ phase' = [phase EXCEPT ![r] = "moved"]
    /\ UNCHANGED <<volumes, unborn, rows, fresh, target, source, batch, moved, newer>>

\* UPDATE local_issues: the rows the source has now, once no other transaction holds
\* one of them.  The foreign key fails if there are any and the target is gone.
Move(r) ==
    /\ phase[r] = "merge"
    /\ In(source[r]) \intersect LockedFor(r) = {}
    /\ In(source[r]) # {} => target[r] \in volumes
    /\ moved' = [moved EXCEPT ![r] = In(source[r])]
    /\ phase' = [phase EXCEPT ![r] = "moved"]
    /\ UNCHANGED <<volumes, unborn, rows, fresh, target, source, batch, newer>>

\* The DELETE of the source, which cascades to the rows that are under it by now,
\* and the commit.
DropSource(r) ==
    /\ phase[r] = "moved"
    /\ ~Referred(r, source[r])
    /\ In(source[r]) \intersect LockedFor(r) = {}
    /\ volumes' = volumes \ {source[r]}
    /\ home' = [e \in Entries |-> IF e \in moved[r] THEN target[r]
                                  ELSE IF home[e] = source[r] THEN Nowhere ELSE home[e]]
    /\ Arrive(r, moved[r], target[r])
    /\ End(r, {})
    /\ UNCHANGED <<unborn, number>>

-----------------------------------------------------------------------------
\* A foreign key that fails, a deadlock that is broken, a lost connection: the
\* transaction is rolled back.
Fails(r) ==
    /\ phase[r] # "idle"
    /\ End(r, batch[r])
    /\ newer' = [newer EXCEPT ![r] = {}]
    /\ UNCHANGED <<volumes, unborn, rows>>

LocalInit ==
    /\ volumes = {} /\ unborn = LocalIds
    /\ home = [e \in Entries |-> Nowhere]
    /\ number = [e \in Entries |-> Nowhere]
    /\ fresh = Entries
    /\ phase = [r \in Edits |-> "idle"]
    /\ target = [r \in Edits |-> Nowhere]
    /\ source = [r \in Edits |-> Nowhere]
    /\ batch = [r \in Edits |-> {}]
    /\ moved = [r \in Edits |-> {}]
    /\ newer = [r \in Edits |-> {}]

LocalNext ==
    \/ CreateVolume
    \/ \E e \in Entries : Renumber(e)
    \/ \E r \in Edits :
          \/ OpenEntry(r) \/ OpenGroup(r) \/ CheckNumbers(r) \/ SaveEntries(r)
          \/ OpenMerge(r) \/ Move(r) \/ DropSource(r) \/ Fails(r)

LocalSpec == LocalInit /\ [][LocalNext]_localVars

-----------------------------------------------------------------------------
(* Properties *)

\* A merge deletes only entries that came into the volume it merges away after it
\* moved that volume's entries: however merges of the same volumes, in both
\* directions and in chains, attaches and edits overlap, an entry that was there
\* goes to the target and keeps its file.
EntriesKept ==
    [][\A e \in Entries :
          home[e] # Nowhere /\ home'[e] = Nowhere =>
             \E r \in Edits :
                phase[r] = "moved" /\ e \in newer[r] /\ home[e] = source[r]]_localVars

\* What attach_local_group is about to insert shares no number with the target, nor
\* within itself, but for entries that came or were renumbered since it looked.
NumbersApart ==
    \A r \in Edits : phase[r] = "attach" =>
       \A e \in batch[r] : \A o \in (In(target[r]) \ newer[r]) \union batch[r] :
          e # o /\ number[e] # Nowhere => number[e] # number[o]

\* Every issue has a volume: no order of inserts, merges and cascades commits an
\* issue whose volume is gone.  The foreign key would refuse it; that the locks
\* its checks take are enough to never get there is what this says.
HomesExist == \A e \in Entries : home[e] # Nowhere => home[e] \in volumes

\* merge_local_volumes, services/local.py: "Every local issue under the source volume
\* is reassigned to the target, then the now-empty source volume is deleted [...]
\* so the files move with their issues."  No entry is lost in a merge.
EntriesSurvive ==
    [][\A e \in Entries : home[e] # Nowhere => home'[e] # Nowhere]_localVars

-----------------------------------------------------------------------------
(* The inductive invariant *)

\* What a request holds, by where it is; what it holds nobody else does.
TargetsHeld ==
    /\ \A r \in Edits :
          /\ batch[r] # {} => phase[r] \in {"entry", "group", "attach"}
          /\ phase[r] \in {"entry", "group", "attach"} => target[r] # Nowhere
          /\ phase[r] \in {"merge", "moved"} =>
                target[r] # Nowhere /\ source[r] # Nowhere /\ target[r] # source[r]
          /\ {target[r], source[r]} \intersect unborn = {}
          /\ newer[r] # {} => phase[r] \in {"attach", "moved"}
    /\ \A e \in Entries : e \in fresh => home[e] = Nowhere
    /\ \A r \in Edits : \A e \in batch[r] : home[e] = Nowhere /\ e \notin fresh
    /\ \A r, q \in Edits : r # q => batch[r] \intersect batch[q] = {}

\* Rows that an UPDATE moved stay where they were, and the volume they go to stays,
\* until it commits; no two requests hold the same row.
RowsHeld ==
    /\ \A r \in Edits : moved[r] # {} => phase[r] = "moved" /\ target[r] \in volumes
    /\ \A r \in Edits : \A e \in moved[r] : home[e] = source[r]
    /\ \A r, q \in Edits : r # q => moved[r] \intersect moved[q] = {}

\* What is under a source after the UPDATE was moved by it, or came later.
SourceEmptied ==
    \A r \in Edits : phase[r] = "moved" => In(source[r]) \subseteq moved[r] \union newer[r]

LocalIInv == LocalTypeOK /\ TargetsHeld /\ RowsHeld /\ SourceEmptied /\ HomesExist /\ NumbersApart

=============================================================================
