------------------------------- MODULE Scanner -------------------------------
(***************************************************************************)
(* The library scanner: how the files and file_locations tables follow what *)
(* is on disk.                                                             *)
(*                                                                         *)
(* A files row stands for a content, by its sha256; a file_locations row   *)
(* for a path, and says which content was last hashed there.  A scan walks *)
(* every configured library (phase 1) and then reconciles the locations it *)
(* did not see (phase 2).  The disk changes under it at any time, the scan *)
(* job may be killed between any two commits, and only a later scan can    *)
(* repair what it left.                                                    *)
(*                                                                         *)
(* The scan queue has one worker, so one scan runs at a time, and nothing  *)
(* else writes locations: the steps of a file that only touch the database *)
(* are one action up to the commit.  Library roots do not contain one      *)
(* another.  The file_errors table is left out, and so is _visited_paths,   *)
(* which is written and never read.                                        *)
(***************************************************************************)
EXTENDS Naturals, FiniteSets

CONSTANTS
    Paths,       \* archive paths under the library roots
    Libraries,   \* library roots
    LibraryOf,   \* the root each path is under
    Contents,    \* contents of a file, told apart by their sha256
    Corrupt,     \* the contents that do not open as an archive
    Malformed,   \* the contents whose ComicInfo.xml does not parse
    Size,        \* the size of each content
    Mtimes,      \* bound: modification times
    MaxChanges,  \* bound: changes of the disk, the mounts and the settings
    MaxFaults,   \* bound: I/O errors, and scan jobs killed
    None         \* no file, no row, no scan

ASSUME ScannerAssumption ==
    /\ LibraryOf \in [Paths -> Libraries]
    /\ Corrupt \subseteq Contents
    /\ Malformed \subseteq Contents \ Corrupt
    /\ Size \in [Contents -> Nat]
    /\ {MaxChanges, MaxFaults} \subseteq Nat
    /\ None \notin Paths \union Contents

\* None is not a row, a stat() or a file either.
ASSUME NoneAssumption ==
    /\ None \notin [size : Nat, meta : Contents]
    /\ None \notin [size : Nat, mtime : Mtimes]
    /\ None \notin [content : Contents, mtime : Mtimes]
    /\ None \notin [file : Contents, mtime : Mtimes, missing : BOOLEAN]

VARIABLES
    disk,        \* the file at each path: its content and modification time
    mounted,     \* the library roots that exist
    configured,  \* app_settings.library_paths
    files,       \* the files row of each content: size and where its other
                 \* columns were read from
    loc,         \* the file_locations row of each path
    seen,        \* the rows whose last_seen_at is the start of this scan
    pc,          \* where the scan is
    scope,       \* library_paths as the scan read them
    roots,       \* the roots of scope it has still to visit
    unlisted,    \* paths of the root being walked whose directory is not listed
    listed,      \* paths of the directory listed last, still to process
    cur,         \* the path being processed
    stat,        \* its size and modification time, as stat() returned them
    sha,         \* its sha256
    fresh,       \* the rows inserted by this scan: _new_locations_by_file_id
    enqueued,    \* history: the files a match job was enqueued for
    walked,      \* history: the roots this scan walked
    failed,      \* history: the paths an I/O error hit in this scan
    touched,     \* history: the paths that changed since this scan started
    torn,        \* history: the files stored from a path that had changed
    changes,     \* bound: counts the environment's changes
    faults       \* bound: counts I/O errors and killed jobs

world == <<disk, mounted, configured>>
tables == <<files, loc, seen, enqueued>>
walk == <<scope, roots, unlisted, listed, walked>>
step == <<cur, stat, sha>>
notes == <<fresh, failed>>
bounds == <<changes, faults>>
vars == <<world, tables, pc, walk, step, notes, touched, torn, bounds>>

-----------------------------------------------------------------------------
(* What is on disk and what the tables say of it *)

OnDisk(p) == disk[p] # None /\ LibraryOf[p] \in mounted

Readable(p) == OnDisk(p) /\ disk[p].content \notin Corrupt

Current(p) == loc[p] # None /\ ~loc[p].missing

Under(someRoots) == {p \in Paths : LibraryOf[p] \in someRoots}

Stat(p) == [size |-> Size[disk[p].content], mtime |-> disk[p].mtime]

\* Mutant: the fast path is taken for a row that is marked missing, too.
UnchangedMutant(p, s) ==
    /\ loc[p] # None
    /\ files[loc[p].file].size = s.size
    /\ loc[p].mtime = s.mtime

\* The fast path's test: the path is known, not missing, and neither its size nor
\* its modification time differ from what the tables say.
Unchanged(p, s) ==
    /\ Current(p)
    /\ files[loc[p].file].size = s.size
    /\ loc[p].mtime = s.mtime

-----------------------------------------------------------------------------
Init ==
    /\ disk = [p \in Paths |-> None]
    /\ mounted = Libraries
    /\ configured = Libraries
    /\ files = [c \in Contents |-> None]
    /\ loc = [p \in Paths |-> None]
    /\ seen = {}
    /\ pc = "idle"
    /\ scope = {} /\ roots = {} /\ unlisted = {} /\ listed = {} /\ walked = {}
    /\ cur = None /\ stat = None /\ sha = None
    /\ fresh = {} /\ failed = {}
    /\ enqueued = {}
    /\ touched = {} /\ torn = {}
    /\ changes = 0 /\ faults = 0

-----------------------------------------------------------------------------
(* The world outside *)

Change(paths) ==
    /\ changes < MaxChanges
    /\ changes' = changes + 1
    /\ touched' = touched \union paths
    /\ UNCHANGED <<tables, pc, walk, step, notes, torn, faults>>

\* A file is added or overwritten.
Write(p) ==
    /\ LibraryOf[p] \in mounted
    /\ \E c \in Contents, m \in Mtimes :
        disk' = [disk EXCEPT ![p] = [content |-> c, mtime |-> m]]
    /\ UNCHANGED <<mounted, configured>>
    /\ Change({p})

Remove(p) ==
    /\ OnDisk(p)
    /\ disk' = [disk EXCEPT ![p] = None]
    /\ UNCHANGED <<mounted, configured>>
    /\ Change({p})

\* A file is moved; its modification time moves with it.
Move(p, q) ==
    /\ OnDisk(p) /\ p # q
    /\ LibraryOf[q] \in mounted
    /\ disk' = [disk EXCEPT ![q] = disk[p], ![p] = None]
    /\ UNCHANGED <<mounted, configured>>
    /\ Change({p, q})

\* A network share goes away, or comes back.
Mount(l) ==
    /\ mounted' = IF l \in mounted THEN mounted \ {l} ELSE mounted \union {l}
    /\ UNCHANGED <<disk, configured>>
    /\ Change(Under({l}))

\* set_library_paths: an admin edits the list of libraries.
Configure(l) ==
    /\ configured' = IF l \in configured THEN configured \ {l} ELSE configured \union {l}
    /\ UNCHANGED <<disk, mounted>>
    /\ Change({})

-----------------------------------------------------------------------------
(* Phase 1 *)

\* scan_all_libraries takes the time and reads the settings.
StartScan ==
    /\ pc \in {"idle", "done"}
    /\ configured # {}
    /\ pc' = "walk"
    /\ scope' = configured
    /\ roots' = configured
    /\ seen' = {} /\ fresh' = {}
    /\ walked' = {} /\ failed' = {} /\ touched' = {}
    /\ UNCHANGED <<world, files, loc, enqueued, unlisted, listed, step, torn, bounds>>

\* The next library; a root that does not exist is skipped.
OpenLibrary(l) ==
    /\ pc = "walk"
    /\ unlisted = {} /\ listed = {}
    /\ l \in roots
    /\ roots' = roots \ {l}
    /\ \/ /\ l \in mounted
          /\ walked' = walked \union {l}
          /\ unlisted' = Under({l})
       \/ /\ l \notin mounted
          /\ UNCHANGED <<walked, unlisted>>
    /\ UNCHANGED <<world, tables, pc, scope, listed, step, notes, touched, torn, bounds>>

\* os.walk lists one directory, holding the paths of D, once the files of the
\* last one are processed.
ListDirectory(D) ==
    /\ pc = "walk"
    /\ listed = {}
    /\ D # {} /\ D \subseteq unlisted
    /\ unlisted' = unlisted \ D
    /\ listed' = {p \in D : OnDisk(p)}
    /\ UNCHANGED <<world, tables, pc, scope, roots, walked, step, notes, touched, torn, bounds>>

\* _process_one_file: stat, look the path up, and take the fast path or go on to
\* hash the file.  The file may be gone since its directory was listed.
Visit(p) ==
    /\ pc = "walk"
    /\ p \in listed
    /\ listed' = listed \ {p}
    /\ \/ /\ ~OnDisk(p)
          /\ failed' = failed \union {p}
          /\ UNCHANGED <<seen, pc, step>>
       \/ /\ OnDisk(p)
          /\ Unchanged(p, Stat(p))
          /\ seen' = seen \union {p}
          /\ UNCHANGED <<pc, step, failed>>
       \/ /\ OnDisk(p)
          /\ ~Unchanged(p, Stat(p))
          /\ pc' = "hash"
          /\ cur' = p /\ stat' = Stat(p)
          /\ UNCHANGED <<seen, sha, failed>>
    /\ UNCHANGED <<world, files, loc, enqueued, scope, roots, unlisted, walked, fresh, touched,
                   torn, bounds>>

NextFile ==
    /\ pc' = "walk"
    /\ cur' = None /\ stat' = None /\ sha' = None

\* sha256_file.  An error is recorded and the walk goes on.
Hash ==
    /\ pc = "hash"
    /\ \/ /\ OnDisk(cur)
          /\ pc' = "store"
          /\ sha' = disk[cur].content
          /\ UNCHANGED <<cur, stat, failed>>
       \/ /\ ~OnDisk(cur)
          /\ failed' = failed \union {cur}
          /\ NextFile
    /\ UNCHANGED <<world, tables, walk, fresh, touched, torn, bounds>>

\* Mutant: the row of a known path keeps pointing at the file it had.
AttachMutant(c) ==
    loc' = [loc EXCEPT ![cur] =
        [file |-> IF loc[cur] = None THEN c ELSE loc[cur].file,
         mtime |-> stat.mtime, missing |-> FALSE]]

\* _attach_location: insert the row of the path, or point it at the file.
Attach(c) ==
    loc' = [loc EXCEPT ![cur] = [file |-> c, mtime |-> stat.mtime, missing |-> FALSE]]

\* Mutant: a known content gets a match job again.
StoreFileMutant ==
    /\ Readable(cur)
    /\ disk[cur].content \in Malformed => loc[cur] = None
    /\ Attach(sha)
    /\ seen' = seen \union {cur}
    /\ fresh' = IF loc[cur] = None THEN fresh \union {cur} ELSE fresh
    /\ files' = IF files[sha] # None THEN files
                ELSE [files EXCEPT ![sha] = [size |-> stat.size, meta |-> disk[cur].content]]
    /\ torn' = IF cur \in touched THEN torn \union {sha} ELSE torn
    /\ pc' = "enqueue"
    /\ UNCHANGED <<step, unlisted, listed, roots, failed>>

\* Mutant: new content at a known path overwrites the files row of the old one.
StoreInPlaceMutant ==
    LET row == IF loc[cur] = None THEN sha ELSE loc[cur].file
    IN /\ Readable(cur)
       /\ disk[cur].content \in Malformed => loc[cur] = None
       /\ Attach(row)
       /\ seen' = seen \union {cur}
       /\ fresh' = IF loc[cur] = None THEN fresh \union {cur} ELSE fresh
       /\ files' = IF loc[cur] = None /\ files[sha] # None THEN files
                   ELSE [files EXCEPT ![row] = [size |-> stat.size, meta |-> disk[cur].content]]
       /\ torn' = IF cur \in touched THEN torn \union {row} ELSE torn
       /\ IF files[row] = None THEN pc' = "enqueue" /\ UNCHANGED step ELSE NextFile
       /\ UNCHANGED <<unlisted, listed, roots, failed>>

\* The archive is read and the file and its location are stored in one commit.  A
\* new content gets a files row, with columns read from what is at the path by now.
StoreFile ==
    /\ Readable(cur)
    /\ disk[cur].content \in Malformed => loc[cur] = None
    /\ Attach(sha)
    /\ seen' = seen \union {cur}
    /\ fresh' = IF loc[cur] = None THEN fresh \union {cur} ELSE fresh
    /\ \/ /\ files[sha] = None
          /\ files' = [files EXCEPT ![sha] = [size |-> stat.size, meta |-> disk[cur].content]]
          /\ torn' = IF cur \in touched THEN torn \union {sha} ELSE torn
          /\ pc' = "enqueue"
          /\ UNCHANGED step
       \/ /\ files[sha] # None
          /\ UNCHANGED <<files, torn>>
          /\ NextFile
    /\ UNCHANGED <<unlisted, listed, roots, failed>>

\* The archive does not open: the error is recorded and the walk goes on.
RefuseFile ==
    /\ ~Readable(cur)
    /\ failed' = IF OnDisk(cur) THEN failed ELSE failed \union {cur}
    /\ NextFile
    /\ UNCHANGED <<files, loc, seen, fresh, torn, unlisted, listed, roots>>

EndScan(how) ==
    /\ pc' = how
    /\ cur' = None /\ stat' = None /\ sha' = None
    /\ roots' = {} /\ unlisted' = {} /\ listed' = {}

\* A malformed ComicInfo.xml at a known path: record_error expires the location
\* held by the session, reading it then raises, and nothing catches that.
AbortAtMalformed ==
    /\ Readable(cur)
    /\ disk[cur].content \in Malformed
    /\ loc[cur] # None
    /\ EndScan("idle")
    /\ UNCHANGED <<files, loc, seen, fresh, failed, torn>>

Store ==
    /\ pc = "store"
    /\ StoreFile \/ RefuseFile \/ AbortAtMalformed
    /\ UNCHANGED <<world, enqueued, scope, walked, touched, bounds>>

\* The match job of a new file, once its row is committed.
Enqueue ==
    /\ pc = "enqueue"
    /\ enqueued' = enqueued \union {sha}
    /\ NextFile
    /\ UNCHANGED <<world, files, loc, seen, walk, notes, touched, torn, bounds>>

-----------------------------------------------------------------------------
(* Phase 2 *)

\* The current rows under the libraries of the settings that this scan did not
\* refresh.
Stale == {p \in Under(scope) : Current(p) /\ p \notin seen}

RowsOf(c, S) == {p \in S : loc[p] # None /\ loc[p].file = c}

\* A clean move: one row of the file became stale, one was inserted, and there is
\* no other current one.
MovedTo(p, q) ==
    /\ p \in Stale
    /\ RowsOf(loc[p].file, fresh) = {q}
    /\ RowsOf(loc[p].file, Stale) = {p}
    /\ {r \in RowsOf(loc[p].file, Paths) : Current(r)} = {p, q}

Moved(p) == \E q \in Paths : MovedTo(p, q)

\* The old row takes over the path of the new one, which is deleted; any other
\* stale row is marked missing.
Reconcile ==
    /\ pc = "walk"
    /\ roots = {} /\ unlisted = {} /\ listed = {}
    /\ EndScan("done")
    /\ loc' = [p \in Paths |->
                 IF Moved(p) THEN None
                 ELSE IF p \in Stale THEN [loc[p] EXCEPT !.missing = TRUE]
                 ELSE loc[p]]
    /\ UNCHANGED <<world, files, seen, enqueued, scope, walked, notes, touched, torn, bounds>>

-----------------------------------------------------------------------------
(* Faults *)

Fault ==
    /\ faults < MaxFaults
    /\ faults' = faults + 1
    /\ UNCHANGED <<world, files, loc, seen, enqueued, scope, walked, fresh, touched, torn, changes>>

\* stat(), hashing or reading raises OSError although the file is there: its
\* permissions, or the share.
ReadError ==
    /\ \/ \E p \in listed :
            /\ pc = "walk"
            /\ listed' = listed \ {p}
            /\ failed' = failed \union {p}
            /\ UNCHANGED <<pc, step>>
       \/ /\ pc \in {"hash", "store"}
          /\ failed' = failed \union {cur}
          /\ NextFile
          /\ UNCHANGED listed
    /\ UNCHANGED <<roots, unlisted>>
    /\ Fault

\* The job times out, its worker dies, or the database or Redis does not answer.
Kill ==
    /\ pc \notin {"idle", "done"}
    /\ EndScan("idle")
    /\ UNCHANGED failed
    /\ Fault

-----------------------------------------------------------------------------
WalkStep ==
    \/ \E l \in Libraries : OpenLibrary(l)
    \/ \E D \in SUBSET Paths : ListDirectory(D)
    \/ \E p \in Paths : Visit(p)
    \/ Hash \/ Store \/ Reconcile

ScanStep == WalkStep \/ Enqueue

Environment ==
    \/ \E p \in Paths : Write(p) \/ Remove(p) \/ \E q \in Paths : Move(p, q)
    \/ \E l \in Libraries : Mount(l) \/ Configure(l)

Next == StartScan \/ ScanStep \/ Environment \/ ReadError \/ Kill

Spec == Init /\ [][Next]_vars

\* rq-scheduler enqueues a scan every interval, forever, and the scan worker runs
\* it; with finitely many changes and faults the library is then left alone.
FairSpec == Spec /\ WF_vars(StartScan) /\ WF_vars(ScanStep)

-----------------------------------------------------------------------------
(* Properties that hold *)

TypeOK ==
    /\ disk \in [Paths -> [content : Contents, mtime : Mtimes] \union {None}]
    /\ mounted \subseteq Libraries
    /\ configured \subseteq Libraries
    /\ files \in [Contents -> [size : Nat, meta : Contents] \union {None}]
    /\ loc \in [Paths ->
            [file : Contents, mtime : Mtimes, missing : BOOLEAN] \union {None}]
    /\ pc \in {"idle", "walk", "hash", "store", "enqueue", "done"}
    /\ scope \subseteq Libraries /\ roots \subseteq scope /\ walked \subseteq scope
    /\ cur \in Paths \union {None}
    /\ stat \in [size : Nat, mtime : Mtimes] \union {None}
    /\ sha \in Contents \union {None}
    /\ {seen, unlisted, listed, fresh, failed, touched} \subseteq SUBSET Paths
    /\ {enqueued, torn} \subseteq SUBSET Contents
    /\ changes \in 0..MaxChanges
    /\ faults \in 0..MaxFaults

\* What the tables say of a path is what is there; or the file there cannot be told
\* from the recorded one by its size and its modification time.
Faithful(p) ==
    \/ Readable(p) /\ Current(p) /\ loc[p].file = disk[p].content
    \/ ~Readable(p) /\ ~Current(p)
    \/ /\ OnDisk(p) /\ Current(p)
       /\ Size[disk[p].content] = files[loc[p].file].size
       /\ disk[p].mtime = loc[p].mtime

\* After a whole scan, and while nothing has changed since it started, the tables
\* are right about every path of the libraries it walked, whatever earlier scans
\* left half done: moved, duplicated, replaced and deleted files alike.
\* A scan that is killed, or ended by a malformed file (AbortAtMalformed), is not whole.
ScanFaithful ==
    pc = "done" /\ touched = {} => \A p \in Under(walked) \ failed : Faithful(p)

\* The files no match job was ever enqueued for.
Unmatched == {c \in Contents \ enqueued : files[c] # None}

\* Every content gets one match job: none for a duplicate, a move or a later scan,
\* and a killed scan costs at most one file its job.
OneJobPerFile ==
    /\ pc = "enqueue" => sha \in Unmatched
    /\ \A c \in enqueued : files[c] # None
    /\ Cardinality(Unmatched) <= faults + (IF pc = "enqueue" THEN 1 ELSE 0)

\* The columns of a files row were read from the content its sha256 names, unless
\* the path changed while the scan that stored it ran.
FilesDescribed ==
    \A c \in Contents \ torn :
        files[c] # None => files[c] = [size |-> Size[c], meta |-> c]

\* A file every scan ends at before it gets further: a malformed ComicInfo.xml at a
\* known path that does not look as recorded, be it new there, touched or back again.
Blocks(p) ==
    /\ Readable(p) /\ loc[p] # None /\ ~Unchanged(p, Stat(p))
    /\ disk[p].content \in Malformed

Blocked == \E p \in Under(configured) : Blocks(p)

\* Once the disk, the mounts and the settings are left alone, the scans make the
\* tables right about every path of the configured libraries, whatever was killed
\* or failed before; but where a malformed file ends every scan, what comes after
\* it is not promised anything.
Converges == <>[](Blocked \/ \A p \in Under(configured) : Faithful(p))

(* The parts of the inductive invariant behind them. *)

\* The foreign key of file_locations: the file of a row is in the table.
LocationsHaveFiles == \A p \in Paths : loc[p] # None => files[loc[p].file] # None

\* The path being hashed or stored.
Busy == IF pc \in {"hash", "store"} THEN {cur} ELSE {}

\* The scan knows what it works on; and unless the path changed since the scan
\* started, what it took from stat() and from hashing is still what is there.
StepInformed ==
    /\ pc \in {"hash", "store", "enqueue"} => cur # None /\ stat # None
    /\ pc \in {"store", "enqueue"} => sha # None
    /\ \A p \in Busy \ touched :
        /\ disk[p] # None
        /\ stat = Stat(p)
        /\ pc = "store" => sha = disk[p].content

\* Paths wait, are treated or were seen in turn, each once, library by library.
WalkOrdered ==
    /\ roots \intersect walked = {}
    /\ seen \union unlisted \union listed \union Busy \subseteq Under(walked)
    /\ seen \intersect (unlisted \union listed \union Busy) = {}
    /\ unlisted \intersect (listed \union Busy) = {}
    /\ listed \intersect Busy = {}
    /\ pc \in {"idle", "done"} => unlisted = {} /\ listed = {}

\* The paths the walk is through with, but for those an I/O error hit.
Treated == Under(walked) \ (failed \union unlisted \union listed \union Busy)

\* While nothing has changed since the scan started, it refreshed the rows of the
\* paths it treated and they are right, or the path holds nothing it can read;
\* then phase 2 has seen to it that no row claims otherwise.
TreatedRight ==
    pc # "idle" /\ touched = {} => \A p \in Treated :
        /\ p \in seen => Current(p) /\ Faithful(p)
        /\ p \notin seen => ~Readable(p)
        /\ pc = "done" /\ p \notin seen => ~Current(p)

\* The conjunction of all parts: what holds between any two steps of a scan and of
\* the world it looks at.
IInv ==
    /\ TypeOK
    /\ LocationsHaveFiles
    /\ StepInformed
    /\ WalkOrdered
    /\ TreatedRight
    /\ FilesDescribed
    /\ OneJobPerFile
    /\ IsFiniteSet(Unmatched)

-----------------------------------------------------------------------------
(* What the documentation promises and the code does not keep *)

\* _phase_2_reconcile's docstring and comment: only locations under libraries that
\* were walked are reconciled.  A root that does not exist is not walked.
OnlyWalkedReconciled ==
    [][\A p \in Paths : Current(p) /\ ~Current(p)' => LibraryOf[p] \in walked]_vars

\* docs/troubleshooting.md: a malformed ComicInfo is treated as none, and not a
\* blocker.  At a known path it ends the scan although nothing failed.
MalformedIsNoBlocker ==
    [][pc \notin {"idle", "done"} /\ pc' = "idle" => faults' # faults]_vars

=============================================================================
