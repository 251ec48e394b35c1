--------------------------- MODULE ScannerProofs ---------------------------
(***************************************************************************)
(* Proofs about the scanner: the inductive invariant IInv of Scanner and   *)
(* what follows from it.                                                   *)
(***************************************************************************)
EXTENDS Scanner, FiniteSetTheorems, TLAPS

-----------------------------------------------------------------------------
(* Types *)

\* Every step of a scan keeps the types.
LEMMA ScanTypes == ASSUME TypeOK, StepInformed, ScanStep PROVE TypeOK'
<1> USE ScannerAssumption
<1>1. ASSUME NEW l \in Libraries, OpenLibrary(l) PROVE TypeOK'
  BY <1>1 DEF TypeOK, OpenLibrary, Under, world, tables, step, notes, bounds
<1>2. ASSUME NEW D \in SUBSET Paths, ListDirectory(D) PROVE TypeOK'
  BY <1>2 DEF TypeOK, ListDirectory, world, tables, step, notes, bounds
<1>3. ASSUME NEW p \in Paths, Visit(p) PROVE TypeOK'
  BY <1>3 DEF TypeOK, Visit, OnDisk, Stat, world, step, bounds
<1>4. ASSUME Hash PROVE TypeOK'
  BY <1>4 DEF TypeOK, Hash, NextFile, OnDisk, StepInformed, world, tables, walk, bounds
<1>5. ASSUME Store PROVE TypeOK'
  <2> USE <1>5 DEF TypeOK, Store, StepInformed, world, bounds
  <2>1. ASSUME StoreFile PROVE TypeOK'
    BY <2>1 DEF StoreFile, Attach, NextFile, Readable, OnDisk, step
  <2>2. ASSUME RefuseFile PROVE TypeOK'
    BY <2>2 DEF RefuseFile, NextFile
  <2>3. ASSUME AbortAtMalformed PROVE TypeOK'
    BY <2>3 DEF AbortAtMalformed, EndScan
  <2> QED BY <2>1, <2>2, <2>3
<1>6. ASSUME Enqueue PROVE TypeOK'
  BY <1>6 DEF TypeOK, Enqueue, NextFile, StepInformed, world, walk, notes, bounds
<1>7. ASSUME Reconcile PROVE TypeOK'
  <2>1. loc' \in [Paths -> [file : Contents, mtime : Mtimes, missing : BOOLEAN] \union {None}]
    <3> DEFINE Rows == [file : Contents, mtime : Mtimes, missing : BOOLEAN]
    <3>1. ASSUME NEW p \in Stale PROVE [loc[p] EXCEPT !.missing = TRUE] \in Rows
      <4>1. loc[p] \in Rows
        BY DEF TypeOK, Stale, Under, Current
      <4> QED BY <4>1
    <3> QED BY <1>7, <3>1 DEF TypeOK, Reconcile
  <2> QED BY <1>7, <2>1 DEF TypeOK, Reconcile, EndScan, world, notes, bounds
<1> QED BY <1>1, <1>2, <1>3, <1>4, <1>5, <1>6, <1>7 DEF ScanStep, WalkStep

\* So do the changes of the world.
LEMMA WorldTypes == ASSUME TypeOK, Environment PROVE TypeOK'
<1> USE ScannerAssumption DEF TypeOK, Change, tables, walk, step, notes
<1>1. ASSUME NEW p \in Paths, Write(p) PROVE TypeOK'
  BY <1>1 DEF Write
<1>2. ASSUME NEW p \in Paths, Remove(p) PROVE TypeOK'
  BY <1>2 DEF Remove
<1>3. ASSUME NEW p \in Paths, NEW q \in Paths, Move(p, q) PROVE TypeOK'
  BY <1>3 DEF Move, OnDisk
<1>4. ASSUME NEW l \in Libraries, Mount(l) PROVE TypeOK'
  BY <1>4 DEF Mount, Under
<1>5. ASSUME NEW l \in Libraries, Configure(l) PROVE TypeOK'
  BY <1>5 DEF Configure
<1> QED BY <1>1, <1>2, <1>3, <1>4, <1>5 DEF Environment

\* The types are kept by every step.
LEMMA TypeStep == ASSUME TypeOK, StepInformed, [Next]_vars PROVE TypeOK'
<1> USE ScannerAssumption
<1>1. CASE StartScan
  BY <1>1 DEF TypeOK, StartScan, world, step, bounds
<1>2. CASE ReadError
  BY <1>2 DEF TypeOK, ReadError, Fault, NextFile, StepInformed, world, step
<1>3. CASE Kill
  BY <1>3 DEF TypeOK, Kill, Fault, EndScan, world
<1>4. CASE UNCHANGED vars
  BY <1>4 DEF TypeOK, vars, world, tables, walk, step, notes, bounds
<1> QED BY <1>1, <1>2, <1>3, <1>4, ScanTypes, WorldTypes DEF Next

-----------------------------------------------------------------------------
(* What each step leaves alone *)

\* The steps that store a file aside, nothing changes the files table, and nothing
\* but phase 2 changes the locations.
LEMMA TablesKept ==
    ASSUME [Next]_vars
    PROVE  /\ ~(Store /\ StoreFile) => files' = files /\ torn' = torn
           /\ ~(Store /\ StoreFile) /\ ~Reconcile => loc' = loc
  BY DEF Next, vars, StartScan, ScanStep, WalkStep, OpenLibrary, ListDirectory, Visit, Hash, Store,
         RefuseFile, AbortAtMalformed, Enqueue, Reconcile, Environment, Write, Remove, Move,
         Mount, Configure, Change, ReadError, Kill, Fault, tables

\* What storing a file does.
LEMMA Stored ==
    ASSUME TypeOK, StepInformed, Store, StoreFile
    PROVE  /\ cur \in Paths /\ sha \in Contents
           /\ Readable(cur)
           /\ loc' = [loc EXCEPT ![cur] = [file |-> sha, mtime |-> stat.mtime, missing |-> FALSE]]
           /\ loc'[cur] # None
           /\ seen' = seen \union {cur}
           /\ \/ /\ files[sha] = None
                 /\ files' = [files EXCEPT ![sha] = [size |-> stat.size, meta |-> disk[cur].content]]
                 /\ pc' = "enqueue" /\ sha' = sha
                 /\ torn' = IF cur \in touched THEN torn \union {sha} ELSE torn
              \/ /\ files[sha] # None
                 /\ files' = files /\ torn' = torn /\ pc' = "walk"
           /\ files'[sha] # None
           /\ UNCHANGED <<world, enqueued, walk, failed, touched, bounds>>
<1>1. cur \in Paths /\ sha \in Contents /\ stat \in [size : Nat, mtime : Mtimes]
  BY DEF TypeOK, StepInformed, Store
<1>2. /\ [file |-> sha, mtime |-> stat.mtime, missing |-> FALSE] # None
      /\ disk[cur].content \in Contents
      /\ [size |-> stat.size, meta |-> disk[cur].content] # None
  <2>1. disk[cur] \in [content : Contents, mtime : Mtimes]
    BY <1>1 DEF TypeOK, StoreFile, Readable, OnDisk
  <2>2. [file |-> sha, mtime |-> stat.mtime, missing |-> FALSE]
            \in [file : Contents, mtime : Mtimes, missing : BOOLEAN]
    BY <1>1
  <2>3. [size |-> stat.size, meta |-> disk[cur].content] \in [size : Nat, meta : Contents]
    BY <1>1, <2>1
  <2> QED BY <2>1, <2>2, <2>3, NoneAssumption
<1>3. loc' = [loc EXCEPT ![cur] = [file |-> sha, mtime |-> stat.mtime, missing |-> FALSE]]
  BY DEF StoreFile, Attach
<1>4. loc'[cur] # None
  BY <1>1, <1>2, <1>3 DEF TypeOK
<1>5. \/ /\ files[sha] = None
         /\ files' = [files EXCEPT ![sha] = [size |-> stat.size, meta |-> disk[cur].content]]
         /\ pc' = "enqueue" /\ sha' = sha
         /\ torn' = IF cur \in touched THEN torn \union {sha} ELSE torn
      \/ /\ files[sha] # None
         /\ files' = files /\ torn' = torn /\ pc' = "walk"
  BY DEF StoreFile, NextFile, step
<1>6. files'[sha] # None
  BY <1>1, <1>2, <1>5 DEF TypeOK
<1>7. UNCHANGED <<world, enqueued, walk, failed, touched, bounds>>
  BY DEF Store, StoreFile, walk
<1> QED BY <1>1, <1>3, <1>4, <1>5, <1>6, <1>7 DEF StoreFile

\* A files row is never changed nor deleted.
LEMMA FilesGrow ==
    ASSUME TypeOK, StepInformed, [Next]_vars, NEW c \in Contents, files[c] # None
    PROVE  files'[c] = files[c]
<1>1. CASE Store /\ StoreFile
  BY <1>1, Stored DEF TypeOK
<1> QED BY <1>1, TablesKept

\* The rows of locations keep pointing at files that are there.
LEMMA LocationsStep ==
    ASSUME TypeOK, LocationsHaveFiles, StepInformed, [Next]_vars
    PROVE  LocationsHaveFiles'
<1>1. CASE Store /\ StoreFile
  BY <1>1, Stored DEF TypeOK, LocationsHaveFiles
<1>2. CASE Reconcile
  <2>1. files' = files
    BY <1>2 DEF Reconcile
  <2>2. ASSUME NEW p \in Paths, loc'[p] # None PROVE loc[p] # None /\ loc'[p].file = loc[p].file
    <3>1. CASE p \in Stale /\ ~Moved(p)
      <4>1. loc[p] \in [file : Contents, mtime : Mtimes, missing : BOOLEAN] /\ loc[p] # None
        BY <3>1 DEF TypeOK, Stale, Under, Current
      <4>2. loc'[p] = [loc[p] EXCEPT !.missing = TRUE]
        BY <1>2, <3>1 DEF Reconcile
      <4> QED BY <4>1, <4>2
    <3>2. CASE ~(p \in Stale /\ ~Moved(p))
      BY <1>2, <2>2, <3>2 DEF Reconcile
    <3> QED BY <3>1, <3>2
  <2> QED BY <2>1, <2>2 DEF LocationsHaveFiles
<1> QED BY <1>1, <1>2, TablesKept DEF LocationsHaveFiles

\* The columns of a files row keep describing its content.
LEMMA DescribedStep ==
    ASSUME TypeOK, StepInformed, FilesDescribed, [Next]_vars
    PROVE  FilesDescribed'
<1>1. CASE Store /\ StoreFile
  <2>1. CASE files[sha] = None /\ cur \notin touched
    <3>1. stat.size = Size[sha] /\ disk[cur].content = sha
      BY <1>1, <2>1, Stored DEF StepInformed, Busy, Store, Stat
    <3> QED BY <1>1, <2>1, <3>1, Stored DEF TypeOK, FilesDescribed
  <2>2. CASE files[sha] = None /\ cur \in touched
    BY <1>1, <2>2, Stored DEF TypeOK, FilesDescribed
  <2>3. CASE files[sha] # None
    BY <1>1, <2>3, Stored DEF FilesDescribed
  <2> QED BY <2>1, <2>2, <2>3
<1> QED BY <1>1, TablesKept DEF FilesDescribed

-----------------------------------------------------------------------------
(* The scan's own state *)

\* What a scan knows of the path it works on stays true, or the path has changed.
LEMMA InformedStep ==
    ASSUME TypeOK, StepInformed, [Next]_vars
    PROVE  StepInformed'
<1> USE DEF StepInformed, Busy
<1>1. CASE StartScan
  BY <1>1 DEF StartScan
<1>2. CASE \E l \in Libraries : OpenLibrary(l)
  BY <1>2 DEF OpenLibrary, step
<1>3. CASE \E D \in SUBSET Paths : ListDirectory(D)
  BY <1>3 DEF ListDirectory, step
<1>4. ASSUME NEW p \in Paths, Visit(p) PROVE StepInformed'
  <2>1. CASE pc' = pc
    BY <1>4, <2>1 DEF Visit
  <2>2. CASE pc' # pc
    <3>1. /\ pc' = "hash" /\ cur' = p /\ stat' = Stat(p) /\ OnDisk(p)
          /\ UNCHANGED <<disk, touched>>
      BY <1>4, <2>2 DEF Visit, world
    <3>2. Stat(p) \in [size : Nat, mtime : Mtimes]
      BY <3>1, ScannerAssumption DEF TypeOK, OnDisk, Stat
    <3> QED BY <3>1, <3>2, NoneAssumption, ScannerAssumption DEF OnDisk, Stat
  <2> QED BY <2>1, <2>2
<1>5. CASE Hash
  <2>1. CASE OnDisk(cur)
    <3>1. disk[cur].content \in Contents
      BY <1>5, <2>1 DEF Hash, TypeOK, OnDisk
    <3> QED BY <1>5, <2>1, <3>1, ScannerAssumption DEF Hash, Stat, world
  <2>2. CASE ~OnDisk(cur)
    BY <1>5, <2>2 DEF Hash, NextFile
  <2> QED BY <2>1, <2>2
<1>6. CASE Store
  BY <1>6 DEF Store, StoreFile, RefuseFile, AbortAtMalformed, NextFile, EndScan, step
<1>7. CASE Enqueue
  BY <1>7 DEF Enqueue, NextFile
<1>8. CASE Reconcile
  BY <1>8 DEF Reconcile, EndScan
<1>9. CASE Environment
  <2> USE DEF Change, step, Stat
  <2>1. ASSUME NEW p \in Paths, Write(p) PROVE StepInformed'
    BY <2>1 DEF Write, TypeOK
  <2>2. ASSUME NEW p \in Paths, Remove(p) PROVE StepInformed'
    BY <2>2 DEF Remove, TypeOK
  <2>3. ASSUME NEW p \in Paths, NEW q \in Paths, Move(p, q) PROVE StepInformed'
    BY <2>3 DEF Move, TypeOK
  <2>4. ASSUME NEW l \in Libraries, Mount(l) \/ Configure(l) PROVE StepInformed'
    BY <2>4 DEF Mount, Configure
  <2> QED BY <1>9, <2>1, <2>2, <2>3, <2>4 DEF Environment
<1>10. CASE ReadError
  BY <1>10 DEF ReadError, NextFile, step
<1>11. CASE Kill
  BY <1>11 DEF Kill, EndScan
<1>12. CASE UNCHANGED vars
  BY <1>12 DEF vars, world, step, Stat
<1> QED
  BY <1>1, <1>2, <1>3, <1>4, <1>5, <1>6, <1>7, <1>8, <1>9, <1>10, <1>11, <1>12
  DEF Next, ScanStep, WalkStep

\* The walk keeps its order.
LEMMA OrderStep ==
    ASSUME TypeOK, WalkOrdered, [Next]_vars
    PROVE  WalkOrdered'
<1> USE DEF WalkOrdered, Busy, Under
<1>1. CASE StartScan
  BY <1>1 DEF StartScan
<1>2. ASSUME NEW l \in Libraries, OpenLibrary(l) PROVE WalkOrdered'
  BY <1>2 DEF OpenLibrary, tables, notes, step
<1>3. ASSUME NEW D \in SUBSET Paths, ListDirectory(D) PROVE WalkOrdered'
  BY <1>3 DEF ListDirectory, tables, notes, step
<1>4. ASSUME NEW p \in Paths, Visit(p) PROVE WalkOrdered'
  BY <1>4 DEF Visit
<1>5. CASE Hash
  BY <1>5 DEF Hash, NextFile, tables, walk
<1>6. CASE Store
  BY <1>6 DEF Store, StoreFile, RefuseFile, AbortAtMalformed, NextFile, EndScan, step
<1>7. CASE Enqueue
  BY <1>7 DEF Enqueue, NextFile, walk
<1>8. CASE Reconcile
  BY <1>8 DEF Reconcile, EndScan
<1>9. CASE Environment
  BY <1>9 DEF Environment, Write, Remove, Move, Mount, Configure, Change, tables, walk, step
<1>10. CASE ReadError
  BY <1>10 DEF ReadError, Fault, NextFile, step
<1>11. CASE Kill
  BY <1>11 DEF Kill, Fault, EndScan
<1>12. CASE UNCHANGED vars
  BY <1>12 DEF vars, tables, walk, step
<1> QED
  BY <1>1, <1>2, <1>3, <1>4, <1>5, <1>6, <1>7, <1>8, <1>9, <1>10, <1>11, <1>12
  DEF Next, ScanStep, WalkStep

-----------------------------------------------------------------------------
(* What a scan made of the paths it treated *)

\* What the tables say of a path is as right as before when neither the path, nor
\* its row, nor the row of its file changed.
LEMMA RightKept ==
    ASSUME NEW p \in Paths, OnDisk(p)' <=> OnDisk(p), disk'[p] = disk[p], loc'[p] = loc[p],
           loc[p] # None => files'[loc[p].file] = files[loc[p].file]
    PROVE  /\ Current(p)' <=> Current(p)
           /\ Readable(p)' <=> Readable(p)
           /\ Faithful(p)' <=> Faithful(p)
<1>1. Current(p)' <=> Current(p)
  BY DEF Current
<1>2. Readable(p)' <=> Readable(p)
  BY DEF Readable
<1> QED BY <1>1, <1>2 DEF Faithful, Current

\* A step of the scan that writes no row keeps what is right, when the paths it
\* adds to those treated are right.
LEMMA TreatedKept ==
    ASSUME TreatedRight, pc # "idle", pc' # "done",
           UNCHANGED <<disk, mounted, files, loc, touched>>,
           Treated \subseteq Paths, Treated' \subseteq Paths,
           \A p \in Treated' \intersect Treated : p \in seen' <=> p \in seen,
           touched = {} => \A p \in Treated' \ Treated :
                /\ p \in seen' => Current(p) /\ Faithful(p)
                /\ p \notin seen' => ~Readable(p)
    PROVE  TreatedRight'
<1> SUFFICES ASSUME touched = {}, NEW p \in Treated'
    PROVE  /\ p \in seen' => Current(p)' /\ Faithful(p)'
           /\ p \notin seen' => ~Readable(p)'
  BY DEF TreatedRight
<1>1. p \in Paths
  OBVIOUS
<1>2. /\ Current(p)' <=> Current(p)
      /\ Readable(p)' <=> Readable(p)
      /\ Faithful(p)' <=> Faithful(p)
  BY <1>1, RightKept DEF OnDisk
<1>3. CASE p \in Treated
  BY <1>2, <1>3 DEF TreatedRight
<1>4. CASE p \notin Treated
  BY <1>2, <1>4
<1> QED BY <1>3, <1>4

\* Phase 1 before a file is stored.
LEMMA WalkRight ==
    ASSUME TypeOK, WalkOrdered, TreatedRight,
           \/ \E l \in Libraries : OpenLibrary(l)
           \/ \E D \in SUBSET Paths : ListDirectory(D)
           \/ \E p \in Paths : Visit(p)
           \/ Hash
    PROVE  TreatedRight'
<1>1. Treated \subseteq Paths /\ Treated' \subseteq Paths
  BY DEF Treated, Under
<1>2. ASSUME NEW l \in Libraries, OpenLibrary(l) PROVE TreatedRight'
  <2>1. /\ pc = "walk" /\ pc' = pc /\ seen' = seen
        /\ UNCHANGED <<disk, mounted, files, loc, touched>>
    BY <1>2 DEF OpenLibrary, world, tables
  <2>2. Treated' \subseteq Treated
    BY <1>2 DEF OpenLibrary, Treated, Under, Busy, notes, step
  <2> QED BY <1>1, <2>1, <2>2, TreatedKept
<1>3. ASSUME NEW D \in SUBSET Paths, ListDirectory(D) PROVE TreatedRight'
  <2>1. /\ pc = "walk" /\ pc' = pc /\ seen' = seen
        /\ UNCHANGED <<disk, mounted, files, loc, touched>>
    BY <1>3 DEF ListDirectory, world, tables
  <2>2. \A p \in Treated' \ Treated : p \in D /\ ~OnDisk(p)
    BY <1>3 DEF ListDirectory, Treated, Busy, notes, step
  <2>3. \A p \in D : p \notin seen
    BY <1>3 DEF ListDirectory, WalkOrdered
  <2> QED BY <1>1, <2>1, <2>2, <2>3, TreatedKept DEF Readable
<1>4. ASSUME NEW p \in Paths, Visit(p) PROVE TreatedRight'
  <2>1. /\ pc = "walk" /\ pc' # "done" /\ p \in listed
        /\ UNCHANGED <<disk, mounted, files, loc, touched>>
    BY <1>4 DEF Visit, world
  <2>2. CASE OnDisk(p) /\ Unchanged(p, Stat(p))
    <3>1. /\ seen' = seen \union {p}
          /\ Treated' \subseteq Treated \union {p}
          /\ p \notin Treated
      BY <1>4, <2>1, <2>2 DEF Visit, Treated, Busy, step
    <3>2. Current(p) /\ Faithful(p)
      BY <2>2 DEF Unchanged, Faithful, Stat
    <3> QED BY <1>1, <2>1, <3>1, <3>2, TreatedKept
  <2>3. CASE ~(OnDisk(p) /\ Unchanged(p, Stat(p)))
    <3>1. /\ seen' = seen
          /\ Treated' \subseteq Treated
      BY <1>4, <2>1, <2>3 DEF Visit, Treated, Busy, step
    <3> QED BY <1>1, <2>1, <3>1, TreatedKept
  <2> QED BY <2>2, <2>3
<1>5. CASE Hash
  <2>1. /\ pc = "hash" /\ pc' # "done" /\ seen' = seen
        /\ UNCHANGED <<disk, mounted, files, loc, touched>>
    BY <1>5 DEF Hash, NextFile, world, tables
  <2>2. Treated' \subseteq Treated
    BY <1>5 DEF Hash, NextFile, Treated, Under, Busy, walk
  <2> QED BY <1>1, <2>1, <2>2, TreatedKept
<1> QED BY <1>2, <1>3, <1>4, <1>5

\* Storing a file, or refusing it, ends its treatment.
LEMMA StoreRight ==
    ASSUME TypeOK, LocationsHaveFiles, StepInformed, WalkOrdered, TreatedRight, Store
    PROVE  TreatedRight'
<1>1. Treated \subseteq Paths /\ Treated' \subseteq Paths
  BY DEF Treated, Under
<1>2. pc = "store" /\ cur \in Paths /\ Busy = {cur} /\ cur \notin seen
  BY DEF Store, StepInformed, TypeOK, Busy, WalkOrdered
<1>3. CASE StoreFile
  <2> SUFFICES ASSUME touched' = {}, NEW p \in Treated'
      PROVE  /\ p \in seen' => Current(p)' /\ Faithful(p)'
             /\ p \notin seen' => ~Readable(p)'
    BY <1>2, <1>3, Stored DEF TreatedRight
  <2>1. touched = {} /\ p \in Paths /\ UNCHANGED world
    BY <1>1, <1>3, Stored
  <2>2. CASE p = cur
    <3>1. disk[cur] # None /\ sha = disk[cur].content
      BY <1>2, <2>1 DEF StepInformed
    <3>2. Current(p)' /\ loc'[p].file = disk'[p].content
      BY <1>3, <2>1, <2>2, <3>1, Stored DEF TypeOK, Current, world
    <3>3. Readable(p)'
      BY <1>3, <2>1, <2>2, Stored DEF Readable, OnDisk, world
    <3> QED BY <1>3, <2>2, <3>2, <3>3, Stored DEF Faithful
  <2>3. CASE p # cur
    <3>1. p \in Treated /\ (p \in seen' <=> p \in seen)
      BY <1>2, <1>3, <2>3, Stored DEF Treated, Busy, walk
    <3>2. loc'[p] = loc[p]
      BY <1>3, <2>1, <2>3, Stored DEF TypeOK
    <3>3. loc[p] # None => files'[loc[p].file] = files[loc[p].file]
      <4> SUFFICES ASSUME loc[p] # None PROVE files'[loc[p].file] = files[loc[p].file]
        OBVIOUS
      <4>1. loc[p].file \in Contents /\ files[loc[p].file] # None
        BY <2>1 DEF TypeOK, LocationsHaveFiles
      <4> QED BY <1>3, <4>1, Stored DEF TypeOK
    <3>4. /\ Current(p)' <=> Current(p)
          /\ Readable(p)' <=> Readable(p)
          /\ Faithful(p)' <=> Faithful(p)
      BY <2>1, <3>2, <3>3, RightKept DEF OnDisk, world
    <3> QED BY <1>2, <2>1, <3>1, <3>4 DEF TreatedRight
  <2> QED BY <2>2, <2>3
<1>4. CASE RefuseFile
  <2>1. /\ pc' # "done" /\ seen' = seen
        /\ UNCHANGED <<disk, mounted, files, loc, touched>>
    BY <1>4 DEF Store, RefuseFile, NextFile, world
  <2>2. Treated' \subseteq Treated \union {cur}
    BY <1>2, <1>4 DEF Store, RefuseFile, NextFile, Treated, Busy
  <2>3. ~Readable(cur)
    BY <1>4 DEF RefuseFile
  <2> QED BY <1>1, <1>2, <2>1, <2>2, <2>3, TreatedKept
<1>5. CASE AbortAtMalformed
  BY <1>5 DEF AbortAtMalformed, EndScan, TreatedRight
<1> QED BY <1>3, <1>4, <1>5 DEF Store

\* Phase 2 marks the rows of the paths that hold nothing, and leaves the rows that
\* were refreshed alone.
LEMMA ReconcileRight ==
    ASSUME TypeOK, WalkOrdered, TreatedRight, Reconcile
    PROVE  TreatedRight'
<1> SUFFICES ASSUME touched' = {}, NEW p \in Treated'
    PROVE  /\ p \in seen' => Current(p)' /\ Faithful(p)'
           /\ p \notin seen' => ~Readable(p)'
           /\ p \notin seen' => ~Current(p)'
  BY DEF TreatedRight
<1>1. /\ touched = {} /\ seen' = seen /\ UNCHANGED <<disk, mounted, files>>
      /\ pc = "walk"
  BY DEF Reconcile, world
<1>2. p \in Paths /\ p \in Treated /\ p \in Under(scope)
  BY DEF Reconcile, EndScan, Treated, Under, Busy, notes, TypeOK
<1>3. Readable(p)' <=> Readable(p)
  BY <1>1 DEF Readable, OnDisk
<1>4. CASE p \in seen
  <2>1. loc'[p] = loc[p]
    BY <1>2, <1>4 DEF Reconcile, Moved, MovedTo, Stale
  <2> QED BY <1>1, <1>2, <1>4, <2>1, RightKept DEF TreatedRight, OnDisk
<1>5. CASE p \notin seen
  <2>1. ~Readable(p)
    BY <1>1, <1>2, <1>5 DEF TreatedRight
  <2>2. ~Current(p)'
    <3>1. CASE p \in Stale /\ ~Moved(p)
      <4>1. loc[p] \in [file : Contents, mtime : Mtimes, missing : BOOLEAN]
        BY <1>2, <3>1 DEF TypeOK, Stale, Current
      <4>2. loc'[p] = [loc[p] EXCEPT !.missing = TRUE]
        BY <1>2, <3>1 DEF Reconcile
      <4> QED BY <4>1, <4>2 DEF Current
    <3>2. CASE Moved(p)
      BY <1>2, <3>2 DEF Reconcile, Current
    <3>3. CASE p \notin Stale /\ ~Moved(p)
      BY <1>2, <1>5, <3>3 DEF Reconcile, Stale, Current
    <3> QED BY <3>1, <3>2, <3>3
  <2> QED BY <1>1, <1>3, <1>5, <2>1, <2>2
<1> QED BY <1>4, <1>5

\* A change of the world touches every path it concerns.
LEMMA WorldRight ==
    ASSUME TypeOK, TreatedRight, Environment
    PROVE  TreatedRight'
<1>1. UNCHANGED <<files, loc, seen, pc>> /\ Treated' = Treated
  BY DEF Environment, Write, Remove, Move, Mount, Configure, Change, tables, walk, step, notes,
         Treated, Busy
<1> SUFFICES ASSUME touched' = {}, NEW p \in Treated
    PROVE  /\ Current(p)' <=> Current(p)
           /\ Readable(p)' <=> Readable(p)
           /\ Faithful(p)' <=> Faithful(p)
  <2>1. touched' = {} => touched = {}
    BY DEF Environment, Write, Remove, Move, Mount, Configure, Change
  <2> QED BY <1>1, <2>1 DEF TreatedRight
<1>2. p \in Paths
  BY DEF Treated, Under
<1>3. disk'[p] = disk[p] /\ (OnDisk(p)' <=> OnDisk(p))
  <2>1. ASSUME NEW q \in Paths, Write(q) \/ Remove(q) \/ \E r \in Paths : Move(q, r)
        PROVE  FALSE
    BY <2>1 DEF Write, Remove, Move, Change
  <2>2. ASSUME NEW l \in Libraries, Mount(l)
        PROVE  disk'[p] = disk[p] /\ (OnDisk(p)' <=> OnDisk(p))
    <3>1. LibraryOf[p] # l
      BY <1>2, <2>2 DEF Mount, Change, Under
    <3> QED BY <2>2, <3>1 DEF Mount, OnDisk
  <2>3. ASSUME NEW l \in Libraries, Configure(l)
        PROVE  disk'[p] = disk[p] /\ (OnDisk(p)' <=> OnDisk(p))
    BY <2>3 DEF Configure, OnDisk
  <2> QED BY <2>1, <2>2, <2>3 DEF Environment
<1> QED BY <1>1, <1>2, <1>3, RightKept

\* What the scan treated is right, after every step.
LEMMA TreatedStep ==
    ASSUME TypeOK, LocationsHaveFiles, StepInformed, WalkOrdered, TreatedRight, [Next]_vars
    PROVE  TreatedRight'
<1>1. Treated \subseteq Paths /\ Treated' \subseteq Paths
  BY DEF Treated, Under
<1>2. CASE StartScan
  BY <1>2 DEF StartScan, TreatedRight, Treated, Under
<1>3. CASE Enqueue
  <2>1. /\ pc = "enqueue" /\ pc' = "walk" /\ seen' = seen
        /\ UNCHANGED <<disk, mounted, files, loc, touched>>
    BY <1>3 DEF Enqueue, NextFile, world
  <2>2. Treated' = Treated
    BY <1>3 DEF Enqueue, NextFile, Treated, Busy, walk, notes
  <2> QED BY <1>1, <2>1, <2>2, TreatedKept
<1>4. CASE ReadError
  <2>1. /\ pc # "idle" /\ pc' = "walk" /\ seen' = seen
        /\ UNCHANGED <<disk, mounted, files, loc, touched>>
    BY <1>4 DEF ReadError, Fault, NextFile, world
  <2>2. Treated' \subseteq Treated
    BY <1>4 DEF ReadError, Fault, NextFile, Treated, Busy, step
  <2> QED BY <1>1, <2>1, <2>2, TreatedKept
<1>5. CASE Kill
  BY <1>5 DEF Kill, EndScan, TreatedRight
<1>6. CASE UNCHANGED vars
  BY <1>6 DEF vars, world, tables, walk, step, notes, TreatedRight, Treated, Busy, Faithful,
              Current, Readable, OnDisk
<1> QED
  BY <1>2, <1>3, <1>4, <1>5, <1>6, WalkRight, StoreRight, ReconcileRight, WorldRight
  DEF Next, ScanStep, WalkStep

-----------------------------------------------------------------------------
(* Match jobs *)

\* The files without a job are at most the scans that were killed, and the file the
\* scan is about to enqueue.
LEMMA JobsStep ==
    ASSUME TypeOK, StepInformed, OneJobPerFile, IsFiniteSet(Unmatched), [Next]_vars
    PROVE  OneJobPerFile' /\ IsFiniteSet(Unmatched')
<1> DEFINE Due == IF pc = "enqueue" THEN 1 ELSE 0
<1>1. Cardinality(Unmatched) \in Nat /\ faults \in Nat /\ Cardinality(Unmatched) <= faults + Due
  BY FS_CardinalityType DEF OneJobPerFile, TypeOK
<1>2. CASE Store /\ StoreFile
  <2>1. pc = "store" /\ UNCHANGED <<enqueued, faults>> /\ sha \in Contents
    BY <1>2, Stored DEF Store, bounds
  <2>2. CASE files[sha] = None
    <3>1. sha \notin Unmatched /\ sha \notin enqueued
      BY <2>2 DEF Unmatched, OneJobPerFile
    <3>2. Unmatched' = Unmatched \union {sha}
      BY <1>2, <2>1, <2>2, <3>1, Stored DEF Unmatched, TypeOK
    <3>3. IsFiniteSet(Unmatched') /\ Cardinality(Unmatched') = Cardinality(Unmatched) + 1
      BY <3>1, <3>2, FS_AddElement
    <3>4. pc' = "enqueue" /\ sha' = sha
      BY <1>2, <2>2, Stored
    <3>5. \A c \in enqueued' : files'[c] # None
      BY <1>2, <2>1, <2>2, Stored DEF OneJobPerFile, TypeOK
    <3>6. Cardinality(Unmatched') <= faults' + 1
      BY <1>1, <2>1, <3>3
    <3> QED BY <3>2, <3>3, <3>4, <3>5, <3>6 DEF OneJobPerFile
  <2>3. CASE files[sha] # None
    <3>1. Unmatched' = Unmatched /\ files' = files /\ pc' = "walk"
      BY <1>2, <2>1, <2>3, Stored DEF Unmatched
    <3> QED BY <2>1, <3>1 DEF OneJobPerFile
  <2> QED BY <2>2, <2>3
<1>3. CASE Enqueue
  <2>1. pc = "enqueue" /\ pc' = "walk" /\ enqueued' = enqueued \union {sha}
        /\ UNCHANGED <<files, faults>>
    BY <1>3 DEF Enqueue, NextFile, bounds
  <2>2. sha \in Unmatched /\ files[sha] # None
    BY <2>1 DEF OneJobPerFile, Unmatched
  <2>3. Unmatched' = Unmatched \ {sha}
    BY <2>1 DEF Unmatched
  <2>4. IsFiniteSet(Unmatched') /\ Cardinality(Unmatched') = Cardinality(Unmatched) - 1
    BY <2>2, <2>3, FS_RemoveElement
  <2>5. Cardinality(Unmatched') <= faults'
    BY <1>1, <2>1, <2>4
  <2>6. \A c \in enqueued' : files'[c] # None
    BY <2>1, <2>2 DEF OneJobPerFile
  <2> QED BY <1>1, <2>1, <2>4, <2>5, <2>6 DEF OneJobPerFile
<1>4. CASE Kill
  <2>1. /\ Unmatched' = Unmatched /\ UNCHANGED <<files, enqueued>>
        /\ pc' = "idle" /\ faults' = faults + 1
    BY <1>4 DEF Kill, Fault, EndScan, Unmatched
  <2>2. Cardinality(Unmatched') <= faults'
    BY <1>1, <2>1
  <2> QED BY <1>1, <2>1, <2>2 DEF OneJobPerFile
<1>5. CASE ~(Store /\ StoreFile) /\ ~Enqueue /\ ~Kill
  <2>1. UNCHANGED <<files, enqueued>> /\ Unmatched' = Unmatched
    BY <1>5, TablesKept DEF Next, vars, StartScan, ScanStep, WalkStep, OpenLibrary, ListDirectory, Visit,
       Hash, Store, Reconcile, Environment, Write, Remove, Move, Mount, Configure, Change,
       ReadError, Fault, tables, Unmatched
  <2>2. (pc' = "enqueue" <=> pc = "enqueue") /\ (pc = "enqueue" => sha' = sha)
    BY <1>5 DEF Next, vars, StartScan, ScanStep, WalkStep, OpenLibrary, ListDirectory, Visit, Hash, Store,
       RefuseFile, AbortAtMalformed, Reconcile, EndScan, NextFile, Environment, Write, Remove,
       Move, Mount, Configure, Change, ReadError, Fault, step
  <2>3. faults' \in {faults, faults + 1}
    BY <1>5 DEF Next, vars, StartScan, ScanStep, WalkStep, OpenLibrary, ListDirectory, Visit, Hash, Store,
       Reconcile, Environment, Write, Remove, Move, Mount, Configure, Change, ReadError, Fault,
       bounds
  <2>4. Cardinality(Unmatched') <= faults' + (IF pc' = "enqueue" THEN 1 ELSE 0)
    BY <1>1, <2>1, <2>2, <2>3
  <2> QED BY <2>1, <2>2, <2>4 DEF OneJobPerFile
<1> QED BY <1>2, <1>3, <1>4, <1>5

\* What a step of the scanner is to whom only looks at the files table and at the
\* calls it makes: it stores a new file, makes the call, meets a fault, or nothing.
LEMMA Outline ==
    ASSUME TypeOK, StepInformed, [Next]_vars
    PROVE  \/ /\ pc # "enqueue" /\ pc' = "enqueue"
              /\ sha' \in Contents /\ files[sha'] = None /\ files'[sha'] # None
              /\ \A c \in Contents \ {sha'} : files'[c] = files[c]
              /\ UNCHANGED <<enqueued, faults>>
           \/ Enqueue
           \/ /\ UNCHANGED <<files, enqueued>> /\ faults' = faults + 1
              /\ pc' = "enqueue" => pc = "enqueue" /\ sha' = sha
           \/ /\ UNCHANGED <<files, enqueued, faults>>
              /\ pc' = "enqueue" <=> pc = "enqueue"
              /\ pc = "enqueue" => sha' = sha
<1>1. CASE Store /\ StoreFile
  <2>1. pc = "store" /\ sha \in Contents /\ files'[sha] # None /\ UNCHANGED <<enqueued, faults>>
    BY <1>1, Stored DEF Store, bounds
  <2>2. CASE files[sha] = None
    <3>1. pc' = "enqueue" /\ sha' = sha
      BY <1>1, <2>2, Stored
    <3>2. \A c \in Contents \ {sha} : files'[c] = files[c]
      BY <1>1, <2>2, Stored DEF TypeOK
    <3> QED BY <2>1, <2>2, <3>1, <3>2
  <2>3. CASE files[sha] # None
    BY <1>1, <2>1, <2>3, Stored
  <2> QED BY <2>2, <2>3
<1>2. CASE ReadError \/ Kill
  BY <1>2 DEF ReadError, Kill, EndScan, NextFile, Fault, step
<1>3. CASE ~(Store /\ StoreFile) /\ ~Enqueue /\ ~ReadError /\ ~Kill
  <2>1. UNCHANGED <<files, enqueued, faults>>
    BY <1>3, TablesKept DEF Next, vars, StartScan, ScanStep, WalkStep, OpenLibrary, ListDirectory,
       Visit, Hash, Store, Reconcile, Environment, Write, Remove, Move, Mount, Configure, Change,
       tables, bounds
  <2>2. (pc' = "enqueue" <=> pc = "enqueue") /\ (pc = "enqueue" => sha' = sha)
    BY <1>3 DEF Next, vars, StartScan, ScanStep, WalkStep, OpenLibrary, ListDirectory, Visit, Hash,
       Store, RefuseFile, AbortAtMalformed, Reconcile, EndScan, NextFile, Environment, Write,
       Remove, Move, Mount, Configure, Change, step
  <2> QED BY <2>1, <2>2
<1> QED BY <1>1, <1>2, <1>3

-----------------------------------------------------------------------------
(* Theorems *)

\* The inductive invariant holds of every history of a library, for any paths,
\* contents and library roots and any number of changes and faults.
THEOREM Invariance == Spec => []IInv
<1>1. Init => IInv
  <2> SUFFICES ASSUME Init PROVE IInv
    OBVIOUS
  <2> USE ScannerAssumption DEF Init
  <2>1. TypeOK
    BY DEF TypeOK
  <2>2. LocationsHaveFiles /\ StepInformed /\ WalkOrdered /\ TreatedRight /\ FilesDescribed
    BY DEF LocationsHaveFiles, StepInformed, WalkOrdered, TreatedRight, FilesDescribed, Busy, Under
  <2>3. Unmatched = {}
    BY DEF Unmatched
  <2>4. IsFiniteSet(Unmatched) /\ Cardinality(Unmatched) = 0
    BY <2>3, FS_EmptySet
  <2>5. OneJobPerFile
    BY <2>4 DEF OneJobPerFile
  <2> QED BY <2>1, <2>2, <2>4, <2>5 DEF IInv
<1>2. IInv /\ [Next]_vars => IInv'
  <2> SUFFICES ASSUME IInv, [Next]_vars PROVE IInv'
    OBVIOUS
  <2>1. TypeOK' /\ StepInformed'
    BY TypeStep, InformedStep DEF IInv
  <2>2. LocationsHaveFiles' /\ WalkOrdered' /\ TreatedRight'
    BY LocationsStep, OrderStep, TreatedStep DEF IInv
  <2>3. FilesDescribed'
    BY DescribedStep DEF IInv
  <2>4. OneJobPerFile' /\ IsFiniteSet(Unmatched')
    BY JobsStep DEF IInv
  <2> QED BY <2>1, <2>2, <2>3, <2>4 DEF IInv
<1> QED BY <1>1, <1>2, PTL DEF Spec

\* The disk, the tables and the scan keep their types.
THEOREM ScannerTypes == Spec => []TypeOK
<1>1. IInv => TypeOK
  BY DEF IInv
<1> QED BY <1>1, Invariance, PTL

\* After a whole scan of a library nobody touched meanwhile, the tables are right
\* about every path, whatever the scans before it left half done.
THEOREM WholeScanFaithful == Spec => []ScanFaithful
<1>1. IInv => ScanFaithful
  BY DEF IInv, WalkOrdered, TreatedRight, Treated, Busy, ScanFaithful, Faithful
<1> QED BY <1>1, Invariance, PTL

\* Every content is enqueued once, but for one file a killed scan.
THEOREM JobsCounted == Spec => []OneJobPerFile
<1>1. IInv => OneJobPerFile
  BY DEF IInv
<1> QED BY <1>1, Invariance, PTL

\* The files table describes the contents its keys name, unless a path changed
\* while it was being scanned.
THEOREM ContentsDescribed == Spec => []FilesDescribed
<1>1. IInv => FilesDescribed
  BY DEF IInv
<1> QED BY <1>1, Invariance, PTL

=============================================================================
