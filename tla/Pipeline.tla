------------------------------ MODULE Pipeline -------------------------------
(***************************************************************************)
(* From the disk to a verdict: the scanner and the match queue as one       *)
(* system. They meet at two places: the scanner enqueues a match job for a   *)
(* file once its row is committed, and Match all reads the table of files,   *)
(* which a scan may be filling. A scan that dies between the commit and the   *)
(* call leaves a file only Match all will find.                             *)
(*                                                                         *)
(* What is left out of Scanner and MatchQueue is left out here.             *)
(***************************************************************************)
EXTENDS MatchQueue

CONSTANTS
    \* Those of Scanner, whose Contents are the Files.
    Paths, Libraries, LibraryOf, Corrupt, Malformed, Size, Mtimes, MaxChanges,
    MaxScanFaults,  \* its MaxFaults
    None

ASSUME PipelineAssumption ==
    /\ LibraryOf \in [Paths -> Libraries]
    /\ Corrupt \subseteq Files
    /\ Malformed \subseteq Files \ Corrupt
    /\ Size \in [Files -> Nat]
    /\ {MaxChanges, MaxScanFaults} \subseteq Nat
    /\ None \notin Paths \union Files
    /\ None \notin [size : Nat, meta : Files]
    /\ None \notin [size : Nat, mtime : Mtimes]
    /\ None \notin [content : Files, mtime : Mtimes]
    /\ None \notin [file : Files, mtime : Mtimes, missing : BOOLEAN]

VARIABLES
    \* Those of Scanner; it enqueues what MatchQueue calls scanned.
    disk, mounted,
    libraries,      \* its configured
    files, loc, seen, pc, scope, roots, unlisted, listed, cur, stat, sha, fresh,
    walked, failed, touched, torn, changes,
    scanFaults      \* its faults

Scan == INSTANCE Scanner WITH
    Contents <- Files, configured <- libraries, enqueued <- scanned,
    MaxFaults <- MaxScanFaults, faults <- scanFaults

\* All of Scanner's but scanned.
scanVars == <<disk, mounted, libraries, files, loc, seen, pc, scope, roots, unlisted, listed,
              cur, stat, sha, fresh, walked, failed, touched, torn, changes, scanFaults>>

PipelineInit == Init /\ Scan!Init

\* The rows of the table files.
Stored == {f \in Files : files[f] # None}

\* The scanner's own steps, and those of the world it looks at.
Scanning ==
    /\ \/ Scan!StartScan \/ Scan!WalkStep
       \/ Scan!Environment \/ Scan!ReadError \/ Scan!Kill
    /\ UNCHANGED vars

\* Mutant: no job is enqueued while there is no key, as before jobs were held.
HandInMutant ==
    /\ Scan!Enqueue
    /\ IF configured THEN EnqueueMatchFile(sha)
       ELSE UNCHANGED <<row, place, of, worker, configured, pass, admin, submitted, owed, counters>>

\* Mutant: an error of Redis is swallowed, and the scan goes on.
HandInSwallowed ==
    /\ Scan!Enqueue
    /\ \/ EnqueueMatchFile(sha)
       \/ /\ faults < MaxFaults
          /\ faults' = faults + 1
          /\ UNCHANGED <<row, place, of, worker, configured, pass, admin, submitted, owed,
                         limits, passes>>

\* The scanner calls enqueue_match_file for the file it has just committed.
HandIn == Scan!Enqueue /\ EnqueueMatchFile(sha)

\* Match all reads the table as it is now, in the middle of a scan or not.
MatchAll == ListUnmatched(Stored) /\ UNCHANGED scanVars

\* Workers, Redis and admins go on.
Queueing == QueueStep /\ UNCHANGED scanVars

PipelineNext == Scanning \/ HandIn \/ MatchAll \/ Queueing

pipelineVars == <<vars, scanVars>>

PipelineSpec == PipelineInit /\ [][PipelineNext]_pipelineVars

\* The scheduler starts scans and the scan worker runs them; the match queue is as
\* fair as its module says.
PipelineFairness ==
    /\ Fairness
    /\ WF_pipelineVars(Scan!StartScan /\ UNCHANGED vars)
    /\ WF_pipelineVars((Scan!WalkStep /\ UNCHANGED vars) \/ HandIn)

FairPipeline == PipelineSpec /\ PipelineFairness

(* ---- properties ---- *)

\* What Intake calls the stage of a file.
Stage(f) ==
    CASE Fate(f) # "unknown" -> Fate(f)
      [] Fate(f) = "unknown" /\ f \in Stored -> "new"
      [] OTHER -> "absent"

\* The file the scanner has stored and not yet handed in.
InHand == IF pc = "enqueue" THEN sha ELSE Null

Take == INSTANCE Intake WITH
    Nobody <- Null,
    stage <- [f \in Files |-> Stage(f)],
    hand <- InHand,
    clearing <- Clearing,
    troubles <- scanFaults

\* From the disk to a verdict: jobs are only ever made for stored files; a scan
\* stores one new file at a time and hands it in before the next, whatever Match all
\* does meanwhile; only its being killed loses one; and what was handed in, by the
\* scan or by a pass, is judged, pending or listed until an admin clears it.
StoredIsHandedIn == Take!Spec

\* The row of the file a job names is there: no job outruns the commit.
JobsHaveFiles == \A j \in Jobs : place[j] # "free" \/ Held(j) => of[j] \in Stored

\* No job was ever enqueued for the file, and the scan that stored it is gone.
Lost(f) == f \in Stored \ submitted /\ InHand # f

\* Every one of them is due to a killed scan of its own.
FewLost == Cardinality({f \in Files : Lost(f)}) <= scanFaults

\* Once the disk and the settings are left alone and there is a key, every readable
\* file of a library is in the table, and judged or listed as failed; but for those
\* a killed scan or an admin's clearing let go of, and unless a malformed file at a
\* known path ends every scan, when files after it may never be stored.
LibraryMatched ==
    <>[](\/ Scan!Blocked
         \/ \A p \in Paths :
                LibraryOf[p] \in libraries /\ Scan!Readable(p) =>
                    /\ Scan!Current(p)
                    /\ LET f == loc[p].file
                       IN  \/ ~configured
                           \/ Fate(f) \in {"judged", "listed", "dropped"}
                           \/ Lost(f) /\ scanFaults > 0)

\* The safety behind it, for the proofs: after a whole scan of a library that was left
\* alone meanwhile, every file of it that opens is in the table and was handed in; but
\* for one that a scan stored and then failed.
ScannedIsHandedIn ==
    pc = "done" /\ touched = {} =>
        \A p \in Scan!Under(walked) \ failed :
            Scan!Readable(p) =>
                /\ Scan!Current(p)
                /\ Fate(loc[p].file) # "unknown" \/ (Lost(loc[p].file) /\ scanFaults > 0)

(* What links the two, for the proofs. *)

\* What was handed in, or is about to be, is in the table; only what was handed in
\* has a row; and the scanner's calls are among what was handed in.
Linked ==
    /\ scanned \subseteq submitted
    /\ submitted \union pass \subseteq Stored
    /\ \A f \in Files : row[f] # "none" => f \in submitted

=============================================================================
