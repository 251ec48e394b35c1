----------------------------- MODULE MCEventually -----------------------------
(***************************************************************************)
(* What must eventually happen, for TLC in one run. The components share      *)
(* nothing here: a behaviour is one of the error list, of a page that polls, *)
(* or of the scanner, and the others stay where they start.                   *)
(* Each is as fair as its own module says; an action that waits for its        *)
(* component's turn would make that empty, so the turn is part of the action.   *)
(***************************************************************************)
EXTENDS FileErrors, Hydration

CONSTANTS
    Parts,          \* the components to run
    Paths, Contents, Libraries, Corrupt, Malformed, None

VARIABLES
    part,           \* the one that runs
    disk, mounted, configured, files, loc, seen, pc, scope, roots, unlisted, dir, cur,
    stat, sha, fresh, enqueued, walked, failed, touched, torn, stirs, faults

Scan == INSTANCE Scanner WITH
    listed <- dir, changes <- stirs,
    LibraryOf <- [p \in Paths |-> CHOOSE l \in Libraries : TRUE],
    Size <- [c \in Contents |-> IF c \in Corrupt \union Malformed THEN 2 ELSE 1],
    Mtimes <- {1}, MaxChanges <- 3, MaxFaults <- 1

scanVars == <<disk, mounted, configured, files, loc, seen, pc, scope, roots, unlisted, dir,
              cur, stat, sha, fresh, enqueued, walked, failed, touched, torn, stirs, faults>>

EventuallyInit ==
    /\ part \in Parts
    /\ FileErrorsInit
    /\ HydrationInit /\ (part = "polls" \/ (page = "cards" /\ \A e \in Entities : Hydrated(e)))
    /\ Scan!Init

EventuallyNext ==
    \/ part = "errors" /\ FileErrorsNext /\ UNCHANGED <<part, hydrationVars, scanVars>>
    \/ part = "polls" /\ HydrationNext /\ UNCHANGED <<part, fileErrorsVars, scanVars>>
    \/ part = "scans" /\ Scan!Next /\ UNCHANGED <<part, fileErrorsVars, hydrationVars>>

\* Fairness of FileErrors, Hydration and Scanner.
EventuallyFairness ==
    /\ WF_fileErrorsVars(part = "errors" /\ ScanStep)
    /\ \A r \in Covers \cup Operators : WF_fileErrorsVars(part = "errors" /\ LookStep(r))
    /\ WF_hydrationVars(part = "polls" /\ \E p \in Polls : Poll(p))
    /\ \A p \in Polls : WF_hydrationVars(part = "polls" /\ PollStep(p))
    /\ \A e \in Entities : WF_hydrationVars(part = "polls" /\ EndJob(e))
    /\ WF_scanVars(part = "scans" /\ Scan!StartScan)
    /\ WF_scanVars(part = "scans" /\ Scan!ScanStep)

EventuallySpec ==
    /\ EventuallyInit
    /\ [][EventuallyNext]_<<part, fileErrorsVars, hydrationVars, scanVars>>
    /\ EventuallyFairness

\* The scanner's Converges: see there.
Converges == Scan!Converges

=============================================================================
