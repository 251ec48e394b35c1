----------------------------- MODULE FileErrors ------------------------------
(***************************************************************************)
(* The list of files that do not work, for one path of a library: the        *)
(* scanner, the cover endpoint and an admin's retry each look at the archive  *)
(* and then record or clear rows of file_errors, while the file is replaced   *)
(* under them.                                                             *)
(*                                                                         *)
(* Left out: texts and times of the errors, the file id of a row, the rest    *)
(* of what a scan stores (Scanner), a path that is gone.                     *)
(***************************************************************************)
EXTENDS Naturals

CONSTANTS
    Covers,         \* requests of the cover endpoint
    Operators,      \* requests of /admin/file-errors
    MaxChanges      \* bound on replacements of the file

ASSUME FileErrorsAssumption == MaxChanges \in Nat

VARIABLES
    broken,         \* which kinds fail for the file on disk
    located,        \* file_locations has the path
    known,          \* and its mtime and size are those of the file on disk
    listed,         \* the kinds in file_errors for the path
    visit,          \* the scanner at the path
    look,           \* [Covers \cup Operators -> LookStates]
    changes         \* used up of the bound

fileErrorsVars == <<broken, located, known, listed, visit, look, changes>>

Kinds == {"archive_open", "comicinfo_parse", "cover_extraction"}

\* saw: what failed when the archive was read; moved: it was replaced since.
VisitStates == [pc : {"idle", "record", "parse", "store", "clear"},
                saw : SUBSET Kinds, moved : BOOLEAN]
NoVisit == [pc |-> "idle", saw |-> {}, moved |-> FALSE]

LookStates == [pc : {"idle", "open", "record", "clear"}, kind : Kinds]
NoLook == [pc |-> "idle", kind |-> "archive_open"]

FileErrorsInit ==
    /\ broken = {} /\ located = FALSE /\ known = FALSE
    /\ listed = {}
    /\ visit = NoVisit
    /\ look = [r \in Covers \cup Operators |-> NoLook]
    /\ changes = 0

\* The file is overwritten by one that fails, or works, in another way.
Replace(kinds) ==
    /\ changes < MaxChanges
    /\ changes' = changes + 1
    /\ broken' = kinds
    /\ known' = FALSE
    /\ visit' = [visit EXCEPT !.moved = TRUE]
    /\ UNCHANGED <<located, listed, look>>

(* ---- the scanner ---- *)

\* Mutant: the fast path clears nothing.
SkipUnchangedMutant ==
    /\ visit.pc = "idle"
    /\ known
    /\ visit' = NoVisit
    /\ UNCHANGED <<broken, located, known, listed, look, changes>>

\* Path, mtime and size are known: the archive is not opened.
SkipUnchanged ==
    /\ visit.pc = "idle"
    /\ known
    /\ visit' = [NoVisit EXCEPT !.pc = "clear"]
    /\ UNCHANGED <<broken, located, known, listed, look, changes>>

\* Otherwise it is read: pages, ComicInfo, cover; only the first must work.
ReadArchive ==
    /\ visit.pc = "idle"
    /\ ~known
    /\ visit' = [pc |-> IF "archive_open" \in broken THEN "record"
                        ELSE IF "comicinfo_parse" \in broken THEN "parse" ELSE "store",
                 saw |-> broken, moved |-> FALSE]
    /\ UNCHANGED <<broken, located, known, listed, look, changes>>

\* ArchiveError and its like: recorded, and on to the next path.
RecordUnreadable ==
    /\ visit.pc = "record"
    /\ listed' = listed \cup {"archive_open"}
    /\ visit' = NoVisit
    /\ UNCHANGED <<broken, located, known, look, changes>>

\* A ComicInfo that does not parse is recorded on the way. If the path has a
\* location, that row is expired now, and reading it ends the scan.
RecordUnparsable ==
    /\ visit.pc = "parse"
    /\ listed' = listed \cup {"comicinfo_parse"}
    /\ visit' = IF located THEN NoVisit ELSE [visit EXCEPT !.pc = "store"]
    /\ UNCHANGED <<broken, located, known, look, changes>>

\* Mutant: the mtime is read again when the location is stored.
StoreLocationMutant ==
    /\ visit.pc = "store"
    /\ located' = TRUE /\ known' = TRUE
    /\ visit' = [visit EXCEPT !.pc = "clear"]
    /\ UNCHANGED <<broken, listed, look, changes>>

\* The file and its location are committed, with the mtime read at first.
StoreLocation ==
    /\ visit.pc = "store"
    /\ located' = TRUE
    /\ known' = ~visit.moved
    /\ visit' = [visit EXCEPT !.pc = "clear"]
    /\ UNCHANGED <<broken, listed, look, changes>>

\* clear_errors_for_path.
ClearPath ==
    /\ visit.pc = "clear"
    /\ listed' = {}
    /\ visit' = NoVisit
    /\ UNCHANGED <<broken, located, known, look, changes>>

(* ---- the cover endpoint and the admin ---- *)

\* A cover cannot be had from an archive that does not open, either.
ExtractCover(r) ==
    /\ look[r].pc = "idle"
    /\ located
    /\ look' = [look EXCEPT ![r] =
          [kind |-> "cover_extraction",
           pc |-> IF broken \cap {"archive_open", "cover_extraction"} # {}
                    THEN "record" ELSE "clear"]]
    /\ UNCHANGED <<broken, located, known, listed, visit, changes>>

\* clear_error_for_path_and_kind.
ClearCover(r) ==
    /\ look[r].pc = "clear"
    /\ listed' = listed \ {"cover_extraction"}
    /\ look' = [look EXCEPT ![r] = NoLook]
    /\ UNCHANGED <<broken, located, known, visit, changes>>

\* try_open_archive reads the row ...
TryOpen(r, kind) ==
    /\ look[r].pc = "idle"
    /\ kind \in listed
    /\ look' = [look EXCEPT ![r] = [pc |-> "open", kind |-> kind]]
    /\ UNCHANGED <<broken, located, known, listed, visit, changes>>

\* ... opens the archive in a thread ...
OpenArchive(r) ==
    /\ look[r].pc = "open"
    /\ look' = [look EXCEPT ![r].pc = IF "archive_open" \in broken THEN "record" ELSE "clear"]
    /\ UNCHANGED <<broken, located, known, listed, visit, changes>>

\* ... and if it opens, clears every kind.
ClearOpened(r) ==
    /\ look[r].pc = "clear"
    /\ listed' = {}
    /\ look' = [look EXCEPT ![r] = NoLook]
    /\ UNCHANGED <<broken, located, known, visit, changes>>

\* record_error, by either; an UPSERT, so the row may have been gone.
RecordAgain(r) ==
    /\ look[r].pc = "record"
    /\ listed' = listed \cup {look[r].kind}
    /\ look' = [look EXCEPT ![r] = NoLook]
    /\ UNCHANGED <<broken, located, known, visit, changes>>

\* dismiss_file_error.
Dismiss(r, kind) ==
    /\ look[r].pc = "idle"
    /\ kind \in listed
    /\ listed' = listed \ {kind}
    /\ UNCHANGED <<broken, located, known, visit, look, changes>>

ScanStep ==
    SkipUnchanged \/ ReadArchive \/ RecordUnreadable \/ RecordUnparsable \/ StoreLocation
        \/ ClearPath

LookStep(r) == IF r \in Covers THEN ClearCover(r) \/ RecordAgain(r)
               ELSE OpenArchive(r) \/ ClearOpened(r) \/ RecordAgain(r)

FileErrorsNext ==
    \/ \E kinds \in SUBSET Kinds : Replace(kinds)
    \/ ScanStep
    \/ \E r \in Covers : ExtractCover(r)
    \/ \E r \in Operators, kind \in Kinds : TryOpen(r, kind) \/ Dismiss(r, kind)
    \/ \E r \in Covers \cup Operators : LookStep(r)

FileErrorsSpec == FileErrorsInit /\ [][FileErrorsNext]_fileErrorsVars

\* Scans come round by the schedule, and requests end.
FileErrorsFairness ==
    /\ WF_fileErrorsVars(ScanStep)
    /\ \A r \in Covers \cup Operators : WF_fileErrorsVars(LookStep(r))

(* ---- properties ---- *)

FileErrorsTypes ==
    /\ broken \subseteq Kinds /\ listed \subseteq Kinds
    /\ located \in BOOLEAN /\ known \in BOOLEAN
    /\ visit \in VisitStates
    /\ look \in [Covers \cup Operators -> LookStates]
    /\ changes \in 0..MaxChanges

\* An archive that does not open comes back to the list, whoever dismissed or
\* cleared its row and whatever version of it they had looked at.
UnreadableIsListed ==
    (<>[]("archive_open" \in broken)) => []<>("archive_open" \in listed)

\* Why it does: the fast path, which clears the path's rows, is never taken for it.
UnreadableIsRead == known => located /\ "archive_open" \notin broken

\* A file that works again leaves the list for good, although requests that saw
\* the old one may record it once more.
RepairedIsUnlisted == (<>[](broken = {})) => <>[](listed = {})

\* "every kind that could have fired for it (archive_open, cover_extraction,
\* comicinfo_parse) has just been re-tried inside _process_one_file and didn't
\* raise": what a scan clears is no failure of the file as it has been since.
OnlyRetriedCleared ==
    [][(visit.pc = "clear" /\ visit'.pc = "idle" /\ ~visit.moved)
          => listed \cap broken = {}]_fileErrorsVars

=============================================================================
