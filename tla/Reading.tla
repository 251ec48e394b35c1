------------------------------- MODULE Reading -------------------------------
(***************************************************************************)
(* How far one user has read one file. Reader tabs send their page, never    *)
(* waiting for an answer, after a pause and once more when they are closed;   *)
(* the server reads the row and commits it in two steps, so saves overlap,    *)
(* overtake each other and meet resets.                                     *)
(*                                                                         *)
(* SQLAlchemy is modelled from how the code uses it: an UPDATE names the      *)
(* columns that differ from what was loaded; it fails if the row is gone, an  *)
(* INSERT fails if it is there.                                             *)
(*                                                                         *)
(* Left out: reading directions, covers and labels of the cards, images.      *)
(***************************************************************************)
EXTENDS Naturals

CONSTANTS
    Tabs,           \* open readers of the file
    Saves,          \* save and reset requests that can be in flight
    PageCount,      \* pages of the archive
    MaxOpened,      \* bound on readers opened
    MaxSent         \* bound on requests

ASSUME ReadingAssumption ==
    PageCount \in Nat \ {0} /\ MaxOpened \in Nat /\ MaxSent \in Nat

VARIABLES
    tracks,         \* User.track_reading_progress
    resolved,       \* is_file_match_resolved
    progress,       \* the row of read_progress, or NoProgress
    tab,            \* [Tabs -> [open, page, tracking, unsent]]
    save,           \* [Saves -> SaveStates]
    opened, sent,   \* used up of the bounds
    latest,         \* history: the page sent last since there was a row to reset
    crossed         \* history: requests overlapped, or a save was lost or refused

readingVars == <<tracks, resolved, progress, tab, save, opened, sent, latest, crossed>>

Pages == 0..PageCount - 1

NoProgress == [page |-> PageCount, finished |-> FALSE]
ProgressRows == [page : Pages, finished : BOOLEAN] \cup {NoProgress}

SaveStates == [what : {"none", "save", "reset", "toggle"}, pc : {"sent", "gate", "write"},
               page : Pages, loaded : ProgressRows, tracked : BOOLEAN]

NoSave == [what |-> "none", pc |-> "sent", page |-> 0, loaded |-> NoProgress,
           tracked |-> FALSE]

Closed == [open |-> FALSE, page |-> 0, tracking |-> FALSE, unsent |-> FALSE]

ReadingInit ==
    /\ tracks = TRUE /\ resolved = TRUE
    /\ progress = NoProgress
    /\ tab = [t \in Tabs |-> Closed]
    /\ save = [s \in Saves |-> NoSave]
    /\ opened = 0 /\ sent = 0
    /\ latest = PageCount /\ crossed = FALSE

(* ---- the reader in the browser ---- *)

\* GET /read: resume where the row says, unless it is a preview.
OpenReader(t, preview) ==
    /\ ~tab[t].open
    /\ opened < MaxOpened
    /\ opened' = opened + 1
    /\ tab' = [tab EXCEPT ![t] =
          [open |-> TRUE, unsent |-> FALSE,
           tracking |-> ~preview /\ tracks,
           page |-> IF preview \/ progress = NoProgress THEN 0 ELSE progress.page]]
    /\ UNCHANGED <<tracks, resolved, progress, save, sent, latest, crossed>>

\* next and prev; the timer that collects page flips starts.
Flip(t, page) ==
    /\ tab[t].open
    /\ page \in {tab[t].page + 1, tab[t].page - 1} \cap Pages
    /\ tab' = [tab EXCEPT ![t].page = page, ![t].unsent = tab[t].tracking]
    /\ UNCHANGED <<tracks, resolved, progress, save, opened, sent, latest, crossed>>

Send(s, what, page) ==
    /\ save[s].what = "none"
    /\ sent < MaxSent
    /\ sent' = sent + 1
    /\ save' = [save EXCEPT ![s] = [NoSave EXCEPT !.what = what, !.page = page]]
    /\ crossed' = (crossed \/ \E r \in Saves : save[r].what # "none")

\* flushProgress, by the timer, or by close and pagehide: then whether or not
\* there is anything new to save.
Flush(t, s, close) ==
    /\ tab[t].open
    /\ tab[t].tracking
    /\ close \/ tab[t].unsent
    /\ Send(s, "save", tab[t].page)
    /\ tab' = [tab EXCEPT ![t] = IF close THEN Closed ELSE [@ EXCEPT !.unsent = FALSE]]
    /\ latest' = tab[t].page
    /\ UNCHANGED <<tracks, resolved, progress, opened>>

\* A tab that saves nothing is closed, or the browser is gone without a word.
CloseSilently(t) ==
    /\ tab[t].open
    /\ tab' = [tab EXCEPT ![t] = Closed]
    /\ UNCHANGED <<tracks, resolved, progress, save, opened, sent, latest, crossed>>

\* The buttons Reset reading progress and incognito reading.
Press(s, what) ==
    /\ Send(s, what, 0)
    /\ UNCHANGED <<tracks, resolved, progress, tab, opened, latest>>

(* ---- the server ---- *)

\* RequireUserDep loads the user, and with it whether progress is tracked.
LoadUser(s) ==
    /\ save[s].what # "none" /\ save[s].pc = "sent"
    /\ save' = [save EXCEPT ![s].pc = IF save[s].what = "toggle" THEN "write" ELSE "gate",
                            ![s].tracked = tracks]
    /\ UNCHANGED <<tracks, resolved, progress, tab, opened, sent, latest, crossed>>

\* save_read_progress_route up to the load of the row in save_read_progress.
PassGates(s) ==
    /\ save[s].what = "save" /\ save[s].pc = "gate"
    /\ save' = IF save[s].tracked /\ resolved
                 THEN [save EXCEPT ![s].pc = "write", ![s].loaded = progress]
                 ELSE [save EXCEPT ![s] = NoSave]
    /\ crossed' = (crossed \/ ~save[s].tracked \/ ~resolved)
    /\ UNCHANGED <<tracks, resolved, progress, tab, opened, sent, latest>>

\* Mutant: the row is written whole, as it was loaded.
SavedRowWholeMutant(loaded, row, page) ==
    [page |-> page, finished |-> loaded.finished \/ page = PageCount - 1]

\* Mutant: only progress forward is saved.
SavedRowMutant(loaded, row, page) ==
    [page |-> IF loaded = NoProgress \/ page > loaded.page THEN page ELSE row.page,
     finished |-> row.finished \/ (~loaded.finished /\ page = PageCount - 1)]

\* The row a save leaves, given the row that is there at its commit.
SavedRow(loaded, row, page) ==
    [page |-> IF loaded = NoProgress \/ page # loaded.page THEN page ELSE row.page,
     finished |-> row.finished \/ (~loaded.finished /\ page = PageCount - 1)]

\* save_read_progress commits, or fails because its row came or went.
SaveProgress(s) ==
    /\ save[s].what = "save" /\ save[s].pc = "write"
    /\ progress' = IF (save[s].loaded = NoProgress) = (progress = NoProgress)
                     THEN SavedRow(save[s].loaded, progress, save[s].page)
                     ELSE progress
    /\ save' = [save EXCEPT ![s] = NoSave]
    /\ UNCHANGED <<tracks, resolved, tab, opened, sent, latest, crossed>>

\* reset_read_progress: load the row, delete it, commit.
LoadForReset(s) ==
    /\ save[s].what = "reset" /\ save[s].pc = "gate"
    /\ save' = IF progress = NoProgress
                 THEN [save EXCEPT ![s] = NoSave]
                 ELSE [save EXCEPT ![s].pc = "write"]
    /\ UNCHANGED <<tracks, resolved, progress, tab, opened, sent, latest, crossed>>

ResetProgress(s) ==
    /\ save[s].what = "reset" /\ save[s].pc = "write"
    /\ progress' = NoProgress
    /\ latest' = PageCount
    /\ save' = [save EXCEPT ![s] = NoSave]
    /\ UNCHANGED <<tracks, resolved, tab, opened, sent, crossed>>

\* toggle_reading_tracking stores the opposite of what it loaded.
ToggleTracking(s) ==
    /\ save[s].what = "toggle" /\ save[s].pc = "write"
    /\ tracks' = ~save[s].tracked
    /\ save' = [save EXCEPT ![s] = NoSave]
    /\ UNCHANGED <<resolved, progress, tab, opened, sent, latest, crossed>>

\* A save is lost: no network, or the server is restarted.
Lose(s) ==
    /\ save[s].what # "none"
    /\ save' = [save EXCEPT ![s] = NoSave]
    /\ crossed' = TRUE
    /\ UNCHANGED <<tracks, resolved, progress, tab, opened, sent, latest>>

\* The file is matched, or its match undone, by somebody else.
Review ==
    /\ resolved' = ~resolved
    /\ UNCHANGED <<tracks, progress, tab, save, opened, sent, latest, crossed>>

ReadingNext ==
    \/ \E t \in Tabs :
          \/ \E preview \in BOOLEAN : OpenReader(t, preview)
          \/ \E page \in Pages : Flip(t, page)
          \/ \E s \in Saves, close \in BOOLEAN : Flush(t, s, close)
          \/ CloseSilently(t)
    \/ \E s \in Saves :
          \/ \E what \in {"reset", "toggle"} : Press(s, what)
          \/ LoadUser(s) \/ PassGates(s) \/ SaveProgress(s)
          \/ LoadForReset(s) \/ ResetProgress(s) \/ ToggleTracking(s) \/ Lose(s)
    \/ Review

ReadingSpec == ReadingInit /\ [][ReadingNext]_readingVars

(* ---- properties ---- *)

ReadingTypes ==
    /\ tracks \in BOOLEAN /\ resolved \in BOOLEAN
    /\ progress \in ProgressRows
    /\ tab \in [Tabs -> [open : BOOLEAN, page : Pages, tracking : BOOLEAN, unsent : BOOLEAN]]
    /\ save \in [Saves -> SaveStates]
    /\ opened \in 0..MaxOpened /\ sent \in 0..MaxSent
    /\ latest \in 0..PageCount
    /\ crossed \in BOOLEAN

\* list_continue_reading and list_recently_read.
OnContinueReading ==
    progress # NoProgress /\ ~progress.finished /\ progress.page > 0 /\ resolved
OnRecentlyRead == progress # NoProgress /\ progress.finished /\ resolved

\* A comic that was read to its end stays on the shelf of those: saves that
\* loaded the row before, or arrive late, do not bring it back among the
\* unfinished. Only a reset takes it off, or a review of its match.
FinishedStays ==
    [][OnRecentlyRead => \/ OnRecentlyRead' \/ ~resolved'
                         \/ progress' = NoProgress]_readingVars

\* A save whose user was loaded while progress was tracked.
Allowed == \E s \in Saves : save[s].what = "save" /\ save[s].tracked

\* Incognito: when tracking is off and the saves that were let through before
\* are done, nothing is recorded; a tab that was opened while it was on, and
\* goes on sending, changes nothing.
NoTrail ==
    [][(~tracks /\ ~Allowed) => progress' \in {progress, NoProgress}]_readingVars

\* Resuming works: unless requests overlapped, or one was lost or refused, the
\* row holds the page that was sent last, whatever tabs are open, were resumed
\* from the row or were reset in between.
LastPageKept ==
    ((\A s \in Saves : save[s].what = "none") /\ ~crossed /\ latest \in Pages)
        => progress.page = latest

=============================================================================
