----------------------------- MODULE FileMatches -----------------------------
(***************************************************************************)
(* The file_matches table and everything that writes it.                   *)
(*                                                                         *)
(* A file of the library has at most one file_matches row: its status and  *)
(* at most one of three targets, a ComicVine issue, a local issue or a     *)
(* ComicVine volume the file supplements.  Two kinds of writers work on a  *)
(* row at the same time:                                                   *)
(*                                                                         *)
(*   - match jobs, run by the RQ workers of the default queue.  A job      *)
(*     reads the row once, then talks to ComicVine for seconds or minutes, *)
(*     then upserts its verdict without reading the row again;             *)
(*                                                                         *)
(*   - requests of the reviewers, served by the web process.  A request    *)
(*     loads rows into its ORM session and, when it commits, updates only  *)
(*     the columns it changed, with no row lock and no version column.     *)
(*                                                                         *)
(* Postgres runs both at READ COMMITTED.  The row locks a request takes     *)
(* between its first flush and its commit only delay the other writers and *)
(* are left out, and so are the text, confidence, source and candidate     *)
(* columns: no property tells them apart.  No row is deleted here: the     *)
(* cascade of a volume merge is in LocalVolumes.  The scanner's enqueue of *)
(* a new file is in Pipeline: here its job may be waiting from Init on.    *)
(***************************************************************************)
EXTENDS Naturals, FiniteSets

CONSTANTS
    Files,      \* rows of the files table
    Issues,     \* rows of cv_issues a file can be matched to
    Volumes,    \* rows of cv_volumes a file can supplement
    LocalIds,   \* primary keys of local_issues
    Requests,   \* reviewers, each with at most one request being served
    Matchers,   \* RQ worker processes of the default queue
    MaxWaiting, \* bound: match jobs of one file waiting at the same time
    Null        \* SQL NULL, and the absence of a job

ASSUME MaxWaitingAssumption == MaxWaiting \in Nat

ASSUME NullAssumption ==
    Null \notin Files \union Issues \union Volumes \union LocalIds \union Requests

VARIABLES
    match,      \* the file_matches row of each file, NoRow when there is none
    excluded,   \* the files whose excluded_from_matching is set
    waiting,    \* match jobs of each file that can still run: queued, delayed,
                \* or in the failed registry until somebody requeues or drops them
    job,        \* the file each matcher is working on
    op,         \* what the request of each reviewer is doing
    todo,       \* the files a bulk request still has to treat
    read,       \* the row of each file as the request's session loaded it
    want,       \* the row of each file as the request assigned it
    raced,      \* history: the files on which two writers overlapped
    late        \* history: the files a match was asked for when their decision was taken

reviewVars == <<op, todo, read, want>>
queueVars == <<waiting, job>>
vars == <<match, excluded, waiting, job, op, todo, read, want, raced, late>>

-----------------------------------------------------------------------------
(* Rows *)

MatchStatus ==
    {"auto", "confirmed", "pending", "rejected", "unmatched", "local", "supplement"}

Reviewable == {"pending", "unmatched"}

Settled == {"local", "supplement"}

\* What a reviewer decides.
Decided == Settled \union {"confirmed", "rejected"}

Row == [status : MatchStatus,
        issue  : Issues \union {Null},
        local  : LocalIds \union {Null},
        supp   : Volumes \union {Null},
        by     : Requests \union {Null}]

NoRow == [status |-> "none", issue |-> Null, local |-> Null, supp |-> Null, by |-> Null]

Exists(row) == row.status # "none"

\* The CHECK constraint ck_file_matches_single_target.
SingleTargetRow(row) ==
    /\ row.issue = Null \/ row.local = Null
    /\ row.issue = Null \/ row.supp = Null
    /\ row.local = Null \/ row.supp = Null

\* The resolved statuses name the column that holds their target.
TargetMatchesStatus(row) ==
    /\ row.status \in {"auto", "confirmed"} => row.issue # Null
    /\ row.status = "local" => row.local # Null
    /\ row.status = "supplement" => row.supp # Null

\* matched_by: set on human decisions, NULL on the matcher's.
AuthorMatchesStatus(row) == row.by # Null <=> row.status \in Decided

\* A row a reviewer decided, with everything the decision comes with.
WholeDecision(row) ==
    /\ row \in Row
    /\ row.by # Null
    /\ TargetMatchesStatus(row)
    /\ AuthorMatchesStatus(row)

-----------------------------------------------------------------------------
(* What the handlers assign to a row *)

\* confirm_file_match, and each row of volume-confirm and of fix-match.
Confirmed(row, i, who) ==
    [status |-> "confirmed", issue |-> i, local |-> row.local, supp |-> row.supp, by |-> who]

\* reject_file_match.
Rejected(row, who) ==
    [status |-> "rejected", issue |-> Null, local |-> row.local, supp |-> row.supp, by |-> who]

\* create_local_entry, and each row of the two local-group operations.
Localised(l, who) ==
    [status |-> "local", issue |-> Null, local |-> l, supp |-> Null, by |-> who]

\* attach_supplement.
Supplemented(v, who) ==
    [status |-> "supplement", issue |-> Null, local |-> Null, supp |-> v, by |-> who]

\* Mutant: an upsert whose SET list lost issue_cv_id.
JudgedMutant(row, s, i) ==
    [status |-> s, issue |-> row.issue, local |-> row.local, supp |-> row.supp, by |-> Null]

\* The conflict branch and the insert branch of the matcher's upsert: only
\* these columns are in its SET list.
Judged(row, s, i) ==
    [status |-> s, issue |-> i, local |-> row.local, supp |-> row.supp, by |-> Null]

\* The unit of work's UPDATE: a column is in the SET list only when the value
\* assigned differs from the value loaded; the others keep what the table holds.
Flushed(current, loaded, assigned) ==
    [c \in DOMAIN current |-> IF assigned[c] = loaded[c] THEN current[c] ELSE assigned[c]]

-----------------------------------------------------------------------------
(* Who holds a file *)

\* The files whose row is in the session of request r.
Loaded(r) == {f \in Files : Exists(read[r][f])}

\* A writer other than request r has read f and not finished.
HeldByOthers(r, f) ==
    \/ \E q \in Requests \ {r} : f \in Loaded(q)
    \/ \E m \in Matchers : job[m] = f

HeldByRequest(f) == \E q \in Requests : f \in Loaded(q)

\* A match of f has been asked for and has not ended: a job runs or can still run,
\* or Match all has listed the file.
Asked(f) ==
    \/ waiting[f] > 0
    \/ \E m \in Matchers : job[m] = f
    \/ \E r \in Requests : op[r] = "matchAll" /\ f \in todo[r]

\* A local issue id nobody mentions: the primary key of a row about to be added.
FreshLocal(l) ==
    /\ \A f \in Files : match[f].local # l
    /\ \A r \in Requests, f \in Files : read[r][f].local # l /\ want[r][f].local # l

-----------------------------------------------------------------------------
Init ==
    /\ match = [f \in Files |-> NoRow]
    /\ excluded = {}
    /\ waiting \in [Files -> {0, 1} \intersect 0..MaxWaiting]
    /\ job = [m \in Matchers |-> Null]
    /\ op = [r \in Requests |-> "idle"]
    /\ todo = [r \in Requests |-> {}]
    /\ read = [r \in Requests |-> [f \in Files |-> NoRow]]
    /\ want = [r \in Requests |-> [f \in Files |-> NoRow]]
    /\ raced = {}
    /\ late = {}

-----------------------------------------------------------------------------
(* Match jobs *)

\* Mutant: the early return for settled files is missing.
BeginMatchMutant(m, f) ==
    /\ job[m] = Null
    /\ waiting[f] > 0
    /\ waiting' = [waiting EXCEPT ![f] = @ - 1]
    /\ job' = IF f \in excluded THEN job ELSE [job EXCEPT ![m] = f]
    /\ UNCHANGED <<match, excluded, reviewVars, raced>>

\* A worker takes a job.  A file that is settled or excluded is left alone; for
\* any other the row is not looked at again until the verdict is written.
BeginMatch(m, f) ==
    /\ job[m] = Null
    /\ waiting[f] > 0
    /\ waiting' = [waiting EXCEPT ![f] = @ - 1]
    /\ job' = IF match[f].status \in Settled \/ f \in excluded
              THEN job
              ELSE [job EXCEPT ![m] = f]
    /\ UNCHANGED <<match, excluded, reviewVars, raced>>

\* The verdicts of the pipeline: only an automatic match names an issue.
Verdict == ({"auto"} \X Issues) \union (Reviewable \X {Null})

\* _persist, then the job returns.  The upsert fails when the row it would leave
\* violates the CHECK constraint: see ReleaseJob.
Persist(m) ==
    /\ job[m] # Null
    /\ \E v \in Verdict :
        LET f == job[m]
            row == Judged(match[f], v[1], v[2])
        IN /\ SingleTargetRow(row)
           /\ match' = [match EXCEPT ![f] = row]
           /\ raced' = IF row # match[f] /\ HeldByRequest(f) THEN raced \union {f} ELSE raced
    /\ job' = [job EXCEPT ![m] = Null]
    /\ UNCHANGED <<excluded, waiting, reviewVars>>

\* The job ends without a verdict and can run again: ComicVine limits the rate and
\* a delayed job for the same file replaces it, or it goes to the failed registry,
\* on the CHECK constraint, any other exception, its timeout or a worker's death.
ReleaseJob(m) ==
    /\ job[m] # Null
    /\ waiting[job[m]] < MaxWaiting
    /\ waiting' = [waiting EXCEPT ![job[m]] = @ + 1]
    /\ job' = [job EXCEPT ![m] = Null]
    /\ UNCHANGED <<match, excluded, reviewVars, raced>>

\* The failed-jobs page: drop a job for good.
DropJob(f) ==
    /\ waiting[f] > 0
    /\ waiting' = [waiting EXCEPT ![f] = @ - 1]
    /\ UNCHANGED <<match, excluded, job, reviewVars, raced>>

-----------------------------------------------------------------------------
(* Requests *)

\* Load the rows of the files of S at once and assign to each what new says.
Load(r, S, new) ==
    /\ read' = [read EXCEPT ![r] = [f \in Files |-> IF f \in S THEN match[f] ELSE @[f]]]
    /\ want' = [want EXCEPT ![r] = [f \in Files |-> IF f \in S THEN new[f] ELSE @[f]]]

\* A handler for one file: no test of the row's status.
OpenSingle(r, f, row) ==
    /\ op[r] = "idle"
    /\ Exists(match[f])
    /\ op' = [op EXCEPT ![r] = "single"]
    /\ Load(r, {f}, [g \in {f} |-> row])
    /\ UNCHANGED <<match, excluded, queueVars, todo, raced>>

ConfirmFile(r, f) == \E i \in Issues : OpenSingle(r, f, Confirmed(match[f], i, r))

RejectFile(r, f) == OpenSingle(r, f, Rejected(match[f], r))

CreateLocalEntry(r, f) ==
    \E l \in LocalIds : FreshLocal(l) /\ OpenSingle(r, f, Localised(l, r))

AttachSupplement(r, f) == \E v \in Volumes : OpenSingle(r, f, Supplemented(v, r))

\* The duplicates page: the file must name an issue, whose volume is the target.
MakeSupplement(r, f) ==
    /\ match[f].issue # Null
    /\ AttachSupplement(r, f)

\* Fix match: every row that points into the wrong volume and has a namesake in
\* the right one is loaded by one SELECT, whatever its status.
FixMatch(r, S) ==
    /\ op[r] = "idle"
    /\ S # {}
    /\ \A f \in S : match[f].issue # Null
    /\ op' = [op EXCEPT ![r] = "single"]
    /\ \E target \in [S -> Issues] :
        Load(r, S, [f \in S |-> Confirmed(match[f], target[f], r)])
    /\ UNCHANGED <<match, excluded, queueVars, todo, raced>>

\* The review queue: a series group is a set of reviewable files not excluded.
InQueue(f) == match[f].status \in Reviewable /\ f \notin excluded

\* A bulk request lists the group first and treats its files one at a time.
OpenGroup(r, what, S) ==
    /\ op[r] = "idle"
    /\ S # {}
    /\ \A f \in S : InQueue(f)
    /\ op' = [op EXCEPT ![r] = what]
    /\ todo' = [todo EXCEPT ![r] = S]
    /\ UNCHANGED <<match, excluded, queueVars, read, want, raced>>

\* Volume-confirm (and bulk-confirm, group by group), the two local-group
\* operations and group-exclude.
OpenVolumeConfirm(r, S) == OpenGroup(r, "volumeConfirm", S)

OpenLocalGroup(r, S) == OpenGroup(r, "localGroup", S)

OpenExcludeGroup(r, S) == OpenGroup(r, "excludeGroup", S)

\* Mutant: the loop of volume-confirm without its defensive test.
ConfirmGroupRowMutant(r, f) ==
    /\ op[r] = "volumeConfirm"
    /\ \E i \in Issues : Load(r, {f}, [g \in {f} |-> Confirmed(match[f], i, r)])

\* The loop of volume-confirm.
ConfirmGroupRow(r, f) ==
    /\ op[r] = "volumeConfirm"
    /\ match[f].status \in Reviewable
    /\ \E i \in Issues : Load(r, {f}, [g \in {f} |-> Confirmed(match[f], i, r)])

\* The loop of the two local-group operations.
LocaliseGroupRow(r, f) ==
    /\ op[r] = "localGroup"
    /\ match[f].status \in Reviewable
    /\ \E l \in LocalIds :
        /\ FreshLocal(l)
        /\ Load(r, {f}, [g \in {f} |-> Localised(l, r)])

\* The defensive test of the bulk loops: a row no longer reviewable is skipped.
SkipGroupRow(r, f) ==
    /\ op[r] \in {"volumeConfirm", "localGroup"}
    /\ match[f].status \notin Reviewable
    /\ UNCHANGED <<read, want>>

\* The next file of the loop.
LoadGroupRow(r, f) ==
    /\ f \in todo[r]
    /\ todo' = [todo EXCEPT ![r] = @ \ {f}]
    /\ ConfirmGroupRow(r, f) \/ LocaliseGroupRow(r, f) \/ SkipGroupRow(r, f)
    /\ UNCHANGED <<match, excluded, queueVars, op, raced>>

Close(r) ==
    /\ op' = [op EXCEPT ![r] = "idle"]
    /\ todo' = [todo EXCEPT ![r] = {}]
    /\ read' = [read EXCEPT ![r] = [f \in Files |-> NoRow]]
    /\ want' = [want EXCEPT ![r] = [f \in Files |-> NoRow]]

\* The row of f once the session of r has flushed.
AfterFlush(r, f) ==
    IF f \in Loaded(r) THEN Flushed(match[f], read[r][f], want[r][f]) ELSE match[f]

\* db.commit(): all the updates, or none when one violates the CHECK constraint.
CommitRequest(r) ==
    /\ op[r] \in {"single", "volumeConfirm", "localGroup"}
    /\ todo[r] = {}
    /\ \A f \in Files : SingleTargetRow(AfterFlush(r, f))
    /\ match' = [f \in Files |-> AfterFlush(r, f)]
    /\ raced' = raced \union {f \in Files : AfterFlush(r, f) # match[f] /\ HeldByOthers(r, f)}
    /\ Close(r)
    /\ UNCHANGED <<excluded, queueVars>>

\* A constraint violation, a closed connection, a restart of the web process.
RollBack(r) ==
    /\ op[r] # "idle"
    /\ Close(r)
    /\ UNCHANGED <<match, excluded, queueVars, raced>>

\* exclude_files_by_series: the group is listed, then flagged by file id.
ExcludeGroup(r) ==
    /\ op[r] = "excludeGroup"
    /\ excluded' = excluded \union todo[r]
    /\ Close(r)
    /\ UNCHANGED <<match, queueVars, raced>>

\* exclude_single_file and mark_file_excluded.
ExcludeFile(f) ==
    /\ f \notin excluded
    /\ excluded' = excluded \union {f}
    /\ UNCHANGED <<match, queueVars, reviewVars, raced>>

\* Mutant: Match all lists every file that is not settled.
SelectUnmatchedMutant(r) ==
    /\ op[r] = "idle"
    /\ op' = [op EXCEPT ![r] = "matchAll"]
    /\ todo' = [todo EXCEPT ![r] = {f \in Files \ excluded : match[f].status \notin Settled}]
    /\ UNCHANGED <<match, excluded, queueVars, read, want, raced>>

\* Match all: select the files worth a retry, then enqueue a job for each.
SelectUnmatched(r) ==
    /\ op[r] = "idle"
    /\ op' = [op EXCEPT ![r] = "matchAll"]
    /\ todo' = [todo EXCEPT ![r] =
            {f \in Files \ excluded : match[f].status \in Reviewable \union {"none"}}]
    /\ UNCHANGED <<match, excluded, queueVars, read, want, raced>>

\* The loop that enqueues them stops short when Redis or the process fails.
EnqueueUnmatched(r) ==
    /\ op[r] = "matchAll"
    /\ \E sent \in SUBSET todo[r] :
        /\ \A f \in sent : waiting[f] < MaxWaiting
        /\ waiting' = [f \in Files |-> IF f \in sent THEN waiting[f] + 1 ELSE waiting[f]]
    /\ Close(r)
    /\ UNCHANGED <<match, excluded, job, raced>>

-----------------------------------------------------------------------------
MatchJob(m) ==
    \/ \E f \in Files : BeginMatch(m, f)
    \/ Persist(m)
    \/ ReleaseJob(m)

Request(r) ==
    \/ \E f \in Files :
        \/ ConfirmFile(r, f)
        \/ RejectFile(r, f)
        \/ CreateLocalEntry(r, f)
        \/ AttachSupplement(r, f)
        \/ MakeSupplement(r, f)
        \/ LoadGroupRow(r, f)
    \/ \E S \in SUBSET Files :
        \/ FixMatch(r, S)
        \/ OpenVolumeConfirm(r, S)
        \/ OpenLocalGroup(r, S)
        \/ OpenExcludeGroup(r, S)
    \/ CommitRequest(r)
    \/ RollBack(r)
    \/ ExcludeGroup(r)
    \/ SelectUnmatched(r)
    \/ EnqueueUnmatched(r)

Admin(f) == DropJob(f) \/ ExcludeFile(f)

\* For the history: whether a match was still asked for when a decision is written.
Remember ==
    late' = {f \in Files : IF match'[f] = match[f]
                           THEN f \in late
                           ELSE match'[f].status \in Decided /\ Asked(f)}

Next ==
    /\ \/ \E m \in Matchers : MatchJob(m)
       \/ \E r \in Requests : Request(r)
       \/ \E f \in Files : Admin(f)
    /\ Remember

Spec == Init /\ [][Next]_vars

-----------------------------------------------------------------------------
(* Properties that hold *)

TypeOK ==
    /\ match \in [Files -> Row \union {NoRow}]
    /\ excluded \subseteq Files
    /\ waiting \in [Files -> 0..MaxWaiting]
    /\ job \in [Matchers -> Files \union {Null}]
    /\ op \in [Requests ->
            {"idle", "single", "volumeConfirm", "localGroup", "excludeGroup", "matchAll"}]
    /\ todo \in [Requests -> SUBSET Files]
    /\ read \in [Requests -> [Files -> Row \union {NoRow}]]
    /\ want \in [Requests -> [Files -> Row \union {NoRow}]]
    /\ raced \subseteq Files
    /\ late \subseteq Files

\* Unless two writers overlapped on the file, its status, its target and its
\* author agree: a resolved status has the target it announces, and matched_by is
\* set exactly on the rows a reviewer decided.
DecisionsIntact ==
    \A f \in Files \ raced :
        TargetMatchesStatus(match[f]) /\ AuthorMatchesStatus(match[f])

\* Unless a job and a reviewer overlapped on the file, a local entry or a
\* supplement is only ever replaced by a reviewer: duplicate, rescheduled and
\* requeued jobs find it settled and leave it alone.
SettledKeptFromMatcher ==
    [][\A f \in Files :
        match[f].status \in Settled /\ match'[f] # match[f] /\ f \notin raced'
            => match'[f].by # Null]_vars

\* Unless another writer came between, the bulk operations of the review queue
\* change only rows that still wait for a decision when they commit.
BulkKeepsDecisions ==
    [][\A r \in Requests, f \in Files :
        (/\ op[r] \in {"volumeConfirm", "localGroup"}
         /\ op'[r] = "idle"
         /\ match'[f] # match[f]
         /\ f \notin raced')
            => match[f].status \in Reviewable]_vars

\* What a reviewer confirmed, rejected, entered locally or attached is reopened, or
\* matched anew, only by a match that had been asked for before the decision: however
\* requests, Match all and jobs overlap, nothing asks for a match of a decided file.
LateVerdictsOnly ==
    [][\A f \in Files :
        match[f].status \in Decided /\ match'[f].status \notin Decided => f \in late]_vars

(* The parts of the inductive invariant behind them. *)

\* While a file is not raced, a request that loaded its row holds it as it is.
SessionsCurrent ==
    \A r \in Requests, f \in Files \ raced : f \in Loaded(r) => read[r][f] = match[f]

\* No job that started when an unraced file was open runs on once it is settled.
JobsInformed ==
    \A m \in Matchers :
        job[m] \in Files \ raced => match[job[m]].status \notin Settled

\* A session holds rows that are still in the table, since nothing deletes one, and
\* assigns to them whole decisions.
AssignmentsIntact ==
    \A r \in Requests : \A f \in Loaded(r) :
        Exists(match[f]) /\ WholeDecision(want[r][f])

\* The bulk handlers assigned only to rows that were reviewable when loaded.
BulkGuarded ==
    \A r \in Requests :
        /\ op[r] \in {"idle", "excludeGroup", "matchAll"} => Loaded(r) = {}
        /\ op[r] \in {"volumeConfirm", "localGroup"} =>
            \A f \in Loaded(r) : read[r][f].status \in Reviewable

\* The conjunction of all parts: what holds between any two steps of the writers,
\* and is strong enough to carry the other properties from one step to the next.
IInv ==
    /\ TypeOK
    /\ DecisionsIntact
    /\ SessionsCurrent
    /\ JobsInformed
    /\ AssignmentsIntact
    /\ BulkGuarded

\* Whoever still means to match a decided file meant to before the decision.
LateKnown == \A f \in Files : match[f].status \in Decided /\ Asked(f) => f \in late

-----------------------------------------------------------------------------
(* What the documentation promises and the code does not keep *)

\* docs/matching.md: the matcher won't overwrite a resolved file on a re-run.  A
\* second job for a file a reviewer confirmed meanwhile replaces the decision.
MatcherKeepsDecisions ==
    [][\A f \in Files :
        match[f].status = "confirmed" /\ match'[f] # match[f] => match'[f].by # Null]_vars

\* match_file's comment: a match job that raced the reviewer's action cannot leave
\* a file settled by hand in a half state, its target set and its status reopened.
SettledStaysSettled ==
    \A f \in Files :
        match[f].status \in Reviewable => match[f].local = Null /\ match[f].supp = Null

=============================================================================
