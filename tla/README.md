# Longboxes: specifications, model checks and proofs

Longboxes is a self-hosted comic library. A web process (FastAPI), a few RQ
workers and an rq-scheduler share one Postgres database and one Redis. The
scanner turns archives on disk into rows; match jobs ask ComicVine which issue a
file is; reviewers settle what the jobs could not. None of the writers locks a
row, versions a row or holds a transaction across a network call, so most of
what can go wrong lies between two steps of two processes. That is what these
modules are about.

Paths below are relative to the repository's root.

## 1. Inventory

### Processes and what they share

| process | runs | writes |
|---|---|---|
| web (`app/main.py`) | every request handler | all tables, the RQ queues, sessions and the pacer's gates in Redis |
| default workers | match jobs (`app/jobs/match_file.py`), revalidation jobs (`app/jobs/revalidate.py`) | `file_matches`, the `cv_*` tables, delayed jobs, the gates |
| scan worker (one) | `app/jobs/scan.py` | `files`, `file_locations`, `file_errors`, match jobs |
| rq-scheduler | the recurring scan | the scan queue |

Postgres runs at READ COMMITTED. SQLAlchemy sessions write, at commit, only the
columns whose assigned value differs from the loaded one.

### Components

| component | state | operations | what makes it hard | what makes it correct |
|---|---|---|---|---|
| **File matches and their reviewers** (`services/review.py`, `services/local.py`, `review/routes.py`, `models/file_match.py`) | one row per file: status, three target columns, author; `files.excluded_from_matching` | confirm, reject, local entry, supplement, fix match, volume/bulk confirm, local group, exclude, Match all | partial updates of rows loaded earlier; a job's read minutes before its write | status, target and author agree; jobs leave settled rows alone; nothing asks for a match of a decided file |
| **Review queue** (`services/review.py`) | none of its own: a listing is two looks at the tables | group by series, cap, load, show | files settled, added or renamed between the looks | whole groups or none, nothing left out in silence |
| **Match queue and failed jobs** (`jobs/match_file.py`, `jobs/queue_status.py`) | RQ's queues and registries | enqueue, hold without a key, put off, fail, requeue, clear | lost answers, dying workers, two administrators | a file is judged or listed as failed, never forgotten |
| **Matcher pipeline** (`matcher/pipeline.py`) | one job's candidates | stages 1 to 4: id, searches, prefilter, fetches, scores | any of its calls can fail or be refused | no winner lost, no implausible automatic match |
| **ComicVine pacer and client** (`comicvine/pacer.py`, `comicvine/client.py`) | a gate (time) per resource type in Redis | acquire, penalize, the retry loop | GET-then-SET from several processes; key expiry | the rate over any window; cool-downs respected; waits bounded |
| **Library scanner** (`scanner/`, `jobs/scan.py`, `models/file.py`) | `files`, `file_locations`, what a running scan noted | walk, stat, hash, store, enqueue, reconcile | the disk changes meanwhile; unmounted roots; killed scans | tables say what is on disk; one match job per content; convergence |
| **File errors** (`services/file_errors.py`) | one row per path and kind | record, clear, retry from the admin page | a pass that records and clears; retries during a scan | an error is listed while it is true |
| **Revalidation** (`jobs/revalidate.py`) | deterministic job ids, markers | enqueue, promote, run, put off | five Redis calls that are not atomic | one refresh per entity, none lost |
| **Auto-refresh of pages** (`static/auto-refresh.js`, `library_browse/routes.py`) | ids a page waits for, its timer | render, poll, swap in, give up | overlapping polls, paging meanwhile | polling ends; complete means complete |
| **ComicVine cache and scraper** (`comicvine/cache.py`, `scrape.py`, `services/cv_helpers.py`) | `cv_*` rows: stub, bulk-only, full; `fetched_at` | get or fetch, hydrate, upsert, clear | concurrent fetches, stubs over full rows | richer data is never replaced by poorer |
| **Local volumes** (`services/local.py`, `models/local.py`) | local volumes and issues | create, edit, attach, merge | check-then-insert, cascades | numbers apart in what is attached; no entry lost in a merge |
| **Duplicates inspector** (`services/duplicates.py`, `admin/routes.py`) | pages administrators hold | list, compare, make supplement | pages rendered at different times | the last copy of an issue is kept; no group disappears |
| **Sessions, login, setup** (`auth/`) | sessions and per-user index in Redis; users | setup, login, logout, sliding expiry | index and keys are separate calls | a logout is final; every session is in its index |
| **Reader and progress** (`services/reader.py`, `reader/`) | one row per user and file | save, reset, resume, incognito | concurrent saves out of order | resuming works; finished stays finished |
| **Library listing** (`services/library.py`) | what a browser has scrolled in | filter, sort, page | pages by offset over a moving list | pages join; counts agree |
| **Volume page and rails** (`services/library.py`, `services/rail.py`) | one page's arcs and window | shelves, arrows, lanes | arcs that leave, return, or are cut by the window | no step of an arc lost; lines apart |
| **Settings** (`services/settings.py`) | key-value rows | get, set | read at different times by long jobs | clamped values |
| **Search, series, health, ComicVine search, parsing** | none of their own | queries, parsers | none | not a matter of states |
| **Archives, web shell, templates, scripts, migrations** | none | I/O, rendering | none | not a matter of states |

### How they interact

The scanner commits a `files` row and then enqueues a match job (call after
commit). A job passes the pacer before every request to ComicVine; a rate limit
comes back as an exception that makes the job put a delayed copy of itself in
Redis. The job's upsert and the reviewers' commits meet on the row in
`file_matches`, which the review queue, the duplicates pages and the library read
in several statements each. Settings are read once by a scan, from the same table
the admin page writes. Revalidation jobs are enqueued by page renders, by polls and
by the matcher; what they store, pages poll for.

## 2. Plan

| module | what | state |
|---|---|---|
| `FileMatches` | rows, reviewers, jobs | checked and proved |
| `Pacer` | the gate | checked and proved |
| `Scanner` | files, locations, disk | checked and proved |
| `CvCache` | stub, bulk and full rows under concurrent fetches and hydrations | checked and proved |
| `LocalVolumes` | numbers, merges, cascades | checked and proved |
| `MatchQueue`, `AtLeastOnce` | job life and what it promises | checked, refinement checked and proved |
| `Pipeline`, `Intake` | composes `Scanner` and `MatchQueue`: what becomes of a file from the disk to a verdict | checked, three refinements proved |
| `Accounts`, `Reading` | sessions, setup; reading positions | checked and proved |
| `Revalidate`, `Hydration` | refreshes, pages that poll for them | checked and proved |
| `Matcher`, `VolumePage`, `Listing`, `ReviewQueue`, `Duplicates` | verdicts and what pages show | checked and proved |
| `FileErrors` | the error list | checked; its safety proved |
| `FiniteOrders` | lemmas: finite sets put in order | proved |

Not attempted: composing `Pipeline` with `FileMatches`, where the row a job writes has other
writers too (here it has none, which is what `Fate` needs: verdicts are not withdrawn).
Modules meant for proofs declare no RECURSIVE operator.

## 3. The modules

Each module's header says what it leaves out; comments before each definition
name the code. `PROJECT.json` gives the lines of every definition.

### FileMatches

* `match[f]` is the row, `excluded` the flag, `waiting[f]` the jobs of `f` that
  can still run (queued, delayed or failed and not dropped), `job[m]` the file a
  worker is at. A request has `op`, `todo` (files a loop has still to treat),
  `read` (rows as loaded) and `want` (rows as assigned).
* `BeginMatch` is the read at the top of `match_file`; `Persist` the upsert, with
  any verdict the pipeline can reach; `ReleaseJob` every way a job ends and can
  run again. Nothing between them reads the row: that gap is the race.
* A single-file handler is two actions, `OpenSingle` (load and assign) and
  `CommitRequest`. `Flushed` is the unit of work: a column is in the UPDATE only
  if its assigned value differs from the loaded one, so columns of two writers
  mix. `RollBack` is an error, the CHECK constraint or a restart.
* Bulk handlers list a group (`OpenGroup`), load its rows one at a time with the
  status test of the loop (`ConfirmGroupRow`, `LocaliseGroupRow`,
  `SkipGroupRow`) and commit once. `ExcludeGroup` lists, then flags by id.
* `raced` is a history variable: the files on which a writer changed a row while
  another one held it. Properties that do not survive overlaps are stated off it.
* `late` holds the files that were decided while a match of them was still asked for
  (`Asked`: a job waits or runs, or Match all has listed the file); `Remember` keeps it.
  `LateVerdictsOnly` survives every overlap: a decision is undone only on these.
* That a row has one target at most is the CHECK constraint, a guard of both writers
  (`SingleTargetRow`), and no property.
* Left out: row locks between flush and commit (they only delay), the text,
  confidence and candidate columns, the order of a bulk loop. No row is deleted here (the
  cascade of a merge is in `LocalVolumes`), and the job a scan enqueues for a new file
  (in `Pipeline`) is one that waits from the start.

### Pacer

* One resource type. `gate` and `expires` are the Redis key, `pc` the place of a
  caller in `_request`, `acquire` and `penalize`. The reading of the clock and the
  GET are one action (`Look`, `Limited`), the SET another (`Admit`, `Penalize`):
  other callers act in between. Time is `now`, advanced by `Tick`; `Horizon`
  bounds it for TLC only (the proofs hold for every horizon).
* History: `from` opens a window anywhere; `granted` counts one interval per slot
  looked up since; `lost` what was granted and then overwritten by a SET whose GET
  was older; `cool` is until when the cool-downs imposed can last: each to its own end or, as
  `Retry-After` has no bound, to the end of the life of the key set with it; `blind` the callers that
  had read the gate before it was set, `spoiled` that one of them has set it since.
* Left out: floats (times are natural numbers), the in-memory limiter of tests.

### Scanner

* `disk`, `mounted`, `configured` are the world outside and change at any time
  (`Write`, `Remove`, `Move`, `Mount`, `Configure`). `files`, `loc`, `seen` are the
  tables; `seen` stands for `last_seen_at >= scan_start`.
* A scan: `StartScan` reads the settings, `OpenLibrary` enters or skips a root,
  `ListDirectory` is one step of `os.walk`, `Visit` stats and takes the fast path
  or goes on to `Hash`, `Store` (archive read, one commit), `Enqueue`; when the
  walk is over, `Reconcile` is phase 2 with the clean-move rule.
* `ReadError` is an `OSError` although the file is there; `Kill` a job timeout, a
  dead worker, or a database or Redis error that ends the scan.
* `AbortAtMalformed` is what recording a malformed ComicInfo at a known path comes to: the
  session has expired the row the visit goes on with, and the scan ends. `Blocked` says that
  such a file lies where every scan gets to it; no fault is involved, and only an edit of the
  disk or of the settings changes it. A scan that ends there never reaches `done`, so `ScanFaithful`
  says nothing about it.
* Left out: counters of the report, covers, `file_errors`. One scan runs at a time
  (the scan queue has one worker) and roots do not contain one another.

### CvCache

* `level[e]` says how much the row of an entity holds (none, stub, bulk, full),
  `parent` what its foreign key refers to. Rows are only inserted or updated.
* `get_publisher`, `get_volume` and `get_issue` are `Fetch` (the row is not enough,
  or a refresh is forced: ComicVine is asked), one `Upsert` of everything the
  payload names, and `Reread`, the `db.get` after the commit. A stale row that is
  served changes nothing: its revalidation is another request.
* `hydrate_volume_issues` is `ListPage`, then for each issue `ReadRow` (skip full
  rows) and `UpsertRow` (the stub of its volume, then the row), then `CommitPage`.
  What it has written is locked until then; a request that waits for such a row is
  not enabled, and `Fail` is also how Postgres breaks a deadlock.
* History: `late` holds the issues a page has in hand that became full after it had
  read them, `overtaken` those it then overwrote.
* Left out: entities nothing refers to (arcs, persons, characters, teams), the search
  cache, the scrapers, titles and images.

### LocalVolumes

* An entry is a `local_issues` row with the match of its file. `home` and `number`
  are the table; `unborn` and `fresh` the ids not used yet.
* A request loads its volume (`OpenEntry`, `OpenGroup`), compares numbers
  (`CheckNumbers`, attaches only) and inserts (`SaveEntries`); or loads two volumes
  (`OpenMerge`), moves the rows (`Move`, the UPDATE, whose rows stay locked) and
  deletes the source (`DropSource`, the DELETE with its cascade, and the commit).
  `CreateVolume` and `Renumber` read nothing they rely on: one action each.
* Locks are guards: `LockedFor` (rows of other UPDATEs) and `Referred` (a volume that
  uncommitted rows refer to cannot be deleted).
* `late` is a history variable: what came into the volume a request looked at, or
  was renumbered there, since it looked.
* Left out: names, years, reading direction, the rows of `file_matches` (FileMatches).

### MatchQueue and AtLeastOnce

* `place[j]` is where RQ keeps a job (queued, scheduled, started, failed, free),
  `of[j]` its argument, `worker[w]` what a worker is at, `row[f]` whether the file has
  a row. `Admins` are requests of the failed-jobs page: a listing (`ListFailed`), then
  one call per job.
* A worker starts a job, finds no key and holds it (`Hold`), stores a verdict, fails, or
  meets the rate limit and puts a copy off, in up to `Retries` calls each of which can
  fail or succeed and lose its answer (`Reschedule`, `RescheduleFails`). A worker that
  dies leaves its job to RQ's cleaning (`Abandon`).
* `AtLeastOnce` knows a file's `fate` and whether failed jobs are being cleared. The
  refinement mapping derives both (`Fate`, `Clearing`): a file is pending while a job
  of it can still run, listed when its last one failed.
* History: `submitted`, and `owed[f]`, the copies that calls, lost answers and deaths
  after the work account for.
* Which files are in the table is not this module's to say: `EnqueueMatchFile` takes any file
  the scanner has not enqueued before, `ListUnmatched` any set that holds what was handed in.

### Pipeline and Intake

* `Pipeline` has the variables of `MatchQueue` and those of `Scanner`, whose contents are its
  files. The two meet at three places. `HandIn` is the scanner's call after the commit, an action
  of both. `MatchAll` reads the table of files as it is, in the middle of a scan or not. And the
  scanner goes on (`Scanning`) whatever workers, Redis and administrators do (`Queueing`). What the
  scanner has enqueued is what the queue calls `scanned`.
* `Intake` knows the stage of a file, the file in the scan's hand, and whether failed jobs are
  being cleared. A file is absent, then new (stored, and no job was ever enqueued for it), then has
  the fate `AtLeastOnce` gives it. A scan stores a file only with empty hands, and only a fault
  empties them without a job. Fates are derived as before, `InHand` from the place of the scan.

### Revalidate

* `hash`, `lane`, `origin` are RQ's record and list entries of the one job id of an
  entity; `retry` the delayed copies of a lane, `marker` the key that stops new ones.
  `enqueue_revalidate` is a call of five steps (`call[c]`), `runner[n]` the worker of a
  lane.
* RQ: pushing an id that is there already puts it there twice; an id without a record
  is skipped; a worker writes the record of what it ran.
* History: `wanted` (someone counts on a refresh that has not begun); what excuses a
  duplicate (`doubled`, `lapsed`) or a loss (`hurt`).

### Accounts

* `session[t]` and `index[u]` are the two kinds of keys with their times to live. A
  page request is `GetSession`, two EXPIREs and the load of the owner; a logout is
  GET, DEL and SREM; a login is a check and the creation of a session. Setup counts
  the users on the form, again after it was sent, and inserts.
* History: `out` (answered logouts), `torn` (slides cut in two), `raced`.

### Reading

* `progress` is the row of one user and file, `tab[t]` an open reader, `save[s]` a request
  in flight: sent, past its gates, and written with what it had loaded. Requests are
  answered in any order, or lost.
* History: `latest`, the page sent last, and `crossed`, that requests overlapped.

### FileErrors

* One path. `broken` is what fails for the file on disk, `listed` the rows, `visit` the
  scanner at the path (archive read, record, parse, store, clear), `look[r]` a cover
  request or an administrator's retry. The disk changes at any time. The archives of other
  paths are outside the module, and with them a scan that one with malformed ComicInfo ends
  before it gets here (`Scanner`'s `Blocked`).

### Hydration

* `depth[e]` is what the cache holds of an entity, `job` the refreshes under way; the
  rest is the page's own: `shown`, `pending`, `polling`, `attempts`, `fired`, `poll[p]`.
* The ids of a page of issues are numbers and those of cards strings, and `pendingIds`
  is a JavaScript Set, so `pending` holds pairs of a kind and an entity.

### Matcher

* `file` carries all that ComicVine knows of it (which volumes a term finds, how similar
  their names are, their years); every call is answered, fails or meets the limit.
  `Prefiltered`, `Ranked`, `Capped`, `Confidence` are the arithmetic of the stages, in
  percents and thousandths.

### VolumePage

* `volume` is what the tables and ComicVine say; arcs are read one by one and each read
  can fail; `window` is the part shown, the one that holds the target or any other: the size can
  be set too, and a window may begin, empty, where the issues end. `Shelves`, `NextLinks`, `RowNextLinks`,
  `ArcNextLinks` (the arrows of the three views), `ListLanes` and `GalleryLanes` are
  the algorithms.

### Listing, ReviewQueue, Duplicates

* Each is a page put together by several statements, as steps: `loading` (keys, rows,
  owned, read), `listing` (groups by path, then rows), `inspector[a]` (counts, then
  files, then scores). Between the steps others settle files, finish comics, rename
  or take files off an issue; the bounds on those are `MaxChanges`, `MaxEvents` and
  `MaxShifts`. `Counted` are the volumes whose `count_of_issues` is known: the others are never
  listed as incomplete and sort as if nothing were missing.
* `stirred`, `still` and `calm` are history: whether what the page shows was disturbed.

### Modules for TLC

`MCFileMatches` and `MCScanner` give one component its instance. `MCPipeline` runs three kinds of
behaviours of `Pipeline`, chosen at the start, to keep the states of scanner and queue from
multiplying: in `scans` everything may happen but the failed-jobs page, and the disk changes once;
in `stirs` the disk changes three times, which is what it takes for a malformed file to be
stored, taken away and written back, and nothing fails; in `queue` one scan comes
as far as the commit of a file, and then only the queue goes on, with the scan's call, passes and
two administrators. A scan that has nothing to find is not started: it would only note that
its paths were seen again.
`MCStores`, `MCEventually` and `MCServices` hold several components that share nothing:
a variable `part`, chosen at the start, says which of them runs while the others stay
where they begin, so the state space is the sum of theirs and not the product. In
`MCEventually` the turn is part of every fair action.

## 4. Runs

| run | shows | bounds |
|---|---|---|
| `decisions` | `LateVerdictsOnly` in every interleaving; `DecisionsIntact`, `SettledKeptFromMatcher`, `BulkKeepsDecisions` off raced files | 1 file, 2 reviewers, 1 job at a time, 1 waiting: rows never refer to each other, and three writers reach every pairwise overlap twice over. A row that changes its local issue needs two local ids |
| `scans` | `ScanFaithful`, `OneJobPerFile`, `FilesDescribed`, of scans that come to their end | 3 paths (a move with a third copy), 3 contents (one does not open, one has malformed ComicInfo), 2 libraries, 1 mtime, 3 changes, 1 fault |
| `pipeline` | `StoredIsHandedIn` (`Pipeline` implements `Intake`), `LibraryMatched` but where the library is `Blocked`; `JobsAccounted`, `NoFileForgotten` (`MatchQueue` implements `AtLeastOnce`), `Settles` | 1 file (jobs of two never meet), 1 path, 1 library, a file with malformed ComicInfo, 1 change and 1 fault or 3 changes around the scanner, 4 job ids that are used again, 1 worker, 2 administrators, 1 retry, 1 fault, 1 limit, 1 pass. With 2 faults four ids run out, which the program's cannot |
| `stores` | cache: `RicherDataKept`, `ReferencesExist`; local volumes: `EntriesKept`, `NumbersApart`; pacer: `RateBound`, `CooldownKept` | cache: 1 publisher, 1 volume, 2 issues, 2 requests (a page of two rows is what it takes to hold one while reading the other). Local: 3 volumes (chains and cycles of merges), 3 entries, 2 requests, 1 number beside none. Pacer: 2 callers, time 0..5, a burst of one interval, cool-downs longer than a window, one of them longer than the key lives, key lapse inside the horizon; one retry |
| `eventually` | `UnreadableIsListed`, `RepairedIsUnlisted`; `CompleteIsTrue`, `PollingEnds`, `CardsComeIn`; `Converges` but where the library is `Blocked` | errors: 1 cover request, 1 administrator, 2 changes. Polls: 2 entities, 2 polls, patience 2, 1 error. Scans: 2 paths, 3 contents (one does not open, one has malformed ComicInfo), 1 library, 3 changes, 1 fault; no symmetry |
| `services` | one or more properties each of `Revalidate`, `Accounts`, `Reading`, `Matcher`, `VolumePage`, `Listing`, `ReviewQueue`, `Duplicates` | below |
| `rerun`, `halfstate`, `race`, `unmounted`, `merged`, `polls` | one counterexample each: section 6 | |

The bounds of `services`. Refreshes: 2 callers, 2 lanes (one
of which a refresh may begin on, as they are alike), 1 cool-down, calls and deaths 2
together, enough for a caller to be overtaken at each of its five steps. Accounts: 2
names, 2 requests, 2 tokens, time to live 2 (so that a slide matters), 1 request cut.
Reading: 2 tabs, 2 saves in flight, 2 pages, 3 requests. Matcher: 3 volumes of which
2 are fetched, with profiles on both sides of every threshold. Volume page: 3
issues and 2 elsewhere, 2 arcs in seven reading orders (in order, reversed, leaving,
coming back), windows of any size. Listing: 2 ComicVine volumes (one with no known count) and 1 local, 3 files (alike at
the start but for which are finished, so the finished ones are the first), pages of 1 and 2
issues, 1 change. Review queue: 3 files, 2 series, a cap of 2 rows, 1 event.
Duplicates: 4 files, 2 issues (one whose volume is not known), 2 administrators, a page
of 1 group, 1 change by others; the best scored file of one is a fragment.

Symmetry sets are used in safety runs only. Deadlock checking is off: the bounds
on changes, jobs, time and ids let most models stop, and an idle library is a
legal state of the program; in `CvCache` and `LocalVolumes` a wait on a lock always
ends, by `Fail` if nothing else.

`MCStores` uses a VIEW that forgets local variables a caller of the pacer no longer
reads; none of the properties depends on them.

The inductive invariants and the types are not run: the proofs cover every instance, those
above included.

**Fairness.** Only what the code's scheduling gives.

* `Scanner`: weak fairness of `StartScan` (rq-scheduler enqueues the recurring scan with
  `repeat=None`, forever) and of the scan's own steps (one worker runs it). Changes, I/O
  errors and kills are finitely many: a library that never stops changing has no
  state to converge to.
* `FileErrors`: the recurring scan again, and every request that was begun goes on.
* `MatchQueue`: workers go on with a job they have, RQ cleans its registries and delays
  end (weak); a queued job is started if a worker is idle again and again (strong:
  the queue is served in order).
* `Pipeline`: those of `Scanner` and of `MatchQueue`, the scanner's call being one of its steps.
  It waits for a free job id, which the program never does; no behaviour of the instance waits for ever.
* `Hydration`: the browser's timer fires, requests are answered or lost, refresh jobs end.

The other modules promise nothing about progress and have none.

## 5. Proofs

Every safety property of the runs is a theorem for all values of the constants. The
assumptions are those named in the components' modules, which say that sets are disjoint or
finite and bounds natural numbers, and those spelled out below.

### Files and jobs

`FileMatchesProofs` proves `IInv` inductive for any sets of files, reviewers and
workers (assuming only that `Null` is none of them and `MaxWaiting` is a natural
number). `DecisionsIntact` alone is not inductive: one has to know that a request
holding an unraced row holds it as it is (`SessionsCurrent`), that a running job
on an unraced file started while it was open (`JobsInformed`), that what requests
assign are whole decisions (`AssignmentsIntact`) and that bulk requests loaded only
reviewable rows (`BulkGuarded`). A lemma about `Flushed` shows that on an unraced
file a commit stores exactly what was assigned. The action properties `SettledKeptFromMatcher`
and `BulkKeepsDecisions` come from one lemma about `Next` each under `IInv`.
`LateVerdictsOnly` needs no race to be excluded. Its invariant is `LateKnown`, that a decided file
which a match is still asked for is in `late`. No step asks for a match of a decided file anew
(`NobodyAsksAnew`): a job put back was asked for before, Match all lists unmatched files only
and enqueues what it listed, and the commit of a decision asks for none (`CommitAsksNothing`).

`ScannerProofs` proves `ScanFaithful`, `OneJobPerFile` and `FilesDescribed` for any
paths, contents, libraries, numbers of changes and faults, from
`ScannerAssumption` (each path lies under one library, finitely many contents)
and `NoneAssumption`. What a scan promises at its end says nothing about its
middle; the inductive invariant does, relative to `touched` (the paths that changed
since the scan started): what the step in hand noted about its file is still so
(`StepInformed`), every path the walk is past was marked seen with columns that are
right (`Treated`, `TreatedRight`, `WalkOrdered`), a location names a stored file
(`LocationsHaveFiles`), and nothing is half done between scans (`Busy`). Phase 2 is then
the one step that turns `TreatedRight` into `ScanFaithful`: a stale location is one
the walk did not treat, hence one that is not on disk or did not open.

`PipelineProofs` proves `NoFileForgotten` and `JobsAccounted` for any files, jobs,
workers, administrators and faults, from `MatchQueueAssumption`. `QueueInv` says that a job
on record or at a worker is one of a file that was handed in (`Argued`), that no job is
run twice at a time (`Exclusive`), and that a running one is in the started registry or
was deleted there (`Started`). The refinement goes action by action: a step changes
which jobs of at most one file can still run, so it changes at most one fate, and one
that `AtLeastOnce` allows. `JobsAccounted` compares two cardinalities and rests on a
lemma about a set of jobs that gains or loses one.

### Scanner and queue together

`PipelineProofs` goes on to the two components side by side, from `PipelineAssumption`, which is
what each of them assumes. Nothing is proved twice:

1. `ScannerInPipeline`: a step of the pipeline is one of the scanner, or leaves its variables
   alone. So the theorems of `ScannerProofs`, taken with INSTANCE, hold here (`ScannerHolds`).
2. `QueueInPipeline`: with the scanner's invariant, which says that what a scan has in its hand is
   a stored file nobody enqueued from a scan, a step of the pipeline is one of the queue. So
   `QueueInv`, `NoFileForgotten` and `JobsAccounted` hold here (`QueuePromisesHold`).
3. `PipelineInvariance`: both invariants and `Linked`, what neither of them can say: what was
   handed in, or is listed by a pass, is stored; what the scanner enqueued was handed in; only
   what was handed in has a row. It needs that rows of `files` are never deleted (`FilesGrow`).
4. `StoredFilesHandedIn`: under that invariant a file has a fate exactly from when it was first
   handed in (`HandedIn`), so the stages of `Intake` follow from the two tables. A step of the
   scanner is then one of four things (`Outline`, in `ScannerProofs`): it stores a new file, calls the
   queue, fails, or is not noticed; and a step of the queue is what step 2 makes of it.

`NoJobWithoutFile` (`JobsHaveFiles`) and `LostToFaults` (`FewLost`) are read off the invariant: no job
outruns the commit of its file, and as many files at most as scans failed were stored and never
handed in. `ScannedFilesHandedIn` puts all of it together: `ScanFaithful` says what is in the tables
after a whole scan, `FewLost` that nothing but a failed scan can have kept one of these files from
the queue. It is what `LibraryMatched` rests on. These three
have no run of their own. `Linked` also shows that the guard of
`ListUnmatched` never holds `MatchAll` back.

### What is stored (`StoresProofs`)

The pacer: `RateBound` and `WaitBounded` follow from `RateInv` for any number of
callers, any interval, burst, cool-downs and horizon, from `PacerAssumption` and
`LapseAssumption` (an idle gate lapses only when open: 2 hours against 9 intervals
of 18.5 seconds). The idea is a potential: from the window's opening on, the gate is
ahead of `from` by what was granted less what was overwritten (`GateCounts`), and
so is every TAT about to be set (`NextCounts`). `CooldownKept` needs no
bound on what ComicVine's `Retry-After` asks for. `GateShut` says that until the cool-down is
over, the gate is shut and its key lives. A cool-down is imposed with a SET that renews the key,
so the key lives as long as `cool` claims; and the SET of any later caller that is not blind
renews it again without opening the gate. A cool-down longer than the key's life ends with the
key, in the code, the model and the theorem alike.

The cache: `RicherDataKept`, `ServedComplete` and `ReferencesExist` for any
entities and any number of requests, from `CvCacheAssumption` (ids of different
tables differ). The page in hand is where the work is: two transactions never
hold the same row (`LocksHold`), a row that became full while a page had it in hand
is in the page's history (`LateKnown`), and the volumes a hydration no longer
inserts stubs for are there, committed or its own (`EnsuredExist`), which is why a
page after a rollback starts with an empty `seen_volume_ids`.

Local volumes: `EntriesKept` and `NumbersApart` for any volumes, entries,
numbers and requests, from `LocalAssumption`. After the UPDATE of a merge everything
under its source was moved by it or came later (`SourceEmptied`), because the rows it
moved stay put and their new home stays there (`RowsHeld`); ids are not used twice
(`Held`), so nothing comes into a volume but through a step that the history sees.

The error list: that an archive which does not open comes back to the list
(`UnreadableIsListed`) is liveness and only checked. What it rests on is proved: such an archive is
never taken for one the scanner knows (`UnreadableIsRead`), whoever replaces it during a visit, so
the fast path does not clear it and every scan reads it again.

### Who reads what (`SessionsProofs`)

Accounts: `LogoutIsFinal`, `SessionsRevocable` and `SetupCloses` for any
users, tokens, requests and time to live. A request that has read a session either
knows its owner or the session was logged out since (`Sound`), and a token that is out
is in no index and never issued again (`Gone`).

Reading: `LastPageKept`, `FinishedStays` and `NoTrail` for any tabs, pages and
requests. While nothing overlapped, at most one request is in flight (`Alone`), what it
loaded is the row (`Carried`) and the row is what was sent last (`Arrived`).
`FinishedStays` needs no such hypothesis: a save writes the column
`finished` only to set it.

### What the pages show (`PagesProofs`)

Refreshes: `OneRefresh` follows from `OneAtATime`, which holds as long as nothing
it excuses has happened (`Clean`). It says where the one refresh is: a queued record stands
for one place on one lane and then no worker and no copy has the entity (`LanesHoldOne`);
a worker is alone but for the copy it put off, and the record or the marker tells of it
(`RunnersAlone`); a copy is marked or about to be (`CopiesMarked`); and what a caller has
read is so until the queue moves on under it (`CallersKnow`), which is the last conjunct one
finds and the one without which no call is safe. `NoRequestLost` holds in more states, those
in which callers did overtake each other, and so it has an invariant of its own: `StillDue`,
stronger than `InHand` as a worker that runs may have begun before the request.

Pages that poll: `CompleteIsTrue` rests on `StaleAwaited`, that a library page waits for every
stale card it shows, under the id the document has for it. The page of issues, which waits
for numbers, has no such invariant: that is what the run `polls` shows.

A volume's page: nothing happens on it but reads, so `PageOK` is little more than types,
and the theorems are about the algorithms. `NoStepLost` is proved along the shelves: within
one an arc goes on from each issue to the next without a break (`ShelfGoesOn`), so that its next
issue is beside the last one, and at the end of one there is an arrow to it (`NextFound`,
`PrevFound`). `RailsDrawn` needs that the lanes exist: `GalleryLanes` is defined by what every
arc's lane has to be given those drawn before it, and `GrowsToAll` shows that there is one such
assignment for any finite set of arcs (`LanesExist`). Two arcs on one lane are then apart
because the second found the lane free (`LanesKeepApart`).

The library: `ReadWithinOwned` compares two counts by two statements (`CalmRight`);
`PagesJoin` rests on `CutRight`: as long as nothing stirs and nothing ties, the rows in hand are
the next ones of `Whole`, the one sorted list. That there is one is `RowExists`, that there
is no other `RowUnique`; the ComicVine part and the local part, sorted apart or merged, cut the
same list (`KeysMerged`, `RowsHydrated`).

### What reviewers decide on (`ReviewProofs`)

The matcher: `MatcherInv` says that a verdict is written once and not after a rate limit
(`VerdictInv`, whence `LimitIsNoVerdict`), and that, unless a call failed, what has been
found is what the terms searched can find and what was fetched or is still to be is what was
chosen (`SearchInv`). `AutoPlausible` needs only arithmetic: which scores of number, name, year
and format add up to the threshold. `NoWinnerLost` needs all of it and that the best candidate
exists (`FirstOfMany`), however many volumes tie. `CallInv` counts calls: spent and still to be
spent are what one file can cost.

The review queue: between its two looks the files picked are whole groups of those that
waited then (`PickedWhole`), and `GroupsWhole` is what the second look leaves of that.

Duplicates: `LastCopyKept` is about any number of administrators who hold pages of different
ages. The invariant is that on every page the file to keep is the best one of its issue, as
long as nobody else disturbs the issue (`PagesRight`); no page can then recommend to take it
off, whichever was rendered first. `GroupsAccounted` also needs what the first look counted
(`CountedRight`).

### Lemmas (`FiniteOrders`)

Neither the matcher's best candidate, nor a sorted list, nor a colouring of lanes exists by
definition: each is a `CHOOSE`, and its existence is an induction over a finite set. The
provers cannot take an induction rule with an operator as its parameter, so these lemmas do
induction with sets: a family of parts of a finite set that holds the empty part and, with
each part but the whole, a larger one by an element, holds the whole (`GrowsToAll`). It comes from the
library's theorem that the proper subsets of a finite set are well founded.

### Only model-checked

Liveness: `Settles`, `LibraryMatched`, `Converges`, `UnreadableIsListed`, `RepairedIsUnlisted`,
`PollingEnds`, `CardsComeIn`. It is out of the prover's reach. Of the safety it rests on these are
proved: `ScannedIsHandedIn` for `LibraryMatched`, `NoFileForgotten` for `Settles`, `ScanFaithful`
for `Converges`, `UnreadableIsRead` for `UnreadableIsListed`, `StaleAwaited` for `CardsComeIn`.
`LibraryMatched` and `Converges` promise nothing while the library is `Blocked`, as section 6 says.

## 6. Where code and documentation disagree

Each has a run whose counterexample shows it; `PROJECT.json` quotes the lines.

* `rerun`: a second match job overwrites a CONFIRMED row (docs: it won't).
* `halfstate`: a job that began before a reviewer settled the file reopens it and
  leaves its target set (the comment says that must not happen).
* `race`: a caller that read the gate before `penalize` erases the cool-down for
  everybody, not for one call.
* `unmounted`: locations of a root that was skipped are marked missing.
* `merged`: an entry committed under a volume between the UPDATE and the DELETE of
  its merge is deleted with it, and its file's match too (every issue is moved, says
  the docstring).
* `polls`: ids a page of issues waits for are numbers and are deleted as strings: the
  page polls until its patience runs out and never says that it is complete.

Some promises are stated in the modules and no run checks them, because TLC finds them
violated: `OnlyRetriedCleared` (`FileErrors`: a malformed ComicInfo recorded at
`scanner.py:407` is cleared at `:257` by the same pass); `CountDropsByOne` (`ReviewQueue`: a
group that was left out for the cap comes in when one is confirmed, `review.py:570`);
`ErrorSurfaces` (`Matcher`: an error on an embedded id falls back to the search,
`pipeline.py:420`); `OneAdmin` (`Accounts`: two setup forms can both pass their second
count, `auth/routes.py:124`); `NeverStuck` (`Revalidate`: a worker that ends as its job is
enqueued again overwrites the new record, `revalidate.py:354`); `ListLanesApart`
(`VolumePage`: lanes are freed by the last node in reading order, which need not be the
lowest row, `rail.py:284`); `MalformedIsNoBlocker` (`Scanner`: troubleshooting.md says
a malformed ComicInfo is "Not a blocker"; at a path the tables know, recording it ends the scan,
`file_errors.py:110`).

The last of these reaches far. A file with malformed ComicInfo that is new at a known path,
touched, or back after its library was away ends every scan until somebody changes it or takes
it away: what comes after it in the walk is never stored, updated or enqueued, and what was
deleted never goes missing. The first scan that meets such a file at a path nobody knows does
store it, and goes on.

The models also contain, with no run of their own: phase 2 never looks at the paths
it visited, so a visited file that does not open is marked missing (`Stale`); a scan
killed between commit and enqueue leaves a file that no later scan enqueues (`StoreFile`,
`Kill`; Match all does); `reject_file_match` leaves the
local or supplement target of a row settled in another tab (`Rejected`); a
confirm that assigns the issue already loaded does not write it (`Flushed`);
`exclude_files_by_series` flags files confirmed since the listing
(`ExcludeGroup`); volume-confirm overwrites a decision committed after its test
(`ConfirmGroupRow`); a files row takes its columns from what is at the path after
hashing (`StoreFile`); a cool-down
longer than two hours ends with the key (`Live`); a burst of 8 over 195 per hour
grants up to 204 slots in an hour (`RateBound`); a page of the bulk hydration
overwrites an issue that became full after it read the row (`UpsertRow`); two
attaches of the same number to a volume both pass (`CheckNumbers`); a match that changes
between the two counts of a card leaves it with more read than owned (`ReadWithinOwned` excuses
it by `calm`; the comment at `library.py:888` has no exception); a slide cut between its two
EXPIREs lets the index of a user lapse before a session (`SessionsRevocable` excuses it by
`torn`). The job of a worker that died goes to RQ's failed registry and waits there for an
administrator (`Abandon`; troubleshooting.md says that RQ rolls it back to queued). Only a new
file is enqueued (`Enqueue`, as the comment at `scanner.py:450` says), not one "whose match is
unresolved", as that module's docstring still has it.

Outside the models: a character scrape whose first page fails stamps
`volumes_scraped_at` (`comicvine/scrape.py:364`; its docstring says it does not);
clearing the cache sets `fetched_at` to NULL in tables where it is NOT NULL
(`admin/routes.py:671`), so it fails once a volume is cached.

Excluding a duplicate leaves its match, so the group never drops to one file on the next
match run as `admin/routes.py:418` says; an issue several files claim that has neither a
cover nor a volume is neither shown nor announced on the duplicates page
(`duplicates.py:563`); the list of a volume's page has an arrow that the shelves lack
when an arc does not list an issue that credits it.

## 7. Not modelled

* Scrapers of persons, characters, teams and arcs (`comicvine/scrape.py`) and the search
  cache: rows nothing else refers to.
* Search, series, health and home pages, ComicVine search, descriptions, duplicates by
  hash: queries, and pass-through calls, with no state of their own. The pages of arcs,
  teams, creators and publishers draw the same rails from the same tables as a volume's.
* Filename and ComicInfo parsing, similarity of names: pure functions of text; the
  matcher's model takes their results as data.
* Archive I/O, images, templates, start-up, command-line scripts and migrations.
* `revoke_all_for_user`, which nothing calls; password hashing; roles.
* Two scans at once: the scan queue has one worker.
* Settings beyond the library paths and whether there is a ComicVine key.
