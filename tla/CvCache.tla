------------------------------- MODULE CvCache -------------------------------
(***************************************************************************)
(* The cache of ComicVine entities: what cv_publishers, cv_volumes and     *)
(* cv_issues hold about an entity, and how it gets richer.                 *)
(*                                                                         *)
(* A row is a stub (put there for a foreign key, or taken from a volume's   *)
(* nested issue list), bulk (an issue from the list endpoint: cover and     *)
(* date, no credits) or full (the entity's own endpoint).  Requests and    *)
(* jobs of several processes fetch the same entities at once, at READ       *)
(* COMMITTED.  A request that saves one entity writes all its rows between  *)
(* two commits without reading in between: one action.  The bulk hydration  *)
(* of a volume reads each row before it writes it and commits a page at a   *)
(* time: its steps are actions, and the rows it has written but not         *)
(* committed are locked.                                                   *)
(*                                                                         *)
(* Rows are never deleted.  A stale full row is served like a fresh one;    *)
(* its revalidation is a request that fetches although the row is full.    *)
(* The tables that nothing refers to (arcs, persons, characters, teams,     *)
(* searches) are left out, and so are the columns that are not ComicVine's. *)
(***************************************************************************)
EXTENDS FiniteSets

CONSTANTS
    Publishers, Volumes, Issues,   \* ComicVine ids
    Requests,                      \* requests and jobs under way at once
    None                           \* no entity

Entities == Publishers \union Volumes \union Issues

ASSUME CvCacheAssumption ==
    /\ Publishers \intersect Volumes = {}
    /\ (Publishers \union Volumes) \intersect Issues = {}
    /\ None \notin Entities

VARIABLES
    level,     \* how much each entity's row holds
    parent,    \* the publisher of each volume's row, the volume of each issue's
    pc,        \* where each request is
    key,       \* the entity a request is about; the volume it hydrates
    left,      \* issues of the page that the hydration has still to treat
    cur,       \* the issue whose row it read last and found safe to overwrite
    written,   \* its uncommitted issue rows: the volume each refers to
    stubs,     \* its uncommitted volume stubs
    ensured,   \* seen_volume_ids: volumes it need not insert a stub for
    late,      \* history: issues that became full after it had read their row
    overtaken  \* history: issues a page went over that became full in between

tables  == <<level, parent>>
bulk    == <<left, cur, written, stubs, ensured>>
history == <<late, overtaken>>
vars    == <<level, parent, pc, key, left, cur, written, stubs, ensured, late,
             overtaken>>

Levels == {"none", "stub", "bulk", "full"}

\* Rows that are poorer than each level.
Below == [none |-> {}, stub |-> {"none"}, bulk |-> {"none", "stub"},
          full |-> {"none", "stub", "bulk"}]

TypeOK ==
    /\ level \in [Entities -> Levels]
    /\ parent \in [Entities -> Entities \union {None}]
    /\ pc \in [Requests -> {"idle", "fetch", "reread", "list", "page", "upsert"}]
    /\ key \in [Requests -> Entities \union {None}]
    /\ left \in [Requests -> SUBSET Issues]
    /\ cur \in [Requests -> Issues \union {None}]
    /\ written \in [Requests -> [Issues -> Volumes \union {None}]]
    /\ stubs \in [Requests -> SUBSET Volumes]
    /\ ensured \in [Requests -> SUBSET Volumes]
    /\ late \in [Requests -> SUBSET Issues]
    /\ overtaken \subseteq Issues

-----------------------------------------------------------------------------
(* The tables *)

\* get_volume, get_publisher: not a stub; get_issue: neither a stub nor bulk.
Complete(e) == level[e] = "full"

Held(r) == {i \in Issues : written[r][i] # None}

Open(r) == pc[r] \in {"list", "page", "upsert"}

\* Another transaction has inserted or updated row e and not committed yet: a
\* statement that would write it waits.
Locked(r, e) == \E q \in Requests \ {r} : e \in Held(q) \union stubs[q]

\* INSERT ... ON CONFLICT DO NOTHING waits only for a row that is not there yet.
StubWaits(r, E) == \E e \in E : level[e] = "none" /\ Locked(r, e)

\* Mutant: the stub replaces a row that is there.
StubRowMutant(e) == "stub"

\* _upsert_publisher_stub, _upsert_volume_stub, _upsert_issue_stub: insert, never
\* update.
StubRow(e) == IF level[e] = "none" THEN "stub" ELSE level[e]

-----------------------------------------------------------------------------
(* One entity at a time: get_volume, get_issue, get_publisher *)

\* A complete row is returned as it is, fresh or stale, and nothing changes.
\* Otherwise, or when a refresh is forced, ComicVine is asked.
Fetch(r) == \E e \in Entities :
    /\ pc[r] = "idle"
    /\ pc' = [pc EXCEPT ![r] = "fetch"]
    /\ key' = [key EXCEPT ![r] = e]
    /\ UNCHANGED <<tables, bulk, history>>

\* The rows after the upsert of e's payload and the stubs of others.
Enriched(e, others) ==
    [x \in Entities |->
        IF x = e THEN "full" ELSE IF x \in others THEN StubRow(x) ELSE level[x]]

\* The upsert of a payload: the stub of the row it refers to, the row itself, and
\* the stubs of nested entities, in one transaction.
Upsert(r, p, nested) ==
    LET e == key[r]
        refs == {p} \ {None}
    IN
    /\ pc[r] = "fetch"
    /\ ~Locked(r, e)
    /\ ~StubWaits(r, refs \union nested)
    /\ level' = Enriched(e, refs \union nested)
    /\ parent' = [x \in Entities |->
                    IF x = e THEN p
                    ELSE IF x \in nested /\ level[x] = "none" THEN e ELSE parent[x]]
    /\ late' = [q \in Requests |-> IF cur[q] = e THEN late[q] \union {e} ELSE late[q]]
    /\ pc' = [pc EXCEPT ![r] = "reread"]
    /\ UNCHANGED <<key, bulk, overtaken>>

\* _upsert_publisher.
SavePublisher(r) == key[r] \in Publishers /\ Upsert(r, None, {})

\* _upsert_volume: whatever publisher and issues the payload names.
SaveVolume(r) ==
    /\ key[r] \in Volumes
    /\ \E p \in Publishers \union {None}, nested \in SUBSET Issues : Upsert(r, p, nested)

\* _upsert_issue.
SaveIssue(r) ==
    /\ key[r] \in Issues
    /\ \E v \in Volumes \union {None} : Upsert(r, v, {})

\* db.get(populate_existing=True): the row is read again and returned.
Reread(r) ==
    /\ pc[r] = "reread"
    /\ pc' = [pc EXCEPT ![r] = "idle"]
    /\ key' = [key EXCEPT ![r] = None]
    /\ UNCHANGED <<tables, bulk, history>>

-----------------------------------------------------------------------------
(* hydrate_volume_issues *)

StartHydration(r) == \E v \in Volumes :
    /\ pc[r] = "idle"
    /\ pc' = [pc EXCEPT ![r] = "list"]
    /\ key' = [key EXCEPT ![r] = v]
    /\ UNCHANGED <<tables, bulk, history>>

\* A page of the list endpoint: any issues, for ComicVine may have moved them.
ListPage(r) == \E page \in SUBSET Issues :
    /\ pc[r] = "list"
    /\ pc' = [pc EXCEPT ![r] = "page"]
    /\ left' = [left EXCEPT ![r] = page]
    /\ UNCHANGED <<tables, key, cur, written, stubs, ensured, history>>

\* The row of the next issue is read; a full one is left alone.
ReadRow(r) == \E i \in left[r] :
    /\ pc[r] = "page"
    /\ left' = [left EXCEPT ![r] = @ \ {i}]
    /\ IF Complete(i)
       THEN UNCHANGED <<pc, cur>>
       ELSE /\ pc' = [pc EXCEPT ![r] = "upsert"]
            /\ cur' = [cur EXCEPT ![r] = i]
    /\ UNCHANGED <<tables, key, written, stubs, ensured, history>>

\* Mutant: a row is overwritten without the stub of its volume.
UpsertRowMutant(r) == \E v \in Volumes :
    /\ pc[r] = "upsert"
    /\ ~Locked(r, cur[r])
    /\ written' = [written EXCEPT ![r][cur[r]] = v]
    /\ cur' = [cur EXCEPT ![r] = None]
    /\ pc' = [pc EXCEPT ![r] = "page"]
    /\ UNCHANGED <<tables, key, left, stubs, ensured, history>>

\* Any other row is overwritten, after a stub for the volume the payload names,
\* unless this hydration has seen to that one before.
UpsertRow(r) == \E v \in Volumes :
    LET absent == {v} \ ensured[r]
    IN
    /\ pc[r] = "upsert"
    /\ ~StubWaits(r, absent)
    /\ ~Locked(r, cur[r])
    /\ stubs' = [stubs EXCEPT ![r] = @ \union {x \in absent : level[x] = "none"}]
    /\ ensured' = [ensured EXCEPT ![r] = @ \union {v}]
    /\ written' = [written EXCEPT ![r][cur[r]] = v]
    /\ cur' = [cur EXCEPT ![r] = None]
    /\ pc' = [pc EXCEPT ![r] = "page"]
    /\ UNCHANGED <<tables, key, left, history>>

\* The transaction ends, its locks are gone.
Release(r) ==
    /\ written' = [written EXCEPT ![r] = [i \in Issues |-> None]]
    /\ stubs' = [stubs EXCEPT ![r] = {}]
    /\ cur' = [cur EXCEPT ![r] = None]
    /\ late' = [late EXCEPT ![r] = {}]

\* The end of a page: its rows are committed.  Then comes the next page, or the
\* end of the list.
CommitPage(r) ==
    /\ pc[r] = "page"
    /\ left[r] = {}
    /\ level' = [x \in Entities |->
                    IF x \in Held(r) THEN "bulk"
                    ELSE IF x \in stubs[r] THEN "stub" ELSE level[x]]
    /\ parent' = [x \in Entities |-> IF x \in Held(r) THEN written[r][x] ELSE parent[x]]
    /\ overtaken' = overtaken \union (late[r] \intersect Held(r))
    /\ Release(r)
    /\ \/ /\ pc' = [pc EXCEPT ![r] = "list"]
          /\ UNCHANGED <<key, ensured>>
       \/ /\ pc' = [pc EXCEPT ![r] = "idle"]
          /\ key' = [key EXCEPT ![r] = None]
          /\ ensured' = [ensured EXCEPT ![r] = {}]
    /\ UNCHANGED left

\* ComicVine does not answer, the rate limit is met, a deadlock is broken, the
\* process dies: what is not committed is lost.
Fail(r) ==
    /\ pc[r] # "idle"
    /\ Release(r)
    /\ pc' = [pc EXCEPT ![r] = "idle"]
    /\ key' = [key EXCEPT ![r] = None]
    /\ left' = [left EXCEPT ![r] = {}]
    /\ ensured' = [ensured EXCEPT ![r] = {}]
    /\ UNCHANGED <<tables, overtaken>>

-----------------------------------------------------------------------------
Init ==
    /\ level = [e \in Entities |-> "none"]
    /\ parent = [e \in Entities |-> None]
    /\ pc = [r \in Requests |-> "idle"]
    /\ key = [r \in Requests |-> None]
    /\ left = [r \in Requests |-> {}]
    /\ cur = [r \in Requests |-> None]
    /\ written = [r \in Requests |-> [i \in Issues |-> None]]
    /\ stubs = [r \in Requests |-> {}]
    /\ ensured = [r \in Requests |-> {}]
    /\ late = [r \in Requests |-> {}]
    /\ overtaken = {}

Next == \E r \in Requests :
    \/ Fetch(r)
    \/ SavePublisher(r) \/ SaveVolume(r) \/ SaveIssue(r) \/ Reread(r)
    \/ StartHydration(r) \/ ListPage(r) \/ ReadRow(r) \/ UpsertRow(r)
    \/ CommitPage(r) \/ Fail(r)

Spec == Init /\ [][Next]_vars

-----------------------------------------------------------------------------
(* What the cache promises *)

\* _upsert_issue_stub, hydrate_volume_issues: a row is never replaced by a poorer
\* one - stubs are only inserted, full issues are left alone - except by a page
\* that read the row before it was full and writes it after.
RicherDataKept ==
    [][\A e \in Entities :
        level'[e] \in Below[level[e]] => \E r \in Requests : e \in Held(r) \intersect late[r]]_vars

\* get_volume, get_issue and get_publisher fetch for callers that need a full row,
\* and read it again after their commit: it still is full when they do, unless a
\* page has overtaken the fetch of that very issue.
ServedComplete ==
    \A r \in Requests : pc[r] = "reread" => Complete(key[r]) \/ key[r] \in overtaken

\* No upsert trips a foreign key: what a row refers to is there, or was inserted by
\* the same transaction.
ReferencesExist ==
    /\ \A e \in Entities : parent[e] # None => level[parent[e]] # "none"
    /\ \A r \in Requests : \A i \in Held(r) :
        level[written[r][i]] # "none" \/ written[r][i] \in stubs[r]

(* The parts of the inductive invariant behind them. *)

\* Only issues are ever bulk rows.
BulkAreIssues == \A e \in Entities : level[e] = "bulk" => e \in Issues

\* A request has uncommitted rows and issues to treat only while it hydrates, and
\* knows what it fetches.
Phases ==
    \A r \in Requests :
        /\ pc[r] \in {"fetch", "reread"} => key[r] # None
        /\ pc[r] = "upsert" <=> cur[r] # None
        /\ pc[r] \notin {"page", "upsert"} => Held(r) = {} /\ stubs[r] = {}
        /\ pc[r] \in {"idle", "fetch", "reread"} => ensured[r] = {}

\* Two transactions never have the same row uncommitted, nor a stub of a row that
\* is there.
LocksHold ==
    \A r \in Requests :
        /\ \A e \in Held(r) \union stubs[r] : ~Locked(r, e)
        /\ \A v \in stubs[r] : level[v] = "none"

\* The volumes a hydration need not insert a stub for are there.
EnsuredExist ==
    \A r \in Requests : \A v \in ensured[r] : level[v] # "none" \/ v \in stubs[r]

\* If a row a page is going over has become full, the history says so.
LateKnown ==
    \A r \in Requests : \A i \in Issues :
        (i = cur[r] \/ i \in Held(r)) /\ Complete(i) => i \in late[r]

\* The conjunction of all parts.
IInv ==
    /\ TypeOK
    /\ BulkAreIssues
    /\ Phases
    /\ LocksHold
    /\ EnsuredExist
    /\ LateKnown
    /\ ServedComplete
    /\ ReferencesExist

=============================================================================
