----------------------------- MODULE StoresProofs -----------------------------
(***************************************************************************)
(* Proofs about the ComicVine cache, local volumes, the pacer that ComicVine is     *)
(* asked through and the list of files that fail: the inductive invariants IInv of  *)
(* CvCache, LocalIInv of LocalVolumes, PacerIInv of Pacer and ErrorsInv of          *)
(* FileErrors, and what follows from them.                                      *)
(***************************************************************************)
EXTENDS CvCache, LocalVolumes, Pacer, FileErrors, TLAPS

-----------------------------------------------------------------------------
(* Steps and what they leave alone *)

\* Saving a publisher, a volume or an issue is an upsert of the entity fetched.
Save(r) ==
    \E p \in Entities \union {None}, nested \in SUBSET Issues :
        /\ nested # {} => key[r] \in Volumes
        /\ Upsert(r, p, nested)

LEMMA SaveSteps ==
    ASSUME NEW r \in Requests, SavePublisher(r) \/ SaveVolume(r) \/ SaveIssue(r)
    PROVE  Save(r)
<1>1. ASSUME SavePublisher(r) PROVE Save(r)
  BY <1>1 DEF SavePublisher, Save
<1>2. ASSUME SaveVolume(r) PROVE Save(r)
  BY <1>2 DEF SaveVolume, Save, Entities
<1>3. ASSUME SaveIssue(r) PROVE Save(r)
  BY <1>3 DEF SaveIssue, Save, Entities
<1> QED BY <1>1, <1>2, <1>3

\* Every step is one of these; each is treated in turn below.
CacheStep(r) ==
    \/ Fetch(r) \/ Save(r) \/ Reread(r)
    \/ StartHydration(r) \/ ListPage(r) \/ ReadRow(r) \/ UpsertRow(r)
    \/ CommitPage(r) \/ Fail(r)

LEMMA Steps == ASSUME [Next]_vars PROVE (\E r \in Requests : CacheStep(r)) \/ UNCHANGED vars
  BY SaveSteps DEF Next, CacheStep

\* The types of what an upsert writes.
LEMMA UpsertTypes ==
    ASSUME TypeOK, NEW r \in Requests, NEW p \in Entities \union {None},
           NEW nested \in SUBSET Issues, Upsert(r, p, nested), key[r] \in Entities
    PROVE  TypeOK'
<1>1. level' \in [Entities -> Levels]
  BY DEF Upsert, Enriched, StubRow, TypeOK, Levels
<1>2. parent' \in [Entities -> Entities \union {None}]
  BY DEF Upsert, TypeOK
<1>3. late' \in [Requests -> SUBSET Issues]
  BY CvCacheAssumption DEF Upsert, TypeOK, Entities
<1> QED BY <1>1, <1>2, <1>3 DEF Upsert, TypeOK, bulk

\* A step that commits no rows keeps the types.
LEMMA TypeStep == ASSUME TypeOK, Phases, [Next]_vars PROVE TypeOK'
<1>1. ASSUME NEW r \in Requests, CacheStep(r) PROVE TypeOK'
  <2> USE DEF TypeOK, tables, bulk, history
  <2>1. CASE Fetch(r)
    BY <2>1 DEF Fetch
  <2>2. CASE Save(r)
    <3> HIDE DEF TypeOK
    <3>1. PICK p \in Entities \union {None}, nested \in SUBSET Issues : Upsert(r, p, nested)
      BY <2>2 DEF Save
    <3>2. key[r] \in Entities
      BY <3>1 DEF Upsert, Phases, TypeOK
    <3> QED BY <3>1, <3>2, UpsertTypes
  <2>3. CASE Reread(r)
    BY <2>3 DEF Reread
  <2>4. CASE StartHydration(r)
    BY <2>4 DEF StartHydration, Entities
  <2>5. CASE ListPage(r)
    BY <2>5 DEF ListPage
  <2>6. CASE ReadRow(r)
    <3>1. PICK i \in left[r] : /\ left' = [left EXCEPT ![r] = @ \ {i}]
                               /\ pc' = pc \/ pc' = [pc EXCEPT ![r] = "upsert"]
                               /\ cur' = cur \/ cur' = [cur EXCEPT ![r] = i]
      BY <2>6 DEF ReadRow
    <3> QED BY <2>6, <3>1 DEF ReadRow
  <2>7. CASE UpsertRow(r)
    <3>1. cur[r] \in Issues
      BY <2>7 DEF UpsertRow, Phases
    <3> QED BY <2>7, <3>1 DEF UpsertRow
  <2>8. CASE CommitPage(r)
    <3>1. level' \in [Entities -> Levels]
      BY <2>8 DEF CommitPage, Levels
    <3>2. parent' \in [Entities -> Entities \union {None}]
      BY <2>8 DEF CommitPage, Held, Entities
    <3>3. written' \in [Requests -> [Issues -> Volumes \union {None}]]
      BY <2>8 DEF CommitPage, Release
    <3>4. overtaken' \subseteq Issues
      BY <2>8 DEF CommitPage
    <3>5. /\ stubs' \in [Requests -> SUBSET Volumes]
          /\ cur' \in [Requests -> Issues \union {None}]
          /\ late' \in [Requests -> SUBSET Issues]
      BY <2>8 DEF CommitPage, Release
    <3> QED BY <2>8, <3>1, <3>2, <3>3, <3>4, <3>5 DEF CommitPage
  <2>9. CASE Fail(r)
    BY <2>9 DEF Fail, Release
  <2> QED BY <1>1, <2>1, <2>2, <2>3, <2>4, <2>5, <2>6, <2>7, <2>8, <2>9 DEF CacheStep
<1>2. ASSUME UNCHANGED vars PROVE TypeOK'
  BY <1>2 DEF TypeOK, vars
<1> QED BY <1>1, <1>2, Steps

\* Most steps leave the uncommitted rows alone.
LEMMA RowsKept ==
    ASSUME NEW r \in Requests,
           Fetch(r) \/ Save(r) \/ Reread(r) \/ StartHydration(r) \/ ListPage(r) \/ ReadRow(r)
    PROVE  /\ written' = written /\ stubs' = stubs
           /\ \A q \in Requests : Held(q)' = Held(q)
<1>1. written' = written /\ stubs' = stubs
  <2>1. CASE Fetch(r) \/ Save(r)
    BY <2>1 DEF Fetch, Save, Upsert, bulk
  <2>2. CASE Reread(r) \/ StartHydration(r) \/ ListPage(r) \/ ReadRow(r)
    BY <2>2 DEF Reread, StartHydration, ListPage, ReadRow, bulk
  <2> QED BY <2>1, <2>2
<1> QED BY <1>1 DEF Held

\* A page gains the row that was read last; a transaction that ends has no rows.
LEMMA HeldChanges ==
    ASSUME TypeOK, Phases, NEW r \in Requests, CacheStep(r)
    PROVE  /\ \A q \in Requests \ {r} : Held(q)' = Held(q) /\ stubs'[q] = stubs[q]
           /\ UpsertRow(r) => Held(r)' = Held(r) \union {cur[r]} /\ cur[r] \in Issues
           /\ CommitPage(r) \/ Fail(r) => Held(r)' = {} /\ stubs'[r] = {}
           /\ ~UpsertRow(r) /\ ~CommitPage(r) /\ ~Fail(r) =>
                  written' = written /\ stubs' = stubs /\ Held(r)' = Held(r)
<1>1. CASE UpsertRow(r)
  <2>1. cur[r] \in Issues
    BY <1>1 DEF UpsertRow, Phases, TypeOK
  <2>2. PICK v \in Volumes : written' = [written EXCEPT ![r][cur[r]] = v]
    BY <1>1 DEF UpsertRow
  <2>3. v # None
    BY CvCacheAssumption DEF Entities
  <2>4. stubs' = [stubs EXCEPT ![r] = stubs'[r]]
    BY <1>1 DEF UpsertRow, TypeOK
  <2>5. Held(r)' = Held(r) \union {cur[r]}
    BY <2>1, <2>2, <2>3 DEF Held, TypeOK
  <2>6. \A q \in Requests \ {r} : Held(q)' = Held(q) /\ stubs'[q] = stubs[q]
    BY <2>2, <2>4 DEF Held, TypeOK
  <2>7. ~CommitPage(r) /\ ~Fail(r)
    <3>1. pc[r] = "upsert" /\ pc'[r] = "page"
      BY <1>1 DEF UpsertRow, TypeOK
    <3> QED BY <3>1 DEF CommitPage, Fail, TypeOK
  <2> QED BY <1>1, <2>1, <2>5, <2>6, <2>7
<1>2. CASE CommitPage(r)
  BY <1>2 DEF CommitPage, Release, Held, TypeOK, UpsertRow
<1>3. CASE Fail(r)
  BY <1>3 DEF Fail, Release, Held, TypeOK, UpsertRow
<1>4. CASE Fetch(r) \/ Save(r) \/ Reread(r) \/ StartHydration(r) \/ ListPage(r) \/ ReadRow(r)
  BY <1>1, <1>2, <1>3, <1>4, RowsKept
<1> QED BY <1>1, <1>2, <1>3, <1>4 DEF CacheStep

\* What the tables become.
LEMMA LevelChanges ==
    ASSUME TypeOK, NEW r \in Requests, CacheStep(r), level' # level \/ parent' # parent
    PROVE  Save(r) \/ CommitPage(r)
  BY DEF CacheStep, Fetch, Reread, StartHydration, ListPage, ReadRow, UpsertRow, Fail, tables

\* A row that is there stays.
LEMMA RowsStay ==
    ASSUME TypeOK, [Next]_vars, NEW e \in Entities, level[e] # "none"
    PROVE  level'[e] # "none"
<1>1. ASSUME NEW r \in Requests, Save(r) PROVE level'[e] # "none"
  BY <1>1 DEF Save, Upsert, Enriched, StubRow, TypeOK
<1>2. ASSUME NEW r \in Requests, CommitPage(r) PROVE level'[e] # "none"
  BY <1>2 DEF CommitPage, TypeOK
<1> QED BY <1>1, <1>2, LevelChanges, Steps DEF vars

-----------------------------------------------------------------------------
(* The parts of the invariant *)

LEMMA BulkStep == ASSUME TypeOK, BulkAreIssues, [Next]_vars PROVE BulkAreIssues'
<1> SUFFICES ASSUME NEW e \in Entities, level'[e] = "bulk" PROVE e \in Issues
  BY DEF BulkAreIssues
<1>1. ASSUME NEW r \in Requests, Save(r) PROVE e \in Issues
  BY <1>1 DEF Save, Upsert, Enriched, StubRow, TypeOK, BulkAreIssues
<1>2. ASSUME NEW r \in Requests, CommitPage(r) PROVE e \in Issues
  BY <1>2 DEF CommitPage, TypeOK, Held, BulkAreIssues
<1>3. ASSUME level' = level PROVE e \in Issues
  BY <1>3 DEF BulkAreIssues
<1> QED BY <1>1, <1>2, <1>3, LevelChanges, Steps DEF vars

LEMMA PhaseStep == ASSUME TypeOK, Phases, [Next]_vars PROVE Phases'
<1>1. ASSUME NEW r \in Requests, CacheStep(r) PROVE Phases'
  <2> SUFFICES ASSUME NEW q \in Requests
               PROVE  /\ pc'[q] \in {"fetch", "reread"} => key'[q] # None
                      /\ pc'[q] = "upsert" <=> cur'[q] # None
                      /\ pc'[q] \notin {"page", "upsert"} => Held(q)' = {} /\ stubs'[q] = {}
                      /\ pc'[q] \in {"idle", "fetch", "reread"} => ensured'[q] = {}
    BY DEF Phases
  <2>0. /\ q # r => Held(q)' = Held(q) /\ stubs'[q] = stubs[q]
        /\ CommitPage(r) \/ Fail(r) => Held(r)' = {} /\ stubs'[r] = {}
    BY <1>1, HeldChanges
  <2> USE CvCacheAssumption DEF Phases, TypeOK
  <2>1. CASE Fetch(r) \/ StartHydration(r)
    <3>1. PICK e \in Entities :
             /\ key' = [key EXCEPT ![r] = e]
             /\ pc' = [pc EXCEPT ![r] = "fetch"] \/ pc' = [pc EXCEPT ![r] = "list"]
             /\ pc[r] = "idle"
             /\ UNCHANGED <<cur, ensured>>
      BY <2>1 DEF Fetch, StartHydration, bulk, Entities
    <3>2. Held(q)' = Held(q) /\ stubs'[q] = stubs[q]
      BY <2>1, RowsKept
    <3> QED BY <3>1, <3>2
  <2>2. CASE Save(r)
    <3>1. pc[r] = "fetch" /\ pc' = [pc EXCEPT ![r] = "reread"] /\ UNCHANGED <<key, cur, ensured>>
      BY <2>2 DEF Save, Upsert, bulk
    <3>2. Held(q)' = Held(q) /\ stubs'[q] = stubs[q]
      BY <2>2, RowsKept
    <3> QED BY <3>1, <3>2
  <2>3. CASE Reread(r)
    <3>1. Held(q)' = Held(q) /\ stubs'[q] = stubs[q]
      BY <2>3, RowsKept
    <3> QED BY <2>3, <3>1 DEF Reread, bulk
  <2>5. CASE ListPage(r)
    <3>1. Held(q)' = Held(q) /\ stubs'[q] = stubs[q]
      BY <2>5, RowsKept
    <3> QED BY <2>5, <3>1 DEF ListPage
  <2>6. CASE ReadRow(r)
    <3>1. PICK i \in left[r] :
             /\ \/ UNCHANGED <<pc, cur>>
                \/ pc' = [pc EXCEPT ![r] = "upsert"] /\ cur' = [cur EXCEPT ![r] = i]
             /\ pc[r] = "page"
             /\ UNCHANGED <<key, stubs, ensured, written>>
      BY <2>6 DEF ReadRow
    <3>2. i # None
      BY DEF Entities
    <3>3. Held(q)' = Held(q) /\ stubs'[q] = stubs[q]
      BY <2>6, RowsKept
    <3> QED BY <3>1, <3>2, <3>3
  <2>7. CASE UpsertRow(r)
    <3>1. /\ cur' = [cur EXCEPT ![r] = None] /\ pc' = [pc EXCEPT ![r] = "page"]
          /\ UNCHANGED key /\ (q # r => ensured'[q] = ensured[q])
      BY <2>7 DEF UpsertRow
    <3> QED BY <2>0, <3>1
  <2>8. CASE CommitPage(r)
    <3>1. cur' = [cur EXCEPT ![r] = None]
      BY <2>8 DEF CommitPage, Release
    <3>2. \/ pc' = [pc EXCEPT ![r] = "list"] /\ UNCHANGED <<key, ensured>>
          \/ pc' = [pc EXCEPT ![r] = "idle"] /\ key' = [key EXCEPT ![r] = None]
                /\ ensured' = [ensured EXCEPT ![r] = {}]
      BY <2>8 DEF CommitPage
    <3> QED BY <2>0, <2>8, <3>1, <3>2
  <2>9. CASE Fail(r)
    <3>1. /\ cur' = [cur EXCEPT ![r] = None] /\ pc' = [pc EXCEPT ![r] = "idle"]
          /\ key' = [key EXCEPT ![r] = None] /\ ensured' = [ensured EXCEPT ![r] = {}]
      BY <2>9 DEF Fail, Release
    <3> QED BY <2>0, <2>9, <3>1
  <2> HIDE CvCacheAssumption DEF Phases, TypeOK
  <2> QED BY <1>1, <2>1, <2>2, <2>3, <2>5, <2>6, <2>7, <2>8, <2>9 DEF CacheStep
<1>2. ASSUME UNCHANGED vars PROVE Phases'
  BY <1>2 DEF Phases, vars, Held
<1> QED BY <1>1, <1>2, Steps

\* An upsert turns only its own row into a full one, and inserts only rows no other
\* transaction is inserting.
LEMMA SaveEffect ==
    ASSUME TypeOK, Phases, NEW r \in Requests, Save(r)
    PROVE  /\ key[r] \in Entities
           /\ level'[key[r]] = "full"
           /\ \A e \in Entities \ {key[r]} :
                  level'[e] # level[e] => level[e] = "none" /\ level'[e] = "stub"
           /\ \A q \in Requests, e \in Entities :
                  e \in Held(q) \union stubs[q] /\ level[e] = "none" => level'[e] = "none"
           /\ \A q \in Requests : key[r] \notin Held(q)
<1>1. PICK p \in Entities \union {None}, nested \in SUBSET Issues : Upsert(r, p, nested)
  BY DEF Save
<1>2. key[r] \in Entities /\ Held(r) = {} /\ stubs[r] = {}
  BY <1>1 DEF Upsert, Phases, TypeOK
<1>3. level' = Enriched(key[r], ({p} \ {None}) \union nested)
  BY <1>1 DEF Upsert
<1>4. /\ level'[key[r]] = "full"
      /\ \A e \in Entities \ {key[r]} :
             level'[e] # level[e] => level[e] = "none" /\ level'[e] = "stub"
  BY <1>2, <1>3 DEF Enriched, StubRow
<1>5. \A q \in Requests, e \in Entities :
          e \in Held(q) \union stubs[q] /\ level[e] = "none" => level'[e] = "none"
  BY <1>1, <1>2, <1>3 DEF Enriched, Upsert, StubWaits, Locked
<1>6. \A q \in Requests : key[r] \notin Held(q)
  BY <1>1, <1>2 DEF Upsert, Locked
<1> QED BY <1>2, <1>4, <1>5, <1>6

LEMMA LockStep == ASSUME TypeOK, Phases, LocksHold, [Next]_vars PROVE LocksHold'
<1>1. ASSUME NEW r \in Requests, CacheStep(r) PROVE LocksHold'
  <2>1. ASSUME NEW q \in Requests, NEW e \in Held(q)' \union stubs'[q],
               NEW o \in Requests \ {q}, e \in Held(o)' \union stubs'[o]
        PROVE  FALSE
    <3>1. CASE UpsertRow(r)
      <4>1. PICK v \in Volumes :
               /\ ~StubWaits(r, {v} \ ensured[r])
               /\ ~Locked(r, cur[r])
               /\ stubs' = [stubs EXCEPT ![r] = @ \union {x \in {v} \ ensured[r] : level[x] = "none"}]
        BY <3>1 DEF UpsertRow
      <4>2. \A x \in Held(r)' \union stubs'[r] :
               x \in Held(r) \union stubs[r] \/ ~Locked(r, x)
        BY <1>1, <3>1, <4>1, HeldChanges DEF StubWaits, TypeOK
      <4> QED BY <1>1, <2>1, <3>1, <4>2, HeldChanges DEF LocksHold, Locked
    <3>2. CASE ~UpsertRow(r)
      BY <1>1, <2>1, <3>2, HeldChanges DEF LocksHold, Locked
    <3> QED BY <3>1, <3>2
  <2>2. ASSUME NEW q \in Requests, NEW v \in stubs'[q] PROVE level'[v] = "none"
    <3>1. CASE Save(r)
      <4>1. v \in stubs[q] /\ v \in Entities
        BY <1>1, <2>2, <3>1, HeldChanges
           DEF TypeOK, Entities, Save, Upsert, UpsertRow, CommitPage, Fail, Phases
      <4> QED BY <3>1, <4>1, SaveEffect DEF LocksHold
    <3>2. CASE CommitPage(r)
      <4>1. q # r /\ v \in stubs[q] /\ v \in Entities
        BY <1>1, <2>2, <3>2, HeldChanges DEF TypeOK, Entities
      <4>2. v \notin Held(r) \union stubs[r] /\ level[v] = "none"
        BY <4>1 DEF LocksHold, Locked
      <4> QED BY <3>2, <4>1, <4>2 DEF CommitPage
    <3>3. CASE ~Save(r) /\ ~CommitPage(r)
      <4>1. level' = level
        BY <1>1, <3>3, LevelChanges
      <4>2. CASE UpsertRow(r)
        BY <1>1, <2>2, <4>1, <4>2, HeldChanges DEF UpsertRow, LocksHold, TypeOK
      <4>3. CASE ~UpsertRow(r)
        BY <1>1, <2>2, <3>3, <4>1, <4>3, HeldChanges DEF LocksHold
      <4> QED BY <4>2, <4>3
    <3> QED BY <3>1, <3>2, <3>3
  <2> QED BY <2>1, <2>2 DEF LocksHold, Locked
<1>2. ASSUME UNCHANGED vars PROVE LocksHold'
  BY <1>2 DEF LocksHold, Locked, vars, Held
<1> QED BY <1>1, <1>2, Steps

LEMMA EnsuredStep ==
    ASSUME TypeOK, Phases, EnsuredExist, [Next]_vars PROVE EnsuredExist'
<1>1. ASSUME NEW r \in Requests, CacheStep(r), NEW q \in Requests, NEW v \in ensured'[q]
      PROVE  level'[v] # "none" \/ v \in stubs'[q]
  <2>1. CASE UpsertRow(r)
    BY <1>1, <2>1 DEF UpsertRow, EnsuredExist, TypeOK, tables
  <2>2. CASE CommitPage(r)
    <3>1. v \in ensured[q] /\ v \in Entities
      BY <1>1, <2>2 DEF CommitPage, TypeOK, Entities
    <3>2. CASE v \in stubs[q] /\ q = r
      BY <2>2, <3>1, <3>2 DEF CommitPage
    <3> QED BY <1>1, <2>2, <3>1, <3>2, HeldChanges, RowsStay DEF EnsuredExist
  <2>3. CASE ~UpsertRow(r) /\ ~CommitPage(r)
    <3>1. v \in ensured[q] /\ v \in Entities /\ stubs'[q] = stubs[q]
      BY <1>1, <2>3, HeldChanges
         DEF CacheStep, Fetch, Save, Upsert, Reread, StartHydration, ListPage, ReadRow, Fail,
             bulk, TypeOK, Entities
    <3> QED BY <3>1, RowsStay DEF EnsuredExist
  <2> QED BY <2>1, <2>2, <2>3
<1>2. ASSUME UNCHANGED vars PROVE EnsuredExist'
  BY <1>2 DEF EnsuredExist, vars
<1> QED BY <1>1, <1>2, Steps DEF EnsuredExist

LEMMA LateStep ==
    ASSUME TypeOK, Phases, LocksHold, LateKnown, [Next]_vars PROVE LateKnown'
<1>1. ASSUME NEW r \in Requests, CacheStep(r), NEW q \in Requests, NEW i \in Issues,
             i = cur'[q] \/ i \in Held(q)', level'[i] = "full"
      PROVE  i \in late'[q]
  <2> i \in Entities /\ i # None
    BY CvCacheAssumption DEF Entities
  <2>1. CASE Save(r)
    <3>1. i = cur[q] \/ i \in Held(q)
      BY <1>1, <2>1, RowsKept DEF Save, Upsert, bulk
    <3>2. late' = [o \in Requests |-> IF cur[o] = key[r] THEN late[o] \union {key[r]} ELSE late[o]]
      BY <2>1 DEF Save, Upsert
    <3>3. CASE i = key[r]
      BY <2>1, <3>1, <3>2, <3>3, SaveEffect
    <3>4. CASE i # key[r]
      BY <1>1, <2>1, <3>1, <3>2, <3>4, SaveEffect DEF LateKnown, Complete
    <3> QED BY <3>3, <3>4
  <2>2. CASE CommitPage(r)
    <3>1. q # r /\ (i = cur[q] \/ i \in Held(q)) /\ late'[q] = late[q]
      BY <1>1, <2>2, HeldChanges DEF CommitPage, Release, TypeOK
    <3>2. level[i] = "full"
      BY <1>1, <2>2 DEF CommitPage
    <3> QED BY <3>1, <3>2 DEF LateKnown, Complete
  <2>3. CASE ReadRow(r)
    <3>1. level' = level /\ late' = late /\ Held(q)' = Held(q)
      BY <2>3, RowsKept DEF ReadRow, tables, history
    <3>2. cur'[q] = cur[q] \/ level[cur'[q]] # "full"
      BY <2>3 DEF ReadRow, Complete, TypeOK
    <3> QED BY <1>1, <3>1, <3>2 DEF LateKnown, Complete
  <2>4. CASE UpsertRow(r)
    <3>1. level' = level /\ late' = late /\ cur' = [cur EXCEPT ![r] = None]
      BY <2>4 DEF UpsertRow, tables, history
    <3>2. i = cur[q] \/ i \in Held(q)
      BY <1>1, <2>4, <3>1, HeldChanges DEF TypeOK
    <3> QED BY <1>1, <3>1, <3>2 DEF LateKnown, Complete
  <2>5. CASE Fail(r)
    <3>1. level' = level /\ cur' = [cur EXCEPT ![r] = None] /\ late' = [late EXCEPT ![r] = {}]
      BY <2>5 DEF Fail, Release, tables
    <3>2. q # r /\ (i = cur[q] \/ i \in Held(q))
      BY <1>1, <2>5, <3>1, HeldChanges DEF TypeOK
    <3> QED BY <1>1, <3>1, <3>2 DEF LateKnown, Complete, TypeOK
  <2>6. CASE Fetch(r) \/ Reread(r) \/ StartHydration(r) \/ ListPage(r)
    <3>1. cur' = cur /\ late' = late /\ level' = level
      BY <2>6 DEF Fetch, Reread, StartHydration, ListPage, tables, bulk, history
    <3>2. Held(q)' = Held(q)
      BY <2>6, RowsKept
    <3> QED BY <1>1, <3>1, <3>2 DEF LateKnown, Complete
  <2> QED BY <1>1, <2>1, <2>2, <2>3, <2>4, <2>5, <2>6 DEF CacheStep
<1>2. ASSUME UNCHANGED vars PROVE LateKnown'
  BY <1>2 DEF LateKnown, Complete, vars, Held
<1> QED BY <1>1, <1>2, Steps DEF LateKnown, Complete

LEMMA ServedStep ==
    ASSUME TypeOK, Phases, LocksHold, LateKnown, ServedComplete, [Next]_vars
    PROVE  ServedComplete'
<1>1. ASSUME NEW r \in Requests, CacheStep(r), NEW q \in Requests, pc'[q] = "reread"
      PROVE  level'[key'[q]] = "full" \/ key'[q] \in overtaken'
  <2>1. CASE Save(r)
    <3>1. key' = key /\ overtaken' = overtaken /\ (q # r => pc'[q] = pc[q])
      BY <2>1 DEF Save, Upsert, TypeOK
    <3>2. key[q] \in Entities
      BY <1>1, <2>1, <3>1, SaveEffect DEF Phases, TypeOK
    <3> QED BY <1>1, <2>1, <3>1, <3>2, SaveEffect DEF ServedComplete, Complete
  <2>2. CASE CommitPage(r)
    <3>1. q # r /\ pc[q] = "reread" /\ key'[q] = key[q] /\ key[q] \in Entities
      BY <1>1, <2>2 DEF CommitPage, TypeOK, Phases
    <3>2. CASE level[key[q]] = "full" /\ key[q] \in Held(r)
      BY <2>2, <3>1, <3>2 DEF CommitPage, LateKnown, Complete, Held
    <3>3. CASE level[key[q]] = "full" /\ key[q] \notin Held(r)
      BY <2>2, <3>1, <3>3 DEF CommitPage, LocksHold
    <3>4. CASE key[q] \in overtaken
      BY <2>2, <3>1, <3>4 DEF CommitPage
    <3> QED BY <3>1, <3>2, <3>3, <3>4 DEF ServedComplete, Complete
  <2>3. CASE ~Save(r) /\ ~CommitPage(r)
    <3>1. pc[q] = "reread" /\ key'[q] = key[q] /\ overtaken' = overtaken
      <4>1. CASE Fetch(r) \/ StartHydration(r)
        BY <1>1, <4>1 DEF Fetch, StartHydration, TypeOK, history
      <4>2. CASE Reread(r) \/ ListPage(r)
        BY <1>1, <4>2 DEF Reread, ListPage, TypeOK, history
      <4>3. CASE ReadRow(r)
        BY <1>1, <4>3 DEF ReadRow, TypeOK, history
      <4>4. CASE UpsertRow(r)
        BY <1>1, <4>4 DEF UpsertRow, TypeOK, history
      <4>5. CASE Fail(r)
        BY <1>1, <4>5 DEF Fail, TypeOK
      <4> QED BY <1>1, <2>3, <4>1, <4>2, <4>3, <4>4, <4>5 DEF CacheStep
    <3> QED BY <1>1, <2>3, <3>1, LevelChanges DEF ServedComplete, Complete
  <2> QED BY <2>1, <2>2, <2>3
<1>2. ASSUME UNCHANGED vars PROVE ServedComplete'
  BY <1>2 DEF ServedComplete, Complete, vars
<1> QED BY <1>1, <1>2, Steps DEF ServedComplete, Complete

\* An upsert refers to a row it has seen to.
LEMMA SavedReference ==
    ASSUME TypeOK, Phases, ReferencesExist, NEW r \in Requests, Save(r), [Next]_vars,
           NEW e \in Entities, parent'[e] # None
    PROVE  level'[parent'[e]] # "none"
<1>1. PICK p \in Entities \union {None}, nested \in SUBSET Issues : Upsert(r, p, nested)
  BY DEF Save
<1>2. CASE parent'[e] = parent[e]
  BY <1>2, RowsStay DEF ReferencesExist, TypeOK
<1>3. CASE e = key[r] /\ parent'[e] = p
  BY <1>1, <1>3 DEF Upsert, Enriched, StubRow
<1>4. CASE parent'[e] = key[r]
  BY <1>4, SaveEffect
<1> QED BY <1>1, <1>2, <1>3, <1>4 DEF Upsert

LEMMA ReferencesStep ==
    ASSUME TypeOK, Phases, EnsuredExist, ReferencesExist, [Next]_vars
    PROVE  ReferencesExist'
<1>1. ASSUME NEW r \in Requests, CacheStep(r), NEW e \in Entities, parent'[e] # None
      PROVE  level'[parent'[e]] # "none"
  <2>1. CASE CommitPage(r) /\ e \in Held(r)
    <3>1. parent'[e] = written[r][e] /\ written[r][e] \in Entities
      BY <2>1, CvCacheAssumption DEF CommitPage, Held, TypeOK, Entities
    <3>2. level[written[r][e]] # "none" \/ written[r][e] \in stubs[r]
      BY <2>1 DEF ReferencesExist
    <3> QED BY <2>1, <3>1, <3>2 DEF CommitPage
  <2>2. CASE CommitPage(r) /\ e \notin Held(r)
    <3>1. parent'[e] = parent[e]
      BY <2>2 DEF CommitPage
    <3> QED BY <1>1, <3>1, RowsStay DEF ReferencesExist, TypeOK
  <2>3. CASE ~Save(r) /\ ~CommitPage(r)
    BY <1>1, <2>3, LevelChanges DEF ReferencesExist
  <2> QED BY <1>1, <2>1, <2>2, <2>3, SavedReference
<1>2. ASSUME NEW r \in Requests, CacheStep(r), NEW q \in Requests, NEW i \in Held(q)'
      PROVE  level'[written'[q][i]] # "none" \/ written'[q][i] \in stubs'[q]
  <2>1. CASE UpsertRow(r) /\ q = r /\ i = cur[r]
    <3>1. PICK v \in Volumes : /\ written' = [written EXCEPT ![r][cur[r]] = v]
                               /\ ensured' = [ensured EXCEPT ![r] = @ \union {v}]
      BY <2>1 DEF UpsertRow
    <3>2. written'[q][i] = v /\ v \in ensured'[q]
      BY <1>2, <2>1, <3>1, HeldChanges DEF TypeOK
    <3>3. EnsuredExist'
      BY EnsuredStep
    <3> QED BY <3>2, <3>3 DEF EnsuredExist
  <2>2. CASE ~(UpsertRow(r) /\ q = r /\ i = cur[r])
    <3>1. /\ i \in Held(q) /\ written'[q][i] = written[q][i]
          /\ stubs[q] \subseteq stubs'[q]
      <4>1. CASE UpsertRow(r)
        <5>1. PICK v \in Volumes :
                 /\ written' = [written EXCEPT ![r][cur[r]] = v]
                 /\ stubs' = [stubs EXCEPT ![r] =
                                 @ \union {x \in {v} \ ensured[r] : level[x] = "none"}]
          BY <4>1 DEF UpsertRow
        <5>2. /\ q # r => Held(q)' = Held(q)
              /\ Held(r)' = Held(r) \union {cur[r]} /\ cur[r] \in Issues
          BY <1>2, <4>1, HeldChanges
        <5>3. i \in Held(q) /\ (q # r \/ i # cur[r])
          BY <1>2, <2>2, <4>1, <5>2
        <5>4. i \in Issues
          BY <5>3 DEF Held
        <5> QED BY <5>1, <5>2, <5>3, <5>4 DEF TypeOK
      <4>2. CASE CommitPage(r) \/ Fail(r)
        BY <1>2, <4>2, HeldChanges DEF CommitPage, Fail, Release, TypeOK
      <4>3. CASE ~UpsertRow(r) /\ ~CommitPage(r) /\ ~Fail(r)
        BY <1>2, <4>3, HeldChanges
      <4> QED BY <4>1, <4>2, <4>3
    <3>2. written[q][i] \in Entities
      BY <3>1, CvCacheAssumption DEF Held, TypeOK, Entities
    <3> QED BY <3>1, <3>2, RowsStay DEF ReferencesExist
  <2> QED BY <2>1, <2>2
<1>3. ASSUME UNCHANGED vars PROVE ReferencesExist'
  BY <1>3 DEF ReferencesExist, vars, Held
<1> QED BY <1>1, <1>2, <1>3, Steps DEF ReferencesExist

-----------------------------------------------------------------------------
(* The invariant and its consequences *)

LEMMA InitIInv == Init => IInv
<1> SUFFICES ASSUME Init PROVE IInv
  OBVIOUS
<1>1. \A r \in Requests : Held(r) = {}
  BY DEF Init, Held
<1>2. TypeOK
  BY DEF Init, TypeOK, Levels
<1>3. BulkAreIssues /\ EnsuredExist /\ ServedComplete
  BY DEF Init, BulkAreIssues, EnsuredExist, ServedComplete
<1>4. Phases
  BY <1>1 DEF Init, Phases
<1>5. LocksHold
  BY <1>1 DEF Init, LocksHold
<1>6. LateKnown
  BY CvCacheAssumption DEF Init, LateKnown, Complete, Entities
<1>7. ReferencesExist
  BY <1>1 DEF Init, ReferencesExist
<1> QED BY <1>2, <1>3, <1>4, <1>5, <1>6, <1>7 DEF IInv

LEMMA NextIInv == IInv /\ [Next]_vars => IInv'
  BY TypeStep, BulkStep, PhaseStep, LockStep, EnsuredStep, LateStep, ServedStep,
     ReferencesStep DEF IInv

\* The inductive invariant holds in every reachable state, for any entities and any
\* number of requests and hydrations.
THEOREM Invariance == Spec => []IInv
  BY InitIInv, NextIInv, PTL DEF Spec

\* The tables, the requests and the histories keep their types.
THEOREM CacheTypes == Spec => []TypeOK
<1>1. IInv => TypeOK
  BY DEF IInv
<1> QED BY <1>1, Invariance, PTL

\* What get_volume, get_issue and get_publisher read back after their commit is full,
\* unless a page of a hydration has overtaken the fetch of that issue.
THEOREM ServedFull == Spec => []ServedComplete
<1>1. IInv => ServedComplete
  BY DEF IInv
<1> QED BY <1>1, Invariance, PTL

\* No upsert trips a foreign key, in any interleaving of requests and hydrations.
THEOREM ReferencesKept == Spec => []ReferencesExist
<1>1. IInv => ReferencesExist
  BY DEF IInv
<1> QED BY <1>1, Invariance, PTL

\* A row is replaced by a poorer one only by a page that had read it before it was
\* full.
THEOREM RicherKept == Spec => RicherDataKept
<1> DEFINE Richer == \A e \in Entities :
        level'[e] \in Below[level[e]] => \E r \in Requests : e \in Held(r) \intersect late[r]
<1>1. ASSUME IInv, [Next]_vars, NEW e \in Entities, level'[e] \in Below[level[e]]
      PROVE  \E r \in Requests : e \in Held(r) \intersect late[r]
  <2> USE DEF Below, IInv
  <2>1. level[e] \in Levels /\ level'[e] # level[e]
    BY <1>1 DEF TypeOK, Levels
  <2>2. PICK r \in Requests : CacheStep(r)
    BY <1>1, <2>1, Steps DEF vars, TypeOK
  <2>3. ~Save(r)
    BY <1>1, <2>1, <2>2, SaveEffect DEF Levels
  <2>4. CommitPage(r)
    BY <1>1, <2>1, <2>2, <2>3, LevelChanges
  <2>5. e \in Held(r)
    BY <1>1, <2>1, <2>4 DEF CommitPage, LocksHold, Levels
  <2>6. level'[e] = "bulk"
    BY <2>4, <2>5, <1>1 DEF CommitPage
  <2>7. level[e] = "full"
    BY <1>1, <2>1, <2>6 DEF Levels
  <2> QED BY <1>1, <2>2, <2>5, <2>7 DEF LateKnown, Complete, Held
<1>2. IInv /\ [Next]_vars => [Richer]_vars
  BY <1>1
<1> QED BY <1>2, Invariance, PTL DEF Spec, RicherDataKept

-----------------------------------------------------------------------------
(* LocalSteps *)

\* Every step is one of these; each is treated in turn below.
Opening(r) == \E place \in {"entry", "group"}, entries \in SUBSET Entries : OpenForm(r, place, entries)

LocalStep(r) ==
    \/ Opening(r) \/ CheckNumbers(r) \/ SaveEntries(r)
    \/ OpenMerge(r) \/ Move(r) \/ DropSource(r) \/ Fails(r)

LEMMA LocalSteps ==
    ASSUME [LocalNext]_localVars
    PROVE  \/ CreateVolume
           \/ \E e \in Entries : Renumber(e)
           \/ \E r \in Edits : LocalStep(r)
           \/ UNCHANGED localVars
<1>1. ASSUME NEW r \in Edits, OpenEntry(r) PROVE LocalStep(r)
  BY <1>1 DEF OpenEntry, LocalStep, Opening
<1>2. ASSUME NEW r \in Edits, OpenGroup(r) PROVE LocalStep(r)
  BY <1>2 DEF OpenGroup, LocalStep, Opening
<1> QED BY <1>1, <1>2 DEF LocalNext, LocalStep

\* The history of another request grows when rows come into the volume it watches.
LEMMA Arrivals ==
    ASSUME LocalTypeOK, NEW r \in Edits, NEW E \in SUBSET Entries, NEW v \in LocalIds, Arrive(r, E, v)
    PROVE  /\ newer' \in [Edits -> SUBSET Entries]
           /\ newer'[r] = {}
           /\ \A q \in Edits \ {r} :
                 /\ newer[q] \subseteq newer'[q]
                 /\ Watched(q) = v => E \subseteq newer'[q]
                 /\ Watched(q) # v => newer'[q] = newer[q]
  BY DEF Arrive, LocalTypeOK

LEMMA RenumberArrivals ==
    ASSUME LocalTypeOK, NEW e \in Entries, Renumber(e)
    PROVE  /\ newer' \in [Edits -> SUBSET Entries]
           /\ \A q \in Edits :
                 /\ newer[q] \subseteq newer'[q]
                 /\ Watched(q) = home[e] => e \in newer'[q]
                 /\ Watched(q) # home[e] => newer'[q] = newer[q]
  BY DEF Renumber, LocalTypeOK

\* Only attaches and merges rely on what they have looked at.
LEMMA WatchedBy ==
    ASSUME NEW q \in Edits, NEW v \in LocalIds, Watched(q) = v
    PROVE  \/ phase[q] = "moved" /\ source[q] = v
           \/ phase[q] = "attach" /\ target[q] = v
  BY LocalAssumption DEF Watched

\* What a request that ends leaves behind.
LEMMA Ends ==
    ASSUME LocalTypeOK, NEW r \in Edits, NEW unused \in SUBSET Entries, End(r, unused)
    PROVE  /\ phase'[r] = "idle" /\ target'[r] = Nowhere /\ source'[r] = Nowhere
           /\ batch'[r] = {} /\ moved'[r] = {}
           /\ \A q \in Edits \ {r} :
                 /\ phase'[q] = phase[q] /\ target'[q] = target[q] /\ source'[q] = source[q]
                 /\ batch'[q] = batch[q] /\ moved'[q] = moved[q]
           /\ fresh' = fresh \union unused
           /\ phase' \in [Edits -> {"idle", "entry", "group", "attach", "merge", "moved"}]
           /\ target' \in [Edits -> LocalIds \union {Nowhere}]
           /\ source' \in [Edits -> LocalIds \union {Nowhere}]
           /\ batch' \in [Edits -> SUBSET Entries]
           /\ moved' \in [Edits -> SUBSET Entries]
           /\ fresh' \subseteq Entries
  BY DEF End, LocalTypeOK

-----------------------------------------------------------------------------
(* Types *)

LEMMA LocalTypeStep == ASSUME LocalTypeOK, TargetsHeld, [LocalNext]_localVars PROVE LocalTypeOK'
<1>1. CASE CreateVolume
  <2>1. PICK v \in unborn, made \in SUBSET fresh \ {{}} :
          /\ volumes' = volumes \union {v}
          /\ unborn' = unborn \ {v}
          /\ home' = [e \in Entries |-> IF e \in made THEN v ELSE home[e]]
          /\ \E n \in [made -> Numbers \union {Nowhere}] :
                number' = [e \in Entries |-> IF e \in made THEN n[e] ELSE number[e]]
          /\ fresh' = fresh \ made
          /\ UNCHANGED <<request, newer>>
    BY <1>1 DEF CreateVolume
  <2>2. number' \in [Entries -> Numbers \union {Nowhere}]
    BY <2>1 DEF LocalTypeOK
  <2>3. home' \in [Entries -> LocalIds \union {Nowhere}]
    BY <2>1 DEF LocalTypeOK
  <2> QED BY <2>1, <2>2, <2>3 DEF LocalTypeOK, request
<1>2. ASSUME NEW e \in Entries, Renumber(e) PROVE LocalTypeOK'
  BY <1>2, RenumberArrivals DEF Renumber, LocalTypeOK, request
<1>3. ASSUME NEW r \in Edits, LocalStep(r) PROVE LocalTypeOK'
  <2>1. CASE Opening(r)
    <3>1. PICK place \in {"entry", "group"}, entries \in SUBSET Entries : OpenForm(r, place, entries)
      BY <2>1 DEF Opening
    <3>2. number' \in [Entries -> Numbers \union {Nowhere}]
      BY <3>1 DEF OpenForm, LocalTypeOK
    <3>3. /\ phase' \in [Edits -> {"idle", "entry", "group", "attach", "merge", "moved"}]
          /\ target' \in [Edits -> LocalIds \union {Nowhere}]
          /\ batch' \in [Edits -> SUBSET Entries]
          /\ fresh' \subseteq Entries
      BY <3>1 DEF OpenForm, LocalTypeOK
    <3> QED BY <3>1, <3>2, <3>3 DEF OpenForm, LocalTypeOK
  <2>2. CASE CheckNumbers(r)
    <3>1. batch[r] \in SUBSET Entries
      BY DEF LocalTypeOK
    <3>2. CASE Conflict(r)
      BY <2>2, <3>1, <3>2, Ends DEF CheckNumbers, LocalTypeOK, rows
    <3>3. CASE ~Conflict(r)
      BY <2>2, <3>3 DEF CheckNumbers, LocalTypeOK, rows
    <3> QED BY <3>2, <3>3
  <2>3. CASE SaveEntries(r)
    <3>1. PICK made \in SUBSET batch[r] \ {{}} :
            /\ home' = [e \in Entries |-> IF e \in made THEN target[r] ELSE home[e]]
            /\ Arrive(r, made, target[r])
            /\ End(r, batch[r] \ made)
      BY <2>3 DEF SaveEntries
    <3>2. target[r] \in LocalIds /\ made \in SUBSET Entries /\ batch[r] \ made \in SUBSET Entries
      BY <2>3 DEF SaveEntries, LocalTypeOK
    <3>3. newer' \in [Edits -> SUBSET Entries]
      BY <3>1, <3>2, Arrivals
    <3>4. home' \in [Entries -> LocalIds \union {Nowhere}]
      BY <3>1, <3>2 DEF LocalTypeOK
    <3>5. UNCHANGED <<volumes, unborn, number>>
      BY <2>3 DEF SaveEntries
    <3> QED BY <3>1, <3>2, <3>3, <3>4, <3>5, Ends DEF LocalTypeOK
  <2>4. CASE OpenMerge(r)
    BY <2>4 DEF OpenMerge, LocalTypeOK, rows
  <2>5. CASE Move(r)
    BY <2>5 DEF Move, LocalTypeOK, rows, In
  <2>6. CASE DropSource(r)
    <3>1. target[r] \in LocalIds /\ moved[r] \in SUBSET Entries
      BY <2>6 DEF DropSource, TargetsHeld, LocalTypeOK
    <3>2. newer' \in [Edits -> SUBSET Entries]
      BY <2>6, <3>1, Arrivals DEF DropSource
    <3>3. home' \in [Entries -> LocalIds \union {Nowhere}]
      BY <2>6, <3>1 DEF DropSource, LocalTypeOK
    <3>4. End(r, {}) /\ volumes' = volumes \ {source[r]} /\ UNCHANGED <<unborn, number>>
      BY <2>6 DEF DropSource
    <3> QED BY <3>2, <3>3, <3>4, Ends DEF LocalTypeOK
  <2>7. CASE Fails(r)
    <3>1. batch[r] \in SUBSET Entries /\ End(r, batch[r])
      BY <2>7 DEF Fails, LocalTypeOK
    <3>2. newer' \in [Edits -> SUBSET Entries] /\ UNCHANGED <<volumes, unborn, rows>>
      BY <2>7 DEF Fails, LocalTypeOK
    <3> QED BY <3>1, <3>2, Ends DEF LocalTypeOK, rows
  <2> QED BY <1>3, <2>1, <2>2, <2>3, <2>4, <2>5, <2>6, <2>7 DEF LocalStep
<1>4. CASE UNCHANGED localVars
  BY <1>4 DEF LocalTypeOK, localVars, request, rows
<1> QED BY <1>1, <1>2, <1>3, <1>4, LocalSteps

-----------------------------------------------------------------------------
(* What requests hold *)

LEMMA OnlyWatching ==
    ASSUME LocalTypeOK, TargetsHeld, NEW r \in Edits, NEW E \in SUBSET Entries, NEW v \in LocalIds,
           Arrive(r, E, v), NEW q \in Edits, newer'[q] # {}
    PROVE  q # r /\ phase[q] \in {"attach", "moved"}
<1>1. q # r
  BY Arrivals
<1>2. CASE Watched(q) = v
  BY <1>1, <1>2, WatchedBy
<1>3. CASE Watched(q) # v
  <2>1. newer[q] # {}
    BY <1>1, <1>3, Arrivals
  <2> QED BY <1>1, <2>1 DEF TargetsHeld
<1> QED BY <1>1, <1>2, <1>3

LEMMA HeldStep == ASSUME LocalTypeOK, TargetsHeld, RowsHeld, [LocalNext]_localVars PROVE TargetsHeld'
<1> USE LocalAssumption DEF TargetsHeld, LocalTypeOK
<1>1. CASE CreateVolume
  <2>1. PICK v \in unborn, made \in SUBSET fresh \ {{}} :
          /\ unborn' = unborn \ {v}
          /\ home' = [e \in Entries |-> IF e \in made THEN v ELSE home[e]]
          /\ fresh' = fresh \ made
          /\ UNCHANGED <<request, newer>>
    BY <1>1 DEF CreateVolume
  <2> QED BY <2>1 DEF request
<1>2. ASSUME NEW e \in Entries, Renumber(e) PROVE TargetsHeld'
  <2>1. home[e] # Nowhere /\ UNCHANGED <<unborn, home, fresh, request>>
    BY <1>2 DEF Renumber
  <2>2. ASSUME NEW q \in Edits, newer'[q] # {} PROVE phase[q] \in {"attach", "moved"}
    BY <1>2, <2>1, <2>2, RenumberArrivals, WatchedBy
  <2> QED BY <2>1, <2>2 DEF request
<1>3. ASSUME NEW r \in Edits, LocalStep(r) PROVE TargetsHeld'
  <2>1. CASE Opening(r)
    BY <2>1 DEF Opening, OpenForm
  <2>2. CASE CheckNumbers(r)
    <3>1. CASE Conflict(r)
      <4>1. /\ End(r, batch[r]) /\ batch[r] \in SUBSET Entries
            /\ UNCHANGED <<unborn, home, newer>>
        BY <2>2, <3>1 DEF CheckNumbers, rows, LocalTypeOK
      <4>2. newer[r] = {}
        BY <2>2 DEF CheckNumbers
      <4> QED BY <4>1, <4>2, Ends
    <3>2. CASE ~Conflict(r)
      BY <2>2, <3>2 DEF CheckNumbers, rows
    <3> QED BY <3>1, <3>2
  <2>3. CASE SaveEntries(r)
    <3>1. PICK made \in SUBSET batch[r] \ {{}} :
            /\ home' = [e \in Entries |-> IF e \in made THEN target[r] ELSE home[e]]
            /\ Arrive(r, made, target[r])
            /\ End(r, batch[r] \ made)
            /\ UNCHANGED unborn
      BY <2>3 DEF SaveEntries
    <3>2. target[r] \in LocalIds /\ made \in SUBSET Entries /\ batch[r] \ made \in SUBSET Entries
      BY <2>3 DEF SaveEntries
    <3>3. ASSUME NEW q \in Edits, newer'[q] # {} PROVE phase'[q] \in {"attach", "moved"}
      <4>1. q # r /\ phase[q] \in {"attach", "moved"}
        BY <3>1, <3>2, <3>3, OnlyWatching
      <4> QED BY <3>1, <3>2, <4>1, Ends
    <3>4. \A e \in Entries : e \in fresh' => home'[e] = Nowhere
      BY <3>1, <3>2, Ends
    <3>5. \A q \in Edits : \A e \in batch'[q] : home'[e] = Nowhere /\ e \notin fresh'
      BY <3>1, <3>2, Ends
    <3>6. /\ phase'[r] = "idle" /\ target'[r] = Nowhere /\ source'[r] = Nowhere /\ batch'[r] = {}
          /\ \A q \in Edits \ {r} :
                phase'[q] = phase[q] /\ target'[q] = target[q] /\ source'[q] = source[q]
                /\ batch'[q] = batch[q]
      <4> HIDE DEF LocalTypeOK, TargetsHeld
      <4>1. End(r, batch[r] \ made)
        BY <3>1
      <4> QED BY <3>2, <4>1, Ends
    <3>7. \A q, o \in Edits : q # o => batch'[q] \intersect batch'[o] = {}
      BY <3>6
    <3> QED BY <3>1, <3>3, <3>4, <3>5, <3>6, <3>7
  <2>4. CASE OpenMerge(r)
    BY <2>4 DEF OpenMerge, rows
  <2>5. CASE Move(r)
    BY <2>5 DEF Move, rows
  <2>6. CASE DropSource(r)
    <3>1. target[r] \in LocalIds /\ moved[r] \in SUBSET Entries
      BY <2>6 DEF DropSource
    <3>2. /\ End(r, {}) /\ UNCHANGED unborn /\ Arrive(r, moved[r], target[r])
          /\ home' = [e \in Entries |-> IF e \in moved[r] THEN target[r]
                                        ELSE IF home[e] = source[r] THEN Nowhere ELSE home[e]]
      BY <2>6 DEF DropSource
    <3>3. ASSUME NEW q \in Edits, newer'[q] # {} PROVE phase'[q] \in {"attach", "moved"}
      <4>1. q # r /\ phase[q] \in {"attach", "moved"}
        BY <3>1, <3>2, <3>3, OnlyWatching
      <4> QED BY <3>1, <3>2, <4>1, Ends
    <3>4. \A e \in Entries : home[e] = Nowhere => home'[e] = Nowhere
      BY <2>6, <3>2 DEF DropSource, RowsHeld
    <3> QED BY <3>1, <3>2, <3>3, <3>4, Ends
  <2>7. CASE Fails(r)
    BY <2>7, Ends DEF Fails, rows
  <2> QED BY <1>3, <2>1, <2>2, <2>3, <2>4, <2>5, <2>6, <2>7 DEF LocalStep
<1>4. CASE UNCHANGED localVars
  BY <1>4 DEF localVars, request, rows
<1> QED BY <1>1, <1>2, <1>3, <1>4, LocalSteps

-----------------------------------------------------------------------------
(* Rows and volumes *)

LEMMA RowsStep ==
    ASSUME LocalTypeOK, TargetsHeld, RowsHeld, HomesExist, [LocalNext]_localVars
    PROVE  RowsHeld' /\ HomesExist'
<1> USE LocalAssumption DEF RowsHeld, HomesExist, LocalTypeOK
<1>1. CASE CreateVolume
  BY <1>1 DEF CreateVolume, TargetsHeld, request
<1>2. ASSUME NEW e \in Entries, Renumber(e) PROVE RowsHeld' /\ HomesExist'
  BY <1>2 DEF Renumber, request
<1>3. ASSUME NEW r \in Edits, LocalStep(r) PROVE RowsHeld' /\ HomesExist'
  <2>1. CASE Opening(r)
    BY <2>1 DEF Opening, OpenForm, TargetsHeld
  <2>2. CASE CheckNumbers(r)
    <3>1. moved[r] = {}
      BY <2>2 DEF CheckNumbers
    <3>2. CASE Conflict(r)
      BY <2>2, <3>1, <3>2, Ends DEF CheckNumbers, rows
    <3>3. CASE ~Conflict(r)
      BY <2>2, <3>1, <3>3 DEF CheckNumbers, rows
    <3> QED BY <3>2, <3>3
  <2>3. CASE SaveEntries(r)
    <3>1. PICK made \in SUBSET batch[r] \ {{}} :
            /\ home' = [e \in Entries |-> IF e \in made THEN target[r] ELSE home[e]]
            /\ End(r, batch[r] \ made)
            /\ UNCHANGED volumes
      BY <2>3 DEF SaveEntries
    <3>2. target[r] \in volumes /\ made \in SUBSET Entries /\ batch[r] \ made \in SUBSET Entries
      BY <2>3 DEF SaveEntries
    <3>3. \A q \in Edits : moved'[q] \subseteq moved[q] /\ (q # r => phase'[q] = phase[q]
                                 /\ target'[q] = target[q] /\ source'[q] = source[q])
      BY <3>1, <3>2, Ends
    <3>4. \A q \in Edits : \A e \in moved[q] : home[e] # Nowhere
      BY DEF TargetsHeld
    <3>5. \A e \in Entries : home[e] # Nowhere => home'[e] = home[e]
      BY <3>1 DEF TargetsHeld
    <3>6. moved'[r] = {}
      BY <3>1, <3>2, Ends
    <3>7. RowsHeld'
      BY <3>1, <3>3, <3>4, <3>5, <3>6
    <3> QED BY <3>1, <3>2, <3>7
  <2>4. CASE OpenMerge(r)
    BY <2>4 DEF OpenMerge, rows
  <2>5. CASE Move(r)
    <3>1. moved' = [moved EXCEPT ![r] = In(source[r])]
      BY <2>5 DEF Move
    <3>2. \A q \in Edits \ {r} : In(source[r]) \intersect moved[q] = {}
      BY <2>5 DEF Move, LockedFor
    <3>3. In(source[r]) = {e \in Entries : home[e] = source[r]}
      BY DEF In
    <3>4. /\ phase' = [phase EXCEPT ![r] = "moved"]
          /\ In(source[r]) # {} => target[r] \in volumes
          /\ UNCHANGED <<volumes, home, target, source>>
      BY <2>5 DEF Move, rows
    <3> QED BY <3>1, <3>2, <3>3, <3>4
  <2>6. CASE DropSource(r)
    <3>1. /\ End(r, {}) /\ volumes' = volumes \ {source[r]} /\ phase[r] = "moved"
          /\ home' = [e \in Entries |-> IF e \in moved[r] THEN target[r]
                                        ELSE IF home[e] = source[r] THEN Nowhere ELSE home[e]]
      BY <2>6 DEF DropSource
    <3>2. \A q \in Edits \ {r} : moved[q] # {} => target[q] \in volumes'
      BY <2>6, <3>1 DEF DropSource, Referred
    <3>3. \A q \in Edits \ {r} : \A e \in moved[q] : home'[e] = home[e]
      <4>1. \A q \in Edits \ {r} : In(source[r]) \intersect moved[q] = {}
        BY <2>6 DEF DropSource, LockedFor
      <4> QED BY <3>1, <4>1 DEF In
    <3>4. target[r] # source[r]
      BY <3>1 DEF TargetsHeld
    <3>5. /\ moved'[r] = {}
          /\ \A q \in Edits \ {r} : moved'[q] = moved[q] /\ phase'[q] = phase[q]
                 /\ target'[q] = target[q] /\ source'[q] = source[q]
      BY <3>1, Ends
    <3>6. RowsHeld'
      BY <3>2, <3>3, <3>5
    <3>7. ASSUME NEW e \in Entries, home'[e] # Nowhere PROVE home'[e] \in volumes'
      <4>1. CASE e \in moved[r]
        BY <3>1, <3>4, <4>1
      <4>2. CASE e \notin moved[r]
        BY <3>1, <3>7, <4>2
      <4> QED BY <4>1, <4>2
    <3> QED BY <3>6, <3>7
  <2>7. CASE Fails(r)
    <3>1. /\ batch[r] \in SUBSET Entries /\ End(r, batch[r])
          /\ UNCHANGED <<volumes, home>>
      BY <2>7 DEF Fails, rows
    <3> QED BY <3>1, Ends
  <2> QED BY <1>3, <2>1, <2>2, <2>3, <2>4, <2>5, <2>6, <2>7 DEF LocalStep
<1>4. CASE UNCHANGED localVars
  BY <1>4 DEF localVars, request, rows
<1> QED BY <1>1, <1>2, <1>3, <1>4, LocalSteps

-----------------------------------------------------------------------------
(* What a request relies on after it looked *)

\* A request that relies on what it saw keeps what it holds, until it ends.
LEMMA Keeps ==
    ASSUME LocalTypeOK, TargetsHeld, [LocalNext]_localVars, NEW q \in Edits,
           phase[q] \in {"attach", "moved"}, phase'[q] # "idle"
    PROVE  /\ phase'[q] = phase[q] /\ target'[q] = target[q] /\ source'[q] = source[q]
           /\ batch'[q] = batch[q] /\ moved'[q] = moved[q]
           /\ \A e \in batch[q] : number'[e] = number[e]
<1> USE DEF LocalTypeOK
<1>1. CASE CreateVolume
  BY <1>1 DEF CreateVolume, request, TargetsHeld
<1>2. ASSUME NEW e \in Entries, Renumber(e)
      PROVE  UNCHANGED request /\ \A o \in batch[q] : number'[o] = number[o]
  BY <1>2 DEF Renumber, TargetsHeld
<1>3. ASSUME NEW r \in Edits, LocalStep(r)
      PROVE  /\ phase'[q] = phase[q] /\ target'[q] = target[q] /\ source'[q] = source[q]
             /\ batch'[q] = batch[q] /\ moved'[q] = moved[q]
             /\ \A e \in batch[q] : number'[e] = number[e]
  <2>1. CASE Opening(r)
    BY <2>1 DEF Opening, OpenForm, TargetsHeld
  <2>2. CASE CheckNumbers(r)
    <3>1. r # q
      BY <2>2 DEF CheckNumbers
    <3>2. CASE Conflict(r)
      BY <2>2, <3>1, <3>2, Ends DEF CheckNumbers, rows
    <3>3. CASE ~Conflict(r)
      BY <2>2, <3>1, <3>3 DEF CheckNumbers, rows
    <3> QED BY <3>2, <3>3
  <2>3. CASE SaveEntries(r)
    <3>1. PICK made \in SUBSET batch[r] \ {{}} : End(r, batch[r] \ made) /\ UNCHANGED number
      BY <2>3 DEF SaveEntries
    <3>2. batch[r] \ made \in SUBSET Entries
      OBVIOUS
    <3> QED BY <3>1, <3>2, Ends
  <2>4. CASE OpenMerge(r)
    BY <2>4 DEF OpenMerge, rows
  <2>5. CASE Move(r)
    BY <2>5 DEF Move, rows
  <2>6. CASE DropSource(r)
    BY <2>6, Ends DEF DropSource
  <2>7. CASE Fails(r)
    BY <2>7, Ends DEF Fails, rows
  <2> QED BY <1>3, <2>1, <2>2, <2>3, <2>4, <2>5, <2>6, <2>7 DEF LocalStep
<1>4. CASE UNCHANGED localVars
  BY <1>4 DEF localVars, request, rows
<1> QED BY <1>1, <1>2, <1>3, <1>4, LocalSteps DEF request

\* What comes into the volume it relies on, or is renumbered there, goes into its
\* history.
LEMMA Noticed ==
    ASSUME LocalTypeOK, TargetsHeld, RowsHeld, [LocalNext]_localVars, NEW q \in Edits,
           phase[q] \in {"attach", "moved"}, phase'[q] # "idle"
    PROVE  /\ newer[q] \subseteq newer'[q]
           /\ \A e \in Entries :
                 home'[e] = Watched(q) /\ e \notin newer'[q] =>
                     home[e] = home'[e] /\ number'[e] = number[e]
<1> USE DEF LocalTypeOK
<1>0. Watched(q) \in LocalIds /\ Watched(q) \notin unborn
  BY LocalAssumption DEF Watched, TargetsHeld
<1> DEFINE Seen == /\ newer[q] \subseteq newer'[q]
                   /\ \A e \in Entries :
                         home'[e] = Watched(q) /\ e \notin newer'[q] =>
                             home[e] = home'[e] /\ number'[e] = number[e]
<1>1. CASE CreateVolume
  BY <1>0, <1>1 DEF CreateVolume
<1>2. ASSUME NEW o \in Entries, Renumber(o) PROVE Seen
  BY <1>2, RenumberArrivals DEF Renumber
<1>3. ASSUME NEW r \in Edits, LocalStep(r) PROVE Seen
  <2>1. CASE Opening(r)
    BY <1>0, <2>1, LocalAssumption DEF Opening, OpenForm, TargetsHeld
  <2>2. CASE CheckNumbers(r)
    BY <2>2 DEF CheckNumbers, rows
  <2>3. CASE SaveEntries(r)
    <3>1. PICK made \in SUBSET batch[r] \ {{}} :
            /\ home' = [e \in Entries |-> IF e \in made THEN target[r] ELSE home[e]]
            /\ Arrive(r, made, target[r])
            /\ End(r, batch[r] \ made)
            /\ UNCHANGED number
      BY <2>3 DEF SaveEntries
    <3>2. target[r] \in LocalIds /\ made \in SUBSET Entries /\ batch[r] \ made \in SUBSET Entries
      BY <2>3 DEF SaveEntries
    <3>3. q # r
      BY <3>1, <3>2, Ends
    <3>4. newer[q] \subseteq newer'[q] /\ (Watched(q) = target[r] => made \subseteq newer'[q])
      <4> HIDE DEF LocalTypeOK
      <4>1. Arrive(r, made, target[r])
        BY <3>1
      <4> QED BY <3>2, <3>3, <4>1, Arrivals
    <3> QED BY <3>1, <3>4
  <2>4. CASE OpenMerge(r)
    BY <2>4 DEF OpenMerge, rows
  <2>5. CASE Move(r)
    BY <2>5 DEF Move, rows
  <2>6. CASE DropSource(r)
    <3>1. target[r] \in LocalIds /\ moved[r] \in SUBSET Entries
      BY <2>6 DEF DropSource, TargetsHeld
    <3>2. /\ End(r, {}) /\ Arrive(r, moved[r], target[r]) /\ UNCHANGED number
          /\ home' = [e \in Entries |-> IF e \in moved[r] THEN target[r]
                                        ELSE IF home[e] = source[r] THEN Nowhere ELSE home[e]]
      BY <2>6 DEF DropSource
    <3>3. q # r
      BY <3>2, Ends
    <3>4. newer[q] \subseteq newer'[q] /\ (Watched(q) = target[r] => moved[r] \subseteq newer'[q])
      <4> HIDE DEF LocalTypeOK
      <4>1. Arrive(r, moved[r], target[r])
        BY <3>2
      <4> QED BY <3>1, <3>3, <4>1, Arrivals
    <3> QED BY <1>0, <3>2, <3>4, LocalAssumption
  <2>7. CASE Fails(r)
    <3>1. q # r
      BY <2>7, Ends DEF Fails
    <3> QED BY <2>7, <3>1 DEF Fails, rows
  <2> QED BY <1>3, <2>1, <2>2, <2>3, <2>4, <2>5, <2>6, <2>7 DEF LocalStep
<1>4. CASE UNCHANGED localVars
  BY <1>4 DEF localVars, rows
<1> QED BY <1>1, <1>2, <1>3, <1>4, LocalSteps

LEMMA EmptiedStep ==
    ASSUME LocalTypeOK, TargetsHeld, RowsHeld, SourceEmptied, [LocalNext]_localVars
    PROVE  SourceEmptied'
<1> SUFFICES ASSUME NEW q \in Edits, phase'[q] = "moved", NEW e \in Entries, home'[e] = source'[q]
             PROVE  e \in moved'[q] \union newer'[q]
  BY DEF SourceEmptied, In
<1>1. CASE phase[q] = "moved"
  <2>1. source'[q] = source[q] /\ moved'[q] = moved[q]
    BY <1>1, Keeps
  <2>2. Watched(q) = source[q]
    BY <1>1 DEF Watched
  <2>3. newer[q] \subseteq newer'[q] /\ (e \notin newer'[q] => home[e] = home'[e])
    BY <1>1, <2>1, <2>2, Noticed
  <2> QED BY <1>1, <2>1, <2>3 DEF SourceEmptied, In
<1>2. CASE phase[q] # "moved"
  <2>1. ~UNCHANGED phase
    BY <1>2
  <2>2. PICK r \in Edits : LocalStep(r)
    BY <2>1, LocalSteps DEF CreateVolume, Renumber, localVars, request
  <2>3. Move(r) /\ r = q
    <3>1. ~Opening(r)
      BY <1>2 DEF Opening, OpenForm, LocalTypeOK
    <3>2. ~CheckNumbers(r)
      BY <1>2 DEF CheckNumbers, End, LocalTypeOK
    <3>3. ~SaveEntries(r)
      BY <1>2 DEF SaveEntries, End, LocalTypeOK
    <3>4. ~OpenMerge(r)
      BY <1>2 DEF OpenMerge, LocalTypeOK
    <3>5. ~DropSource(r) /\ ~Fails(r)
      BY <1>2 DEF DropSource, Fails, End, LocalTypeOK
    <3>6. Move(r)
      BY <2>2, <3>1, <3>2, <3>3, <3>4, <3>5 DEF LocalStep
    <3> QED BY <1>2, <3>6 DEF Move, LocalTypeOK
  <2> QED BY <2>3 DEF Move, rows, In, LocalTypeOK
<1> QED BY <1>1, <1>2

LEMMA ApartStep ==
    ASSUME LocalTypeOK, TargetsHeld, RowsHeld, NumbersApart, [LocalNext]_localVars
    PROVE  NumbersApart'
<1> SUFFICES ASSUME NEW q \in Edits, phase'[q] = "attach", NEW e \in batch'[q], NEW o \in Entries,
                    o \in (In(target[q])' \ newer'[q]) \union batch'[q],
                    In(target[q])' = {x \in Entries : home'[x] = target'[q]},
                    e # o, number'[e] # Nowhere
             PROVE  number'[e] # number'[o]
  <2>1. LocalTypeOK'
    BY LocalTypeStep
  <2> QED BY <2>1 DEF NumbersApart, In, LocalTypeOK
<1>1. CASE phase[q] = "attach"
  <2>1. /\ target'[q] = target[q] /\ batch'[q] = batch[q]
        /\ \A x \in batch[q] : number'[x] = number[x]
    BY <1>1, Keeps
  <2>2. Watched(q) = target[q]
    BY <1>1 DEF Watched
  <2>3. newer[q] \subseteq newer'[q]
    BY <1>1, Noticed
  <2>4. CASE o \in batch'[q]
    BY <1>1, <2>1, <2>4 DEF NumbersApart
  <2>5. CASE home'[o] = target[q] /\ o \notin newer'[q]
    <3>1. home[o] = target[q] /\ number'[o] = number[o]
      BY <1>1, <2>2, <2>5, Noticed
    <3>2. o \in In(target[q]) \ newer[q]
      BY <2>3, <2>5, <3>1 DEF In
    <3> QED BY <1>1, <2>1, <3>1, <3>2 DEF NumbersApart
  <2> QED BY <2>1, <2>4, <2>5
<1>2. CASE phase[q] # "attach"
  <2>1. PICK r \in Edits : LocalStep(r)
    BY <1>2, LocalSteps DEF CreateVolume, Renumber, localVars, request
  <2>2. CheckNumbers(r) /\ r = q /\ ~Conflict(q)
    <3>1. ~Opening(r)
      BY <1>2 DEF Opening, OpenForm, LocalTypeOK
    <3>2. ~SaveEntries(r)
      BY <1>2 DEF SaveEntries, End, LocalTypeOK
    <3>3. ~OpenMerge(r) /\ ~Move(r)
      BY <1>2 DEF OpenMerge, Move, LocalTypeOK
    <3>4. ~DropSource(r) /\ ~Fails(r)
      BY <1>2 DEF DropSource, Fails, End, LocalTypeOK
    <3>5. CheckNumbers(r)
      BY <2>1, <3>1, <3>2, <3>3, <3>4 DEF LocalStep
    <3> QED BY <1>2, <3>5 DEF CheckNumbers, End, LocalTypeOK
  <2>3. UNCHANGED <<target, batch, home, number>>
    BY <2>2 DEF CheckNumbers, rows
  <2>4. o \in In(target[q]) \union batch[q]
    BY <2>3 DEF In
  <2> QED BY <2>2, <2>3, <2>4 DEF Conflict
<1> QED BY <1>1, <1>2

-----------------------------------------------------------------------------
(* Theorems *)

\* LocalIInv is an inductive invariant.
THEOREM LocalInvariance == LocalSpec => []LocalIInv
<1>1. ASSUME LocalInit PROVE LocalIInv
  <2>1. LocalTypeOK
    BY <1>1 DEF LocalInit, LocalTypeOK
  <2>2. TargetsHeld
    BY <1>1, LocalAssumption DEF LocalInit, TargetsHeld
  <2>3. RowsHeld /\ SourceEmptied /\ HomesExist /\ NumbersApart
    BY <1>1 DEF LocalInit, RowsHeld, SourceEmptied, HomesExist, NumbersApart
  <2> QED BY <2>1, <2>2, <2>3 DEF LocalIInv
<1>2. LocalIInv /\ [LocalNext]_localVars => LocalIInv'
  BY LocalTypeStep, HeldStep, RowsStep, EmptiedStep, ApartStep DEF LocalIInv
<1> QED BY <1>1, <1>2, PTL DEF LocalSpec

\* The tables and what requests hold keep their types.
THEOREM LocalTypes == LocalSpec => []LocalTypeOK
<1>1. LocalIInv => LocalTypeOK
  BY DEF LocalIInv
<1> QED BY <1>1, LocalInvariance, PTL

\* attach_local_group: however attaches, edits and merges overlap, what it is about to
\* insert shares a number only with entries that came or changed since it looked.
THEOREM AttachedApart == LocalSpec => []NumbersApart
<1>1. LocalIInv => NumbersApart
  BY DEF LocalIInv
<1> QED BY <1>1, LocalInvariance, PTL

\* merge_local_volumes: the cascade of a merge takes only entries that came into the
\* source after its UPDATE, for any number of volumes, entries and requests.
THEOREM MergesKeep == LocalSpec => EntriesKept
<1>1. ASSUME LocalIInv, [LocalNext]_localVars, NEW e \in Entries, home[e] # Nowhere, home'[e] = Nowhere
      PROVE  \E r \in Edits : phase[r] = "moved" /\ e \in newer[r] /\ home[e] = source[r]
  <2> USE DEF LocalIInv, LocalTypeOK
  <2>0. ~CreateVolume
    BY <1>1 DEF CreateVolume, TargetsHeld
  <2>1. PICK r \in Edits : LocalStep(r)
    BY <1>1, <2>0, LocalSteps DEF Renumber, localVars, rows
  <2>2. DropSource(r)
    <3>1. ~Opening(r) /\ ~OpenMerge(r) /\ ~Move(r)
      BY <1>1 DEF Opening, OpenForm, OpenMerge, Move, rows
    <3>2. ~CheckNumbers(r) /\ ~Fails(r)
      BY <1>1 DEF CheckNumbers, Fails, rows
    <3>3. ~SaveEntries(r)
      BY <1>1, LocalAssumption DEF SaveEntries
    <3> QED BY <2>1, <3>1, <3>2, <3>3 DEF LocalStep
  <2>3. phase[r] = "moved" /\ e \notin moved[r] /\ home[e] = source[r]
    BY <1>1, <2>2 DEF DropSource, TargetsHeld
  <2>4. e \in newer[r]
    BY <1>1, <2>3 DEF SourceEmptied, In
  <2> QED BY <2>3, <2>4
<1>2. LocalIInv /\ [LocalNext]_localVars =>
         [\A e \in Entries :
             home[e] # Nowhere /\ home'[e] = Nowhere =>
                \E r \in Edits : phase[r] = "moved" /\ e \in newer[r] /\ home[e] = source[r]]_localVars
  BY <1>1
<1> QED BY <1>2, LocalInvariance, PTL DEF LocalSpec, EntriesKept

-----------------------------------------------------------------------------
(* The pacer: RateInv is inductive as it stands, and GateShut is inductive with it. *)

\* The constants are natural numbers.
LEMMA ConstantTypes ==
    /\ Interval \in Nat /\ Interval > 0
    /\ Tolerance \in Nat /\ MaxInlineWait \in Nat /\ KeyTTL \in Nat
    /\ MaxRetries \in Nat /\ Horizon \in Nat
    /\ \A s \in Penalties : s \in Nat /\ s > 0
    /\ \A s \in Starts : s \in Nat
    /\ Tolerance + Interval <= KeyTTL
  BY PacerAssumption, LapseAssumption

\* A deadline counted from the present moves with it.
LEMMA LaterDeadline ==
    ASSUME NEW deadline \in Nat, NEW start \in Nat, NEW present \in Nat, NEW life \in Nat,
           deadline <= start + life, start <= present
    PROVE  deadline <= present + life
  OBVIOUS

\* The TAT a caller reads is the present, or the gate while its key lives.
LEMMA TatFacts ==
    ASSUME PacerTypeOK
    PROVE  /\ Tat \in Nat
           /\ now <= Tat
           /\ Live => gate <= Tat
           /\ Tat = now \/ (Live /\ Tat = gate)
  BY DEF PacerTypeOK, Tat, Live, Later

-----------------------------------------------------------------------------
(* Types *)

\* A GET keeps what a caller knows well typed.
LEMMA GetType ==
    ASSUME PacerTypeOK, NEW c \in Callers, NEW tat \in Nat, Get(c, tat)
    PROVE  /\ looked' \in [Callers -> Nat]
           /\ next' \in [Callers -> Nat]
           /\ missed' \in [Callers -> Nat]
           /\ blind' \subseteq Callers
  BY DEF PacerTypeOK, Get

\* A SET keeps the gate and the counts well typed.
LEMMA SetType ==
    ASSUME PacerTypeOK, NEW c \in Callers, NEW counted \in Nat, Set(c, counted)
    PROVE  /\ gate' \in Nat
           /\ expires' \in Nat
           /\ granted' \in Nat
           /\ lost' \in Nat
           /\ missed' \in [Callers -> Nat]
           /\ spoiled' \in BOOLEAN
<1>1. now \in Nat /\ KeyTTL \in Nat
  BY ConstantTypes DEF PacerTypeOK
<1>2. missed' \in [Callers -> Nat]
  BY DEF PacerTypeOK, Set
<1>3. spoiled' \in BOOLEAN
  BY DEF PacerTypeOK, Set
<1> QED BY <1>1, <1>2, <1>3 DEF PacerTypeOK, Set

\* Every step keeps the types.
LEMMA PacerTypeStep == PacerTypeOK /\ [PacerNext]_pacerVars => PacerTypeOK'
<1> SUFFICES ASSUME PacerTypeOK, [PacerNext]_pacerVars PROVE PacerTypeOK'
  OBVIOUS
<1> USE ConstantTypes
<1>1. CASE Tick
  BY <1>1 DEF Tick, PacerTypeOK, callerVars, windowVars, coolVars
<1>2. ASSUME NEW c \in Callers, Begin(c) PROVE PacerTypeOK'
  BY <1>2 DEF Begin, PacerTypeOK, windowVars, coolVars
<1>3. ASSUME NEW c \in Callers, Look(c) PROVE PacerTypeOK'
  <2>1. Tat + Interval \in Nat
    BY TatFacts
  <2>2. Get(c, Tat + Interval)
    BY <1>3 DEF Look
  <2>3. /\ looked' \in [Callers -> Nat]
        /\ next' \in [Callers -> Nat]
        /\ missed' \in [Callers -> Nat]
        /\ blind' \subseteq Callers
    BY <2>1, <2>2, GetType
  <2>4. wake' \in [Callers -> Nat]
    <3>1. CASE wake' = wake
      BY <3>1 DEF PacerTypeOK
    <3>2. CASE Tat > now + Tolerance /\ wake' = [wake EXCEPT ![c] = Tat - Tolerance]
      <4>1. Tat - Tolerance \in Nat
        BY <3>2, TatFacts DEF PacerTypeOK
      <4> QED BY <3>2, <4>1 DEF PacerTypeOK
    <3> QED BY <1>3, <3>1, <3>2 DEF Look
  <2>5. at' \in [Callers -> {"idle", "acquire", "asleep", "admit", "calling", "penalize"}]
    BY <1>3 DEF Look, PacerTypeOK
  <2> QED BY <1>3, <2>3, <2>4, <2>5 DEF Look, PacerTypeOK
<1>4. ASSUME NEW c \in Callers, Admit(c) PROVE PacerTypeOK'
  <2>1. PICK counted \in Nat : Set(c, counted)
    BY <1>4 DEF Admit
  <2>2. /\ gate' \in Nat /\ expires' \in Nat /\ granted' \in Nat /\ lost' \in Nat
        /\ missed' \in [Callers -> Nat] /\ spoiled' \in BOOLEAN
    BY <2>1, SetType
  <2> QED BY <1>4, <2>2 DEF Admit, PacerTypeOK
<1>5. ASSUME NEW c \in Callers, Answer(c) \/ Die(c) PROVE PacerTypeOK'
  BY <1>5 DEF Answer, Die, PacerTypeOK, windowVars, coolVars
<1>6. ASSUME NEW c \in Callers, Retry(c) PROVE PacerTypeOK'
  <2>1. attempt' \in [Callers -> 0..MaxRetries]
    BY <1>6 DEF Retry, PacerTypeOK
  <2> QED BY <1>6, <2>1 DEF Retry, PacerTypeOK, windowVars, coolVars
<1>7. ASSUME NEW c \in Callers, Limited(c) PROVE PacerTypeOK'
  <2>1. PICK s \in Penalties : penalty' = [penalty EXCEPT ![c] = s] /\ Get(c, Extended(s))
    BY <1>7 DEF Limited
  <2>2. Extended(s) \in Nat
    BY TatFacts DEF Extended, Later, PacerTypeOK
  <2>3. /\ looked' \in [Callers -> Nat]
        /\ next' \in [Callers -> Nat]
        /\ missed' \in [Callers -> Nat]
        /\ blind' \subseteq Callers
    BY <2>1, <2>2, GetType
  <2>4. penalty' \in [Callers -> Penalties \union {0}]
    BY <2>1 DEF PacerTypeOK
  <2> QED BY <1>7, <2>3, <2>4 DEF Limited, PacerTypeOK
<1>8. ASSUME NEW c \in Callers, Penalize(c) PROVE PacerTypeOK'
  <2>1. /\ gate' \in Nat /\ expires' \in Nat /\ granted' \in Nat /\ lost' \in Nat
        /\ missed' \in [Callers -> Nat] /\ spoiled' \in BOOLEAN
    BY <1>8, SetType DEF Penalize
  <2>2. cool' \in Nat
    BY <1>8 DEF Penalize, Later, PacerTypeOK
  <2> QED BY <1>8, <2>1, <2>2 DEF Penalize, PacerTypeOK
<1>9. CASE UNCHANGED pacerVars
  BY <1>9 DEF pacerVars, callerVars, windowVars, coolVars, PacerTypeOK
<1> QED BY <1>1, <1>2, <1>3, <1>4, <1>5, <1>6, <1>7, <1>8, <1>9 DEF PacerNext, Step

-----------------------------------------------------------------------------
(* The bound on the rate *)

\* What NextCounts and WaitsBounded say of one caller.
CallerCounts(c) == Pending(c) =>
    /\ looked[c] <= now
    /\ granted > missed[c] + lost => from + granted <= next[c] + missed[c] + lost
    /\ at[c] = "admit" =>
        /\ looked[c] + Interval <= next[c]
        /\ next[c] <= looked[c] + Tolerance + Interval
        /\ granted > missed[c] + lost =>
                from + granted + Interval <= next[c] + missed[c] + lost
    /\ \E s \in Penalties \union {Interval} : next[c] <= now + s + Tolerance

\* The bound, caller by caller.
LEMMA RateByCaller ==
    RateInv <=> PacerTypeOK /\ GateCounts /\ WaitBounded /\ \A c \in Callers : CallerCounts(c)
  BY DEF RateInv, NextCounts, WaitsBounded, CallerCounts

\* Time passing, and steps that neither touch the gate nor read it, keep the bound:
\* all its parts are upper bounds on times gone by.
LEMMA QuietRate ==
    ASSUME RateInv, PacerTypeOK', now' \in {now, now + 1},
           UNCHANGED <<gate, expires, from, windowVars>>,
           \A c \in Callers : Pending(c)' =>
                Pending(c) /\ at'[c] = at[c] /\ looked'[c] = looked[c] /\ next'[c] = next[c]
    PROVE  RateInv'
<1> USE ConstantTypes DEF PacerTypeOK
<1>1. GateCounts'
  <2>1. expires' <= now' + KeyTTL
    <3>1. now \in Nat /\ expires \in Nat /\ expires <= now + KeyTTL /\ expires' = expires
      BY DEF RateInv, GateCounts
    <3>2. now <= now' /\ now' \in Nat
      BY <3>1
    <3>3. KeyTTL \in Nat
      OBVIOUS
    <3> QED BY <3>1, <3>2, <3>3, LaterDeadline
  <2>2. UNCHANGED <<gate, expires, from, granted, lost>>
    BY DEF windowVars
  <2> QED BY <2>1, <2>2 DEF RateInv, GateCounts
<1>2. NextCounts'
  <2> SUFFICES ASSUME NEW c \in Callers, Pending(c)'
               PROVE  /\ looked'[c] <= now'
                      /\ granted' > missed'[c] + lost' =>
                            from' + granted' <= next'[c] + missed'[c] + lost'
                      /\ at'[c] = "admit" =>
                          /\ looked'[c] + Interval <= next'[c]
                          /\ next'[c] <= looked'[c] + Tolerance + Interval
                          /\ granted' > missed'[c] + lost' =>
                                from' + granted' + Interval <= next'[c] + missed'[c] + lost'
    BY DEF NextCounts
  <2> QED BY DEF RateInv, NextCounts, windowVars
<1>3. WaitsBounded'
  <2>1. WaitBounded'
    <3> SUFFICES ASSUME Live'
                 PROVE  \E s \in Penalties \union {Interval} : gate' <= now' + s + Tolerance
      BY DEF WaitBounded
    <3>1. Live
      BY DEF RateInv, Live
    <3>2. PICK s \in Penalties \union {Interval} : gate <= now + s + Tolerance
      BY <3>1 DEF RateInv, WaitsBounded, WaitBounded
    <3>3. gate' <= now' + s + Tolerance
      BY <3>2 DEF RateInv
    <3> QED BY <3>3
  <2>2. ASSUME NEW c \in Callers, Pending(c)'
        PROVE  \E s \in Penalties \union {Interval} : next'[c] <= now' + s + Tolerance
    <3>1. PICK s \in Penalties \union {Interval} : next[c] <= now + s + Tolerance
      BY <2>2 DEF RateInv, WaitsBounded
    <3>2. next'[c] <= now' + s + Tolerance
      BY <2>2, <3>1 DEF RateInv
    <3> QED BY <3>2
  <2> QED BY <2>1, <2>2 DEF WaitsBounded
<1> QED BY <1>1, <1>2, <1>3 DEF RateInv

\* A reader of the gate learns a TAT that accounts for every slot granted and not
\* overwritten so far, even when the key lapsed.
LEMMA TatCounts ==
    ASSUME RateInv
    PROVE  /\ granted > lost => from + granted <= Tat + lost
           /\ \E s \in Penalties \union {Interval} : Tat <= now + s + Tolerance
<1> USE ConstantTypes, TatFacts DEF PacerTypeOK
<1>1. CASE Live
  BY <1>1 DEF RateInv, GateCounts, WaitsBounded, WaitBounded, Tat, Later
<1>2. CASE ~Live
  <2>1. Tat = now /\ expires <= now
    BY <1>2 DEF RateInv, Live
  <2> QED BY <2>1 DEF RateInv, GateCounts
<1> QED BY <1>1, <1>2

\* A GET keeps the bound when the TAT to be set is no less than the one read and
\* not too far ahead.
LEMMA GetRate ==
    ASSUME RateInv, PacerTypeOK', NEW c \in Callers, NEW tat \in Nat, Get(c, tat),
           UNCHANGED <<now, gate, expires, from, granted, lost>>,
           Tat <= tat,
           \E s \in Penalties \union {Interval} : tat <= now + s + Tolerance \/ ~Pending(c)',
           at'[c] = "admit" => tat = Tat + Interval /\ Tat <= now + Tolerance,
           \A d \in Callers \ {c} : at'[d] = at[d]
    PROVE  RateInv'
<1> USE ConstantTypes, TatFacts DEF PacerTypeOK
<1>1. GateCounts' /\ WaitBounded'
  BY DEF RateInv, GateCounts, WaitsBounded, WaitBounded, Live
<1>2. /\ looked'[c] = now /\ next'[c] = tat /\ missed'[c] = 0
      /\ \A d \in Callers \ {c} :
            looked'[d] = looked[d] /\ next'[d] = next[d] /\ missed'[d] = missed[d]
  BY DEF RateInv, Get
<1>3. CallerCounts(c)'
  <2>1. PacerTypeOK /\ (granted > lost => from + granted <= Tat + lost)
    BY TatCounts DEF RateInv
  <2> SUFFICES ASSUME Pending(c)'
               PROVE  /\ now <= now
                      /\ granted > 0 + lost => from + granted <= tat + 0 + lost
                      /\ at'[c] = "admit" =>
                          /\ now + Interval <= tat
                          /\ tat <= now + Tolerance + Interval
                          /\ granted > 0 + lost => from + granted + Interval <= tat + 0 + lost
                      /\ \E s \in Penalties \union {Interval} : tat <= now + s + Tolerance
    BY <1>2 DEF CallerCounts
  <2> QED BY <2>1
<1>4. ASSUME NEW d \in Callers \ {c} PROVE CallerCounts(d)'
  <2>1. CallerCounts(d)
    BY RateByCaller
  <2> QED BY <1>2, <2>1 DEF CallerCounts, Pending
<1> QED BY <1>1, <1>3, <1>4, RateByCaller DEF RateInv, NextCounts, WaitsBounded, CallerCounts

\* A SET keeps the bound: what others were granted since the GET, and is now
\* overwritten, is counted as lost.
LEMMA SetRate ==
    ASSUME RateInv, PacerTypeOK', NEW c \in Callers, Pending(c), NEW counted \in {0, Interval},
           Set(c, counted), UNCHANGED <<now, from, looked, next>>,
           counted = Interval => at[c] = "admit" /\ from <= looked[c],
           ~Pending(c)', \A d \in Callers \ {c} : at'[d] = at[d]
    PROVE  RateInv'
<1> USE ConstantTypes DEF PacerTypeOK
<1>1. /\ gate' = next[c] /\ expires' = now + KeyTTL
      /\ granted' = granted + counted /\ lost' = lost + missed[c]
      /\ \A d \in Callers \ {c} : missed'[d] = missed[d] + counted
  BY DEF Set, RateInv
<1>2. CallerCounts(c)
  BY RateByCaller
<1>3. granted' > lost' => from + granted' <= gate' + lost'
  <2>1. CASE counted = 0
    BY <1>1, <1>2, <2>1 DEF CallerCounts, RateInv
  <2>2. CASE counted = Interval
    BY <1>1, <1>2, <2>2 DEF CallerCounts, RateInv
  <2> QED BY <2>1, <2>2
<1>4. granted' > lost' =>
        from + granted' + KeyTTL <= expires' + Tolerance + Interval + lost'
  <2>1. CASE counted = 0
    <3> SUFFICES ASSUME granted' > lost'
                 PROVE  from + granted + KeyTTL <= now + KeyTTL + Tolerance + Interval + lost + missed[c]
      BY <1>1, <2>1 DEF RateInv
    <3>1. granted > lost /\ from + granted + KeyTTL <= expires + Tolerance + Interval + lost
      BY <1>1, <2>1 DEF RateInv, GateCounts
    <3>2. expires <= now + KeyTTL
      BY DEF RateInv, GateCounts
    <3> QED BY <3>1, <3>2 DEF RateInv
  <2>2. CASE counted = Interval
    BY <1>1, <1>2, <1>3, <2>2 DEF CallerCounts, RateInv
  <2> QED BY <2>1, <2>2
<1>5. GateCounts'
  BY <1>1, <1>3, <1>4 DEF GateCounts, RateInv
<1>6. WaitBounded'
  <2>1. PICK s \in Penalties \union {Interval} : next[c] <= now + s + Tolerance
    BY <1>2 DEF CallerCounts
  <2> QED BY <1>1, <2>1 DEF WaitBounded
<1>7. ASSUME NEW d \in Callers \ {c} PROVE CallerCounts(d)'
  <2>1. CallerCounts(d)
    BY RateByCaller
  <2> SUFFICES ASSUME Pending(d)
               PROVE  /\ looked[d] <= now
                      /\ granted' > missed'[d] + lost' =>
                            from + granted' <= next[d] + missed'[d] + lost'
                      /\ at[d] = "admit" =>
                          /\ looked[d] + Interval <= next[d]
                          /\ next[d] <= looked[d] + Tolerance + Interval
                          /\ granted' > missed'[d] + lost' =>
                                from + granted' + Interval <= next[d] + missed'[d] + lost'
                      /\ \E s \in Penalties \union {Interval} : next[d] <= now + s + Tolerance
    BY DEF CallerCounts, Pending
  <2>2. missed'[d] = missed[d] + counted
    BY <1>1
  <2> QED BY <1>1, <2>1, <2>2 DEF CallerCounts, RateInv
<1>8. CallerCounts(c)'
  BY DEF CallerCounts
<1> QED BY <1>5, <1>6, <1>7, <1>8, RateByCaller DEF RateInv, NextCounts, WaitsBounded, CallerCounts

\* Every step keeps the bound on the rate.
LEMMA RateStep == RateInv /\ [PacerNext]_pacerVars => RateInv'
<1> SUFFICES ASSUME RateInv, [PacerNext]_pacerVars PROVE RateInv'
  OBVIOUS
<1>1. PacerTypeOK /\ PacerTypeOK'
  BY PacerTypeStep DEF RateInv
<1>2. CASE Tick
  BY <1>1, <1>2, QuietRate DEF Tick, callerVars, Pending
<1>3. ASSUME NEW c \in Callers, Begin(c) \/ Answer(c) \/ Retry(c) \/ Die(c) PROVE RateInv'
  <2>1. /\ UNCHANGED <<now, gate, expires, from, looked, next, windowVars>>
        /\ \A d \in Callers : Pending(d)' => Pending(d) /\ at'[d] = at[d]
    BY <1>1, <1>3 DEF Begin, Answer, Retry, Die, Pending, PacerTypeOK
  <2> QED BY <1>1, <2>1, QuietRate
<1>4. ASSUME NEW c \in Callers, Look(c) PROVE RateInv'
  <2>1. /\ Get(c, Tat + Interval)
        /\ UNCHANGED <<now, gate, expires, from, granted, lost>>
        /\ Pending(c)' => Tat <= now + Tolerance
        /\ \A d \in Callers \ {c} : at'[d] = at[d]
    BY <1>1, <1>4 DEF Look, Pending, PacerTypeOK
  <2>2. Tat \in Nat /\ Tat + Interval \in Nat /\ Tat <= Tat + Interval /\ now \in Nat
    BY <1>1, TatFacts, ConstantTypes DEF PacerTypeOK
  <2>3. Pending(c)' => Tat + Interval <= now + Interval + Tolerance
    BY <2>1, <2>2, ConstantTypes
  <2>4. \E s \in Penalties \union {Interval} :
            Tat + Interval <= now + s + Tolerance \/ ~Pending(c)'
    BY <2>3
  <2>5. at'[c] = "admit" => Tat <= now + Tolerance
    BY <2>1 DEF Pending
  <2> QED BY <1>1, <2>1, <2>2, <2>4, <2>5, GetRate
<1>5. ASSUME NEW c \in Callers, Limited(c) PROVE RateInv'
  <2>1. PICK s \in Penalties : Get(c, Extended(s))
    BY <1>5 DEF Limited
  <2>2. /\ UNCHANGED <<now, gate, expires, from, granted, lost>>
        /\ at'[c] # "admit"
        /\ \A d \in Callers \ {c} : at'[d] = at[d]
    BY <1>1, <1>5 DEF Limited, PacerTypeOK
  <2>3. Tat \in Nat /\ now \in Nat /\ s \in Nat
    BY <1>1, TatFacts, ConstantTypes DEF PacerTypeOK
  <2>4. Extended(s) \in Nat /\ Tat <= Extended(s)
    BY <2>3, ConstantTypes DEF Extended, Later
  <2>5. PICK t \in Penalties \union {Interval} : Tat <= now + t + Tolerance
    BY TatCounts
  <2>6. Extended(s) <= now + s + Tolerance \/ Extended(s) <= now + t + Tolerance
    BY <2>3, <2>5, ConstantTypes DEF Extended, Later
  <2>7. \E u \in Penalties \union {Interval} :
            Extended(s) <= now + u + Tolerance \/ ~Pending(c)'
    BY <2>6
  <2> QED BY <1>1, <2>1, <2>2, <2>4, <2>7, GetRate
<1>6. ASSUME NEW c \in Callers, Admit(c) PROVE RateInv'
  <2>1. PICK counted \in {0, Interval} :
          Set(c, counted) /\ (counted = Interval => from <= looked[c])
    <3>1. CASE looked[c] >= from
      BY <1>1, <1>6, <3>1, ConstantTypes DEF Admit, PacerTypeOK
    <3>2. CASE ~(looked[c] >= from)
      BY <1>6, <3>2, ConstantTypes DEF Admit
    <3> QED BY <3>1, <3>2
  <2>2. /\ UNCHANGED <<now, from, looked, next>>
        /\ at[c] = "admit" /\ Pending(c) /\ ~Pending(c)'
        /\ \A d \in Callers \ {c} : at'[d] = at[d]
    BY <1>1, <1>6 DEF Admit, Pending, PacerTypeOK
  <2> QED BY <1>1, <2>1, <2>2, SetRate
<1>7. ASSUME NEW c \in Callers, Penalize(c) PROVE RateInv'
  <2>1. /\ UNCHANGED <<now, from, looked, next>>
        /\ Set(c, 0) /\ Pending(c) /\ ~Pending(c)'
        /\ \A d \in Callers \ {c} : at'[d] = at[d]
    BY <1>1, <1>7 DEF Penalize, Pending, PacerTypeOK
  <2>2. 0 # Interval
    BY ConstantTypes
  <2> QED BY <1>1, <2>1, <2>2, SetRate
<1>8. CASE UNCHANGED pacerVars
  BY <1>1, <1>8, QuietRate DEF pacerVars, callerVars, Pending
<1> QED BY <1>2, <1>3, <1>4, <1>5, <1>6, <1>7, <1>8 DEF PacerNext, Step

\* Before any request the gate is open, unset, and nothing was granted.
LEMMA RateInit == PacerInit => RateInv
<1> SUFFICES ASSUME PacerInit PROVE RateInv
  OBVIOUS
<1> USE ConstantTypes
<1>1. PacerTypeOK
  <2>1. /\ at \in [Callers -> {"idle", "acquire", "asleep", "admit", "calling", "penalize"}]
        /\ attempt \in [Callers -> 0..MaxRetries]
        /\ penalty \in [Callers -> Penalties \union {0}]
    BY DEF PacerInit
  <2>2. looked \in [Callers -> Nat] /\ next \in [Callers -> Nat]
        /\ wake \in [Callers -> Nat] /\ missed \in [Callers -> Nat]
    BY DEF PacerInit
  <2>3. /\ now \in 0..Horizon /\ gate \in Nat /\ expires \in Nat /\ from \in Starts
        /\ granted \in Nat /\ lost \in Nat /\ cool \in Nat
    BY DEF PacerInit
  <2>4. blind \subseteq Callers /\ spoiled \in BOOLEAN
    BY Zenon DEF PacerInit
  <2> QED BY <2>1, <2>2, <2>3, <2>4 DEF PacerTypeOK
<1>2. GateCounts
  BY DEF PacerInit, GateCounts
<1>3. ~Live /\ \A c \in Callers : ~Pending(c)
  BY DEF PacerInit, Live, Pending
<1> QED BY <1>1, <1>2, <1>3 DEF RateInv, NextCounts, WaitsBounded, WaitBounded

\* In every reachable state, for any number of processes racing on the gate.
THEOREM RateInvariance == PacerSpec => []RateInv
  BY RateInit, RateStep, PTL DEF PacerSpec

\* The gate, the callers and the counts keep their types.
THEOREM PacerTypes == PacerSpec => []PacerTypeOK
<1>1. RateInv => PacerTypeOK
  BY DEF RateInv
<1> QED BY RateInvariance, <1>1, PTL

\* The GCRA promise: in any window, the slots granted are at most the rate, the
\* burst, one more, and those overwritten between a GET and a SET.
THEOREM RateBounded == PacerSpec => []RateBound
<1>1. RateInv => RateBound
  <2> SUFFICES ASSUME RateInv, from <= now
               PROVE  granted <= (now - from) + Tolerance + Interval + lost
    BY DEF RateBound
  <2> USE ConstantTypes
  <2>1. /\ now \in Nat /\ from \in Nat /\ granted \in Nat /\ lost \in Nat /\ expires \in Nat
        /\ expires <= now + KeyTTL
        /\ granted > lost => from + granted + KeyTTL <= expires + Tolerance + Interval + lost
    BY DEF RateInv, PacerTypeOK, GateCounts
  <2> QED BY <2>1
<1> QED BY RateInvariance, <1>1, PTL

\* Rate limits met by many processes do not add up to longer waits.
THEOREM WaitsStayBounded == PacerSpec => []WaitBounded
<1>1. RateInv => WaitBounded
  BY DEF RateInv, WaitsBounded
<1> QED BY RateInvariance, <1>1, PTL

-----------------------------------------------------------------------------
(* The cool-down *)

\* What GateShut says of one caller.
CallerShut(c) ==
    /\ Pending(c) /\ ~spoiled /\ c \notin blind /\ looked[c] < cool =>
            at[c] = "penalize" /\ cool + Tolerance <= next[c]
    /\ at[c] = "penalize" =>
            /\ looked[c] + penalty[c] + Tolerance <= next[c]
            /\ penalty[c] \in Penalties

KeyShut == ~spoiled /\ now < cool => cool + Tolerance <= gate /\ cool <= expires

\* The cool-down, caller by caller.
LEMMA ShutByCaller == GateShut <=> KeyShut /\ \A c \in Callers : CallerShut(c)
  BY DEF GateShut, KeyShut, CallerShut

\* Steps that neither set nor read the gate leave it shut.
LEMMA QuietShut ==
    ASSUME PacerTypeOK, PacerTypeOK', GateShut, now' \in {now, now + 1},
           UNCHANGED <<gate, expires, coolVars>>,
           \A c \in Callers : Pending(c)' =>
                /\ Pending(c) /\ at'[c] = at[c] /\ looked'[c] = looked[c]
                /\ next'[c] = next[c] /\ penalty'[c] = penalty[c]
    PROVE  GateShut'
<1>1. UNCHANGED <<gate, expires, cool, blind, spoiled>>
  BY DEF coolVars
<1>2. KeyShut'
  <2>1. now' < cool => now < cool
    BY DEF PacerTypeOK
  <2> QED BY <1>1, <2>1, ShutByCaller DEF KeyShut
<1>3. ASSUME NEW c \in Callers PROVE CallerShut(c)'
  <2>1. CallerShut(c)
    BY ShutByCaller
  <2>2. at'[c] = "penalize" => Pending(c)'
    BY DEF Pending
  <2> QED BY <1>1, <2>1, <2>2 DEF CallerShut
<1> QED BY <1>2, <1>3, ShutByCaller DEF GateShut, KeyShut, CallerShut

\* While a cool-down runs, unless it was spoiled, whoever reads the gate finds the
\* key alive and the gate shut.
LEMMA ShutTat ==
    ASSUME PacerTypeOK, GateShut, ~spoiled, now < cool
    PROVE  cool + Tolerance <= Tat
<1>1. cool + Tolerance <= gate /\ cool <= expires
  BY ShutByCaller DEF KeyShut
<1>2. Live
  BY <1>1 DEF PacerTypeOK, Live
<1> QED BY <1>1, <1>2, TatFacts, ConstantTypes DEF PacerTypeOK

\* A GET during a cool-down finds the gate shut, so acquire takes no slot and
\* penalize keeps it shut.
LEMMA GetShut ==
    ASSUME PacerTypeOK, PacerTypeOK', GateShut, NEW c \in Callers, Look(c) \/ Limited(c)
    PROVE  GateShut'
<1> USE ConstantTypes, TatFacts
<1>1. UNCHANGED <<now, gate, expires, cool, spoiled>>
  BY DEF Look, Limited
<1>2. PICK tat \in Nat :
        /\ looked'[c] = now /\ next'[c] = tat
        /\ c \notin blind' /\ \A d \in Callers \ {c} : d \in blind' <=> d \in blind
        /\ \A d \in Callers \ {c} : looked'[d] = looked[d] /\ next'[d] = next[d]
        /\ at'[c] = "admit" => Tat <= now + Tolerance
        /\ at'[c] = "penalize" =>
             /\ penalty'[c] \in Penalties
             /\ Tat <= tat /\ now + penalty'[c] + Tolerance <= tat
        /\ \A d \in Callers \ {c} : at'[d] = at[d] /\ penalty'[d] = penalty[d]
  <2>1. CASE Look(c)
    <3>1. Get(c, Tat + Interval) /\ Tat + Interval \in Nat
      BY <2>1 DEF Look
    <3>2. /\ at'[c] = "admit" => Tat <= now + Tolerance
          /\ at'[c] # "penalize"
          /\ \A d \in Callers \ {c} : at'[d] = at[d] /\ penalty'[d] = penalty[d]
      BY <2>1 DEF Look, PacerTypeOK
    <3> QED BY <3>1, <3>2 DEF Get, PacerTypeOK
  <2>2. CASE Limited(c)
    <3>1. PICK s \in Penalties :
            /\ penalty' = [penalty EXCEPT ![c] = s]
            /\ Get(c, Extended(s))
            /\ at' = [at EXCEPT ![c] = "penalize"]
      BY <2>2 DEF Limited
    <3>2. Extended(s) \in Nat /\ Tat <= Extended(s) /\ now + s + Tolerance <= Extended(s)
      BY DEF Extended, Later, PacerTypeOK
    <3>3. /\ at'[c] = "penalize" /\ penalty'[c] = s
          /\ \A d \in Callers \ {c} : at'[d] = at[d] /\ penalty'[d] = penalty[d]
      BY <3>1 DEF PacerTypeOK
    <3> QED BY <3>1, <3>2, <3>3 DEF Get, PacerTypeOK
  <2> QED BY <2>1, <2>2
<1>3. KeyShut'
  BY <1>1, ShutByCaller DEF KeyShut
<1>4. ASSUME NEW d \in Callers \ {c} PROVE CallerShut(d)'
  <2>1. CallerShut(d)
    BY ShutByCaller
  <2> QED BY <1>1, <1>2, <2>1 DEF CallerShut, Pending
<1>5. CallerShut(c)'
  <2>1. ~spoiled /\ now < cool => cool + Tolerance <= Tat
    BY ShutTat
  <2>2. now \in Nat /\ cool \in Nat
    BY DEF PacerTypeOK
  <2>3. ASSUME Pending(c)', ~spoiled, now < cool
        PROVE  at'[c] = "penalize" /\ cool + Tolerance <= tat
    <3>1. at'[c] # "admit"
      BY <1>2, <2>1, <2>2, <2>3
    <3>2. at'[c] = "penalize"
      BY <2>3, <3>1 DEF Pending
    <3> QED BY <1>2, <2>1, <2>2, <2>3, <3>2
  <2> QED BY <1>1, <1>2, <2>3 DEF CallerShut
<1> QED BY <1>3, <1>4, <1>5, ShutByCaller DEF GateShut, KeyShut, CallerShut

\* A slot taken during a cool-down by a caller that read the gate before spoils it.
LEMMA AdmitShut ==
    ASSUME RateInv, GateShut, NEW c \in Callers, Admit(c)
    PROVE  GateShut' /\ (now >= cool \/ spoiled')
<1>1. /\ UNCHANGED <<now, looked, next, penalty, cool, blind>>
      /\ spoiled' = (spoiled \/ c \in blind)
      /\ at[c] = "admit" /\ at' = [at EXCEPT ![c] = "calling"]
  BY DEF Admit, Set
<1>2. now \in Nat /\ cool \in Nat /\ looked[c] \in Nat /\ looked[c] <= now
  BY <1>1 DEF RateInv, PacerTypeOK, NextCounts, Pending
<1>3. CallerShut(c)
  BY ShutByCaller
<1>4. now >= cool \/ spoiled'
  <2>1. ASSUME ~spoiled, c \notin blind PROVE ~(looked[c] < cool)
    BY <1>1, <1>3, <2>1 DEF CallerShut, Pending
  <2>2. ~(looked[c] < cool) => now >= cool
    BY <1>2
  <2> QED BY <1>1, <2>1, <2>2
<1>5. KeyShut'
  BY <1>1, <1>2, <1>4 DEF KeyShut
<1>6. ASSUME NEW d \in Callers PROVE CallerShut(d)'
  <2>1. CallerShut(d)
    BY ShutByCaller
  <2>2. at'[d] = at[d] \/ (d = c /\ at'[d] = "calling")
    BY <1>1 DEF RateInv, PacerTypeOK
  <2> QED BY <1>1, <2>1, <2>2 DEF CallerShut, Pending
<1> QED BY <1>4, <1>5, <1>6, ShutByCaller DEF GateShut, KeyShut, CallerShut

\* A cool-down set by a caller that saw the last one is at least as long, and its
\* key lives until the later of the two is over.
LEMMA PenalizeShut ==
    ASSUME RateInv, GateShut, NEW c \in Callers, Penalize(c)
    PROVE  GateShut'
<1> USE ConstantTypes
<1>1. /\ UNCHANGED <<now, looked, next, penalty>>
      /\ spoiled' = (spoiled \/ c \in blind)
      /\ gate' = next[c] /\ expires' = now + KeyTTL
      /\ cool' = Later(cool, Sooner(looked[c] + penalty[c], now + KeyTTL))
      /\ blind' = {d \in Callers \ {c} : Pending(d)}
      /\ at[c] = "penalize" /\ at' = [at EXCEPT ![c] = "idle"]
  BY DEF Penalize, Set, Pending
<1>2. /\ now \in Nat /\ cool \in Nat /\ looked[c] \in Nat /\ penalty[c] \in Nat
      /\ next[c] \in Nat /\ expires \in Nat
      /\ looked[c] <= now /\ expires <= now + KeyTTL
  BY <1>1 DEF RateInv, PacerTypeOK, NextCounts, GateCounts, Pending
<1>3. CallerShut(c) /\ KeyShut
  BY ShutByCaller
<1>4. looked[c] + penalty[c] + Tolerance <= next[c]
  BY <1>1, <1>3 DEF CallerShut
<1>5. KeyShut'
  <2> SUFFICES ASSUME ~spoiled, c \notin blind, now < cool'
               PROVE  cool' + Tolerance <= next[c] /\ cool' <= now + KeyTTL
    BY <1>1 DEF KeyShut
  <2>1. CASE cool' = Sooner(looked[c] + penalty[c], now + KeyTTL)
    BY <1>2, <1>4, <2>1 DEF Sooner
  <2>2. CASE cool' = cool
    BY <1>1, <1>2, <1>3, <2>2 DEF CallerShut, KeyShut, Pending
  <2> QED BY <1>1, <2>1, <2>2 DEF Later
<1>6. ASSUME NEW d \in Callers PROVE CallerShut(d)'
  <2>1. CallerShut(d)
    BY ShutByCaller
  <2>2. CASE d = c
    BY <1>1, <2>2 DEF CallerShut, Pending, RateInv, PacerTypeOK
  <2>3. CASE d # c
    BY <1>1, <2>1, <2>3 DEF CallerShut, Pending, RateInv, PacerTypeOK
  <2> QED BY <2>2, <2>3
<1> QED BY <1>5, <1>6, ShutByCaller DEF GateShut, KeyShut, CallerShut

\* Every step keeps the cool-down.
LEMMA ShutStep == PacerIInv /\ [PacerNext]_pacerVars => PacerIInv'
<1> SUFFICES ASSUME PacerIInv, [PacerNext]_pacerVars PROVE PacerIInv'
  OBVIOUS
<1>1. RateInv /\ RateInv' /\ PacerTypeOK /\ PacerTypeOK' /\ GateShut
  BY RateStep DEF PacerIInv, RateInv
<1>2. CASE Tick
  BY <1>1, <1>2, QuietShut DEF Tick, callerVars, Pending, PacerIInv
<1>3. ASSUME NEW c \in Callers, Begin(c) \/ Answer(c) \/ Retry(c) \/ Die(c) PROVE PacerIInv'
  <2>1. /\ UNCHANGED <<now, gate, expires, looked, next, penalty, coolVars>>
        /\ \A d \in Callers : Pending(d)' => Pending(d) /\ at'[d] = at[d]
    BY <1>1, <1>3 DEF Begin, Answer, Retry, Die, Pending, PacerTypeOK
  <2> QED BY <1>1, <2>1, QuietShut DEF PacerIInv
<1>4. ASSUME NEW c \in Callers, Look(c) \/ Limited(c) PROVE PacerIInv'
  BY <1>1, <1>4, GetShut DEF PacerIInv
<1>5. ASSUME NEW c \in Callers, Admit(c) PROVE PacerIInv'
  BY <1>1, <1>5, AdmitShut DEF PacerIInv
<1>6. ASSUME NEW c \in Callers, Penalize(c) PROVE PacerIInv'
  BY <1>1, <1>6, PenalizeShut DEF PacerIInv
<1>7. CASE UNCHANGED pacerVars
  BY <1>1, <1>7, QuietShut DEF pacerVars, callerVars, Pending, PacerIInv
<1> QED BY <1>2, <1>3, <1>4, <1>5, <1>6, <1>7 DEF PacerNext, Step

\* Before any request no cool-down was imposed.
LEMMA ShutInit == PacerInit => PacerIInv
<1> SUFFICES ASSUME PacerInit PROVE PacerIInv
  OBVIOUS
<1>1. KeyShut /\ \A c \in Callers : CallerShut(c)
  BY DEF PacerInit, KeyShut, CallerShut, Pending
<1> QED BY <1>1, RateInit, ShutByCaller DEF PacerIInv

\* The inductive invariant holds, whatever cool-downs ComicVine asks for: until it is
\* spoiled the gate stays shut for as much of a cool-down as its key can live.
THEOREM PacerInvariance == PacerSpec => []PacerIInv
<1>1. PacerIInv /\ [PacerNext]_pacerVars => PacerIInv'
  BY ShutStep
<1> QED BY <1>1, ShutInit, PTL DEF PacerSpec

\* Every slot granted before a cool-down is over, or its key can have lapsed, was taken
\* by a process that read the gate before it, or after such a one spoiled it.
THEOREM CooldownHolds == PacerSpec => CooldownKept
<1> DEFINE Kept == \A c \in Callers :
        at[c] = "admit" /\ at'[c] = "calling" => now >= cool \/ spoiled'
<1>1. PacerSpec => []PacerIInv
  BY PacerInvariance
<1>2. PacerIInv /\ [PacerNext]_pacerVars => [Kept]_pacerVars
  <2> SUFFICES ASSUME PacerIInv, [PacerNext]_pacerVars, NEW c \in Callers, at[c] = "admit", at'[c] = "calling"
               PROVE  now >= cool \/ spoiled'
    OBVIOUS
  <2>1. Admit(c)
    <3>1. PacerTypeOK
      BY DEF PacerIInv, RateInv
    <3>2. at' # at
      OBVIOUS
    <3>3. PICK d \in Callers : Step(d)
      BY <3>2 DEF PacerNext, Tick, pacerVars, callerVars
    <3>4. d = c
      BY <3>1, <3>3 DEF Step, Begin, Look, Admit, Answer, Retry, Limited, Penalize, Die, PacerTypeOK
    <3> QED BY <3>1, <3>3, <3>4
            DEF Step, Begin, Look, Answer, Retry, Limited, Penalize, Die, PacerTypeOK
  <2> QED BY <2>1, AdmitShut DEF PacerIInv
<1> QED BY <1>1, <1>2, PTL DEF PacerSpec, CooldownKept

(* ---- the error list ---- *)

\* What a visit has read is what is on disk unless the file was replaced meanwhile, and
\* a location is stored for an archive that opened.
VisitInformed ==
    (visit.pc \in {"record", "parse", "store"} /\ ~visit.moved) =>
        /\ visit.saw = broken
        /\ visit.pc # "record" => "archive_open" \notin visit.saw

ErrorsInv == FileErrorsTypes /\ UnreadableIsRead /\ VisitInformed

LEMMA ErrorsStart == FileErrorsInit => ErrorsInv
<1>1. ASSUME FileErrorsInit PROVE ErrorsInv
  <2>1. FileErrorsTypes
    <3>1. NoLook \in LookStates
      BY DEF NoLook, LookStates, Kinds
    <3>2. look \in [Covers \cup Operators -> LookStates]
      BY <1>1, <3>1 DEF FileErrorsInit
    <3>3. visit \in VisitStates
      BY <1>1 DEF FileErrorsInit, NoVisit, VisitStates
    <3>4. changes \in 0..MaxChanges
      BY <1>1, FileErrorsAssumption DEF FileErrorsInit
    <3> QED
      BY <1>1, <3>2, <3>3, <3>4, Zenon DEF FileErrorsInit, FileErrorsTypes
  <2> QED
    BY <1>1, <2>1 DEF FileErrorsInit, ErrorsInv, UnreadableIsRead, VisitInformed, NoVisit
<1> QED
  BY <1>1

\* The scanner at the path.
LEMMA VisitStep ==
    ASSUME ErrorsInv, ScanStep
    PROVE  ErrorsInv'
<1> USE DEF ErrorsInv, FileErrorsTypes, UnreadableIsRead, VisitInformed, VisitStates, NoVisit
<1>1. CASE SkipUnchanged
  BY <1>1 DEF SkipUnchanged
<1>2. CASE ReadArchive
  BY <1>2 DEF ReadArchive, Kinds
<1>3. CASE RecordUnreadable
  BY <1>3 DEF RecordUnreadable, Kinds
<1>4. CASE RecordUnparsable
  BY <1>4 DEF RecordUnparsable, Kinds
<1>5. CASE StoreLocation
  BY <1>5 DEF StoreLocation
<1>6. CASE ClearPath
  BY <1>6 DEF ClearPath
<1> QED
  BY <1>1, <1>2, <1>3, <1>4, <1>5, <1>6 DEF ScanStep

\* Requests touch only the list, and their own state.
LEMMA RequestTyped ==
    ASSUME FileErrorsTypes, NEW r \in Covers \cup Operators, NEW kind \in Kinds,
           \/ ExtractCover(r) \/ TryOpen(r, kind) \/ Dismiss(r, kind) \/ LookStep(r)
    PROVE  /\ look' \in [Covers \cup Operators -> LookStates]
           /\ listed' \subseteq Kinds
           /\ UNCHANGED <<broken, located, known, visit, changes>>
<1> USE DEF FileErrorsTypes, LookStates, NoLook
<1>1. look[r] \in LookStates
  OBVIOUS
<1>2. CASE ExtractCover(r)
  BY <1>2 DEF ExtractCover, Kinds
<1>3. CASE TryOpen(r, kind)
  BY <1>3 DEF TryOpen
<1>4. CASE Dismiss(r, kind)
  BY <1>4 DEF Dismiss
<1>5. CASE ClearCover(r)
  BY <1>5 DEF ClearCover, Kinds
<1>6. CASE RecordAgain(r)
  BY <1>1, <1>6 DEF RecordAgain, Kinds
<1>7. CASE OpenArchive(r)
  BY <1>1, <1>7 DEF OpenArchive
<1>8. CASE ClearOpened(r)
  BY <1>8 DEF ClearOpened, Kinds
<1> QED
  BY <1>2, <1>3, <1>4, <1>5, <1>6, <1>7, <1>8 DEF LookStep

LEMMA ErrorsStep ==
    ASSUME ErrorsInv, [FileErrorsNext]_fileErrorsVars
    PROVE  ErrorsInv'
<1>1. CASE UNCHANGED fileErrorsVars
  BY <1>1 DEF fileErrorsVars, ErrorsInv, FileErrorsTypes, UnreadableIsRead, VisitInformed
<1>2. ASSUME NEW kinds \in SUBSET Kinds, Replace(kinds) PROVE ErrorsInv'
  <2>1. FileErrorsTypes'
    <3>1. changes' \in 0..MaxChanges
      BY <1>2, FileErrorsAssumption DEF Replace, ErrorsInv, FileErrorsTypes
    <3>2. visit' \in VisitStates
      BY <1>2 DEF Replace, ErrorsInv, FileErrorsTypes, VisitStates
    <3> QED
      BY <1>2, <3>1, <3>2 DEF Replace, ErrorsInv, FileErrorsTypes
  <2>2. UnreadableIsRead' /\ VisitInformed'
    BY <1>2 DEF Replace, ErrorsInv, FileErrorsTypes, VisitStates, UnreadableIsRead, VisitInformed
  <2> QED
    BY <2>1, <2>2 DEF ErrorsInv
<1>3. CASE ScanStep
  BY <1>3, VisitStep
<1>4. ASSUME NEW r \in Covers \cup Operators, NEW kind \in Kinds,
             ExtractCover(r) \/ TryOpen(r, kind) \/ Dismiss(r, kind) \/ LookStep(r)
      PROVE  ErrorsInv'
  BY <1>4, RequestTyped DEF ErrorsInv, FileErrorsTypes, UnreadableIsRead, VisitInformed
<1>5. "archive_open" \in Kinds
  BY DEF Kinds
<1> QED
  BY <1>1, <1>2, <1>3, <1>4, <1>5 DEF FileErrorsNext

\* The error list, the visit and the requests keep their types.
THEOREM FileErrorsTyped == FileErrorsSpec => []FileErrorsTypes
<1>1. ErrorsInv => FileErrorsTypes
  BY DEF ErrorsInv
<1> QED
  BY <1>1, ErrorsStart, ErrorsStep, PTL DEF FileErrorsSpec

\* The safety half of UnreadableIsListed, for any requests and replacements: whoever
\* dismisses, retries or replaces the file while the scanner is at it, an archive that
\* does not open is never taken for one that is known, so every scan reads it again.
THEOREM UnreadableReadAgain == FileErrorsSpec => []UnreadableIsRead
<1>1. ErrorsInv => UnreadableIsRead
  BY DEF ErrorsInv
<1> QED
  BY <1>1, ErrorsStart, ErrorsStep, PTL DEF FileErrorsSpec

=============================================================================
