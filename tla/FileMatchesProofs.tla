-------------------------- MODULE FileMatchesProofs --------------------------
(***************************************************************************)
(* Theorems about FileMatches, for any number of files, issues, volumes,   *)
(* local entries, reviewers and workers.  IInv of FileMatches is shown to  *)
(* be inductive, one lemma per kind of step: steps that leave the table    *)
(* alone, steps that load rows into a session, the matcher's upsert and a  *)
(* request's commit.                                                       *)
(***************************************************************************)
EXTENDS FileMatches, TLAPS

-----------------------------------------------------------------------------
(* Rows *)

\* A flush of a row yields a row; when the row was not changed since the session
\* loaded it, it yields the row the session assigned.
LEMMA FlushedColumns ==
    ASSUME NEW current \in Row, NEW loaded \in Row, NEW assigned \in Row
    PROVE  /\ Flushed(current, loaded, assigned) \in Row
           /\ Flushed(current, current, assigned) = assigned
<1> DEFINE pick(c) == IF assigned[c] = loaded[c] THEN current[c] ELSE assigned[c]
<1>1. Flushed(current, loaded, assigned) =
        [status |-> pick("status"), issue |-> pick("issue"), local |-> pick("local"),
         supp |-> pick("supp"), by |-> pick("by")]
  BY DEF Flushed, Row
<1>2. Flushed(current, loaded, assigned) \in Row
  BY <1>1 DEF Row
<1>3. Flushed(current, current, assigned) = assigned
  BY DEF Flushed, Row
<1> QED BY <1>2, <1>3

\* What the handlers assign is a row with a target and an author that agree with
\* its status.
LEMMA AssignedRows ==
    ASSUME NEW row \in Row, NEW r \in Requests, NEW new,
           \/ new = Rejected(row, r)
           \/ \E i \in Issues : new = Confirmed(row, i, r)
           \/ \E l \in LocalIds : new = Localised(l, r)
           \/ \E v \in Volumes : new = Supplemented(v, r)
    PROVE  WholeDecision(new)
<1>1. r # Null /\ Null \notin Issues \union LocalIds \union Volumes
  BY NullAssumption
<1>2. CASE \E i \in Issues : new = Confirmed(row, i, r)
  BY <1>1, <1>2 DEF Confirmed, Row, MatchStatus, WholeDecision, TargetMatchesStatus,
                      AuthorMatchesStatus, Decided, Settled
<1>3. CASE new = Rejected(row, r)
  BY <1>1, <1>3 DEF Rejected, Row, MatchStatus, WholeDecision, TargetMatchesStatus,
                      AuthorMatchesStatus, Decided, Settled
<1>4. CASE \E l \in LocalIds : new = Localised(l, r)
  BY <1>1, <1>4 DEF Localised, Row, MatchStatus, WholeDecision, TargetMatchesStatus,
                      AuthorMatchesStatus, Decided, Settled
<1>5. CASE \E v \in Volumes : new = Supplemented(v, r)
  BY <1>1, <1>5 DEF Supplemented, Row, MatchStatus, WholeDecision, TargetMatchesStatus,
                      AuthorMatchesStatus, Decided, Settled
<1> QED BY <1>2, <1>3, <1>4, <1>5

\* The matcher's upsert leaves an open row whose target and author agree with its
\* status, whatever row it meets.
LEMMA JudgedRow ==
    ASSUME NEW row \in Row \union {NoRow}, NEW v \in Verdict
    PROVE  /\ Judged(row, v[1], v[2]) \in Row
           /\ Judged(row, v[1], v[2]).status \notin Settled
           /\ TargetMatchesStatus(Judged(row, v[1], v[2]))
           /\ AuthorMatchesStatus(Judged(row, v[1], v[2]))
<1>1. /\ v[1] \in {"auto", "pending", "unmatched"}
      /\ v[2] \in Issues \union {Null}
      /\ v[1] = "auto" => v[2] # Null
  BY NullAssumption DEF Verdict, Reviewable
<1> QED BY <1>1 DEF Judged, Row, NoRow, MatchStatus, TargetMatchesStatus,
                     AuthorMatchesStatus, Decided, Settled

\* No row has status "none".
LEMMA RowExists ==
    ASSUME NEW row \in Row \union {NoRow}
    PROVE  Exists(row) <=> row \in Row
  BY DEF Exists, Row, NoRow, MatchStatus

-----------------------------------------------------------------------------
(* Sessions *)

\* Loading puts the table's rows of S in the session of r and changes no other
\* entry of any session.
LEMMA LoadFacts ==
    ASSUME TypeOK, NEW r \in Requests, NEW S \in SUBSET Files,
           NEW new, \A f \in S : new[f] \in Row, Load(r, S, new)
    PROVE  /\ read' \in [Requests -> [Files -> Row \union {NoRow}]]
           /\ want' \in [Requests -> [Files -> Row \union {NoRow}]]
           /\ \A f \in S : read'[r][f] = match[f] /\ want'[r][f] = new[f]
           /\ \A q \in Requests, f \in Files :
                (q = r /\ f \in S) \/ (read'[q][f] = read[q][f] /\ want'[q][f] = want[q][f])
<1>1. read \in [Requests -> [Files -> Row \union {NoRow}]]
      /\ want \in [Requests -> [Files -> Row \union {NoRow}]]
      /\ match \in [Files -> Row \union {NoRow}]
  BY DEF TypeOK
<1>2. /\ read' = [read EXCEPT ![r] = [f \in Files |-> IF f \in S THEN match[f] ELSE read[r][f]]]
      /\ want' = [want EXCEPT ![r] = [f \in Files |-> IF f \in S THEN new[f] ELSE want[r][f]]]
  BY DEF Load
<1>3. /\ [f \in Files |-> IF f \in S THEN match[f] ELSE read[r][f]] \in [Files -> Row \union {NoRow}]
      /\ [f \in Files |-> IF f \in S THEN new[f] ELSE want[r][f]] \in [Files -> Row \union {NoRow}]
  BY <1>1
<1>4. /\ read' \in [Requests -> [Files -> Row \union {NoRow}]]
      /\ want' \in [Requests -> [Files -> Row \union {NoRow}]]
  BY <1>1, <1>2, <1>3
<1>5. \A f \in S : read'[r][f] = match[f] /\ want'[r][f] = new[f]
  BY <1>1, <1>2
<1>6. \A q \in Requests, f \in Files :
        (q = r /\ f \in S) \/ (read'[q][f] = read[q][f] /\ want'[q][f] = want[q][f])
  <2> SUFFICES ASSUME NEW q \in Requests, NEW f \in Files
               PROVE  (q = r /\ f \in S) \/ (read'[q][f] = read[q][f] /\ want'[q][f] = want[q][f])
    OBVIOUS
  <2>1. CASE q = r
    BY <1>1, <1>2, <2>1
  <2>2. CASE q # r
    BY <1>1, <1>2, <2>2
  <2> QED BY <2>1, <2>2
<1> QED BY <1>4, <1>5, <1>6

\* Closing a session empties it and leaves the others alone.
LEMMA CloseFacts ==
    ASSUME TypeOK, NEW r \in Requests, Close(r)
    PROVE  /\ op' \in [Requests ->
                {"idle", "single", "volumeConfirm", "localGroup", "excludeGroup", "matchAll"}]
           /\ todo' \in [Requests -> SUBSET Files]
           /\ read' \in [Requests -> [Files -> Row \union {NoRow}]]
           /\ want' \in [Requests -> [Files -> Row \union {NoRow}]]
           /\ op'[r] = "idle"
           /\ \A f \in Files : read'[r][f] = NoRow
           /\ \A q \in Requests, f \in Files :
                q = r \/ (read'[q][f] = read[q][f] /\ want'[q][f] = want[q][f] /\ op'[q] = op[q])
<1>1. [f \in Files |-> NoRow] \in [Files -> Row \union {NoRow}]
  OBVIOUS
<1>2. /\ read' \in [Requests -> [Files -> Row \union {NoRow}]]
      /\ want' \in [Requests -> [Files -> Row \union {NoRow}]]
  BY <1>1 DEF Close, TypeOK
<1>3. \A f \in Files : read'[r][f] = NoRow
  BY DEF Close, TypeOK
<1>4. \A q \in Requests, f \in Files :
        q = r \/ (read'[q][f] = read[q][f] /\ want'[q][f] = want[q][f] /\ op'[q] = op[q])
  <2>1. \A q \in Requests \ {r} : read'[q] = read[q] /\ want'[q] = want[q] /\ op'[q] = op[q]
    BY DEF Close, TypeOK
  <2> QED BY <2>1
<1>5. /\ op' \in [Requests ->
            {"idle", "single", "volumeConfirm", "localGroup", "excludeGroup", "matchAll"}]
      /\ todo' \in [Requests -> SUBSET Files]
      /\ op'[r] = "idle"
  BY DEF Close, TypeOK
<1> QED BY <1>2, <1>3, <1>4, <1>5

\* What a commit leaves of a row: the row itself where the session did not load
\* it, a row in any case, and the session's decision on an unraced file.
LEMMA AfterFlushFacts ==
    ASSUME IInv, NEW r \in Requests, NEW f \in Files
    PROVE  /\ AfterFlush(r, f) \in Row \union {NoRow}
           /\ Exists(match[f]) => Exists(AfterFlush(r, f))
           /\ f \notin Loaded(r) => AfterFlush(r, f) = match[f]
           /\ f \in Loaded(r) /\ f \notin raced => AfterFlush(r, f) = want[r][f]
<1>1. CASE f \notin Loaded(r)
  BY <1>1 DEF AfterFlush, IInv, TypeOK
<1>2. CASE f \in Loaded(r)
  <2>1. match[f] \in Row /\ read[r][f] \in Row /\ want[r][f] \in Row
    BY <1>2, RowExists DEF IInv, TypeOK, AssignmentsIntact, WholeDecision, Loaded
  <2>2. AfterFlush(r, f) = Flushed(match[f], read[r][f], want[r][f])
    BY <1>2 DEF AfterFlush
  <2>3. AfterFlush(r, f) \in Row
    BY <2>1, <2>2, FlushedColumns
  <2>4. f \notin raced => AfterFlush(r, f) = want[r][f]
    <3>1. f \notin raced => read[r][f] = match[f]
      BY <1>2 DEF IInv, SessionsCurrent
    <3> QED BY <3>1, <2>1, <2>2, FlushedColumns
  <2> QED BY <1>2, <2>3, <2>4, RowExists
<1> QED BY <1>1, <1>2

-----------------------------------------------------------------------------
(* Every step preserves the invariant *)

\* Steps that leave the table and the overlaps alone and load no row: a session
\* keeps what it has or is emptied, and a job that starts finds its file open.
LEMMA QuietStep ==
    ASSUME IInv, TypeOK', BulkGuarded', UNCHANGED <<match, raced>>,
           \A r \in Requests, f \in Files :
              read'[r][f] = NoRow \/ (read'[r][f] = read[r][f] /\ want'[r][f] = want[r][f]),
           \A m \in Matchers :
              job'[m] \in {job[m], Null} \/ match[job'[m]].status \notin Settled
    PROVE  IInv'
<1>1. \A r \in Requests, f \in Files :
        f \in Loaded(r)' => f \in Loaded(r) /\ read'[r][f] = read[r][f] /\ want'[r][f] = want[r][f]
  BY DEF Loaded, Exists, NoRow
<1>2. DecisionsIntact'
  BY DEF IInv, DecisionsIntact
<1>3. SessionsCurrent'
  BY <1>1 DEF IInv, SessionsCurrent
<1>4. JobsInformed'
  BY NullAssumption DEF IInv, JobsInformed
<1>5. AssignmentsIntact'
  <2> SUFFICES ASSUME NEW r \in Requests, NEW f \in Loaded(r)'
               PROVE  /\ Exists(match[f])
                      /\ WholeDecision(want'[r][f])
    BY DEF AssignmentsIntact, Exists, WholeDecision, TargetMatchesStatus, AuthorMatchesStatus
  <2>1. f \in Files
    BY DEF Loaded
  <2> QED BY <1>1, <2>1 DEF IInv, AssignmentsIntact
<1> QED BY <1>2, <1>3, <1>4, <1>5 DEF IInv

\* Steps that load the rows of S into the session of r and assign decisions.
LEMMA LoadStep ==
    ASSUME IInv, NEW r \in Requests, NEW S \in SUBSET Files, NEW new,
           \A f \in S : /\ Exists(match[f])
                        /\ WholeDecision(new[f]),
           Load(r, S, new), UNCHANGED <<match, excluded, queueVars, raced>>,
           op' \in [Requests ->
                {"idle", "single", "volumeConfirm", "localGroup", "excludeGroup", "matchAll"}],
           todo' \in [Requests -> SUBSET Files],
           BulkGuarded', late' \subseteq Files
    PROVE  IInv'
<1>1. TypeOK /\ \A f \in S : new[f] \in Row
  BY DEF IInv, WholeDecision
<1>2. /\ read' \in [Requests -> [Files -> Row \union {NoRow}]]
      /\ want' \in [Requests -> [Files -> Row \union {NoRow}]]
      /\ \A f \in S : read'[r][f] = match[f] /\ want'[r][f] = new[f]
      /\ \A q \in Requests, f \in Files :
           (q = r /\ f \in S) \/ (read'[q][f] = read[q][f] /\ want'[q][f] = want[q][f])
  BY <1>1, LoadFacts
<1>3. TypeOK'
  BY <1>1, <1>2 DEF TypeOK, queueVars
<1>4. DecisionsIntact' /\ JobsInformed'
  BY DEF IInv, DecisionsIntact, JobsInformed, queueVars
<1>5. SessionsCurrent'
  <2> SUFFICES ASSUME NEW q \in Requests, NEW f \in Files \ raced, Exists(read'[q][f])
               PROVE  read'[q][f] = match[f]
    BY DEF SessionsCurrent, Loaded, Exists
  <2>1. CASE q = r /\ f \in S
    BY <1>2, <2>1
  <2>2. CASE ~(q = r /\ f \in S)
    BY <1>2, <2>2 DEF IInv, SessionsCurrent, Loaded
  <2> QED BY <2>1, <2>2
<1>6. AssignmentsIntact'
  <2> SUFFICES ASSUME NEW q \in Requests, NEW f \in Loaded(q)'
               PROVE  /\ Exists(match[f])
                      /\ WholeDecision(want'[q][f])
    BY DEF AssignmentsIntact, Exists, WholeDecision, TargetMatchesStatus, AuthorMatchesStatus
  <2>1. f \in Files /\ Exists(read'[q][f])
    BY DEF Loaded, Exists
  <2>2. CASE q = r /\ f \in S
    BY <1>2, <2>2
  <2>3. CASE ~(q = r /\ f \in S)
    <3>1. f \in Loaded(q) /\ want'[q][f] = want[q][f]
      BY <1>2, <2>1, <2>3 DEF Loaded
    <3> QED BY <3>1 DEF IInv, AssignmentsIntact
  <2> QED BY <2>2, <2>3
<1> QED BY <1>3, <1>4, <1>5, <1>6 DEF IInv

\* The matcher's upsert, where it meets a row no session holds, replaces one
\* whole verdict by another; where it meets one a session holds, the file is raced.
LEMMA PersistStep ==
    ASSUME IInv, NEW m \in Matchers, Persist(m), late' \subseteq Files
    PROVE  IInv'
<1> DEFINE f == job[m]
<1>1. f \in Files
  BY DEF Persist, IInv, TypeOK
<1>2. PICK v \in Verdict :
        /\ match' = [match EXCEPT ![f] = Judged(match[f], v[1], v[2])]
        /\ raced' = IF Judged(match[f], v[1], v[2]) # match[f] /\ HeldByRequest(f)
                    THEN raced \union {f} ELSE raced
  BY DEF Persist
<1> DEFINE row == Judged(match[f], v[1], v[2])
<1>3. match[f] \in Row \union {NoRow}
  BY <1>1 DEF IInv, TypeOK
<1>4. /\ row \in Row
      /\ row.status \notin Settled
      /\ TargetMatchesStatus(row) /\ AuthorMatchesStatus(row)
  BY <1>3, JudgedRow
<1> HIDE DEF row, f
<1>5. /\ match' = [match EXCEPT ![f] = row]
      /\ raced' = IF row # match[f] /\ HeldByRequest(f) THEN raced \union {f} ELSE raced
  BY <1>2 DEF row, f
<1>6. /\ job' = [job EXCEPT ![m] = Null]
      /\ UNCHANGED <<excluded, waiting, op, todo, read, want>>
  BY DEF Persist, reviewVars
<1>7. match'[f] = row /\ \A g \in Files \ {f} : match'[g] = match[g]
  BY <1>1, <1>5 DEF IInv, TypeOK
<1>8. TypeOK'
  BY <1>1, <1>4, <1>5, <1>6 DEF IInv, TypeOK
<1>10. DecisionsIntact'
  <2>1. \A g \in Files \ raced : TargetMatchesStatus(match[g]) /\ AuthorMatchesStatus(match[g])
    BY DEF IInv, DecisionsIntact
  <2>2. \A g \in Files \ raced' : TargetMatchesStatus(match'[g]) /\ AuthorMatchesStatus(match'[g])
    BY <1>4, <1>5, <1>7, <2>1
  <2> QED BY <2>2 DEF DecisionsIntact, TargetMatchesStatus, AuthorMatchesStatus
<1>11. SessionsCurrent'
  <2> SUFFICES ASSUME NEW r \in Requests, NEW g \in Files, g \notin raced', g \in Loaded(r)
               PROVE  read[r][g] = match'[g]
    BY <1>6 DEF SessionsCurrent, Loaded, Exists
  <2>1. g \notin raced /\ read[r][g] = match[g]
    BY <1>5 DEF IInv, SessionsCurrent
  <2>2. CASE g = f
    BY <1>5, <1>7, <2>1, <2>2 DEF HeldByRequest
  <2>3. CASE g # f
    BY <1>7, <2>1, <2>3
  <2> QED BY <2>2, <2>3
<1>12. JobsInformed'
  <2> SUFFICES ASSUME NEW n \in Matchers, job'[n] \in Files, job'[n] \notin raced'
               PROVE  match'[job'[n]].status \notin Settled
    BY DEF JobsInformed
  <2>1. n # m /\ job'[n] = job[n]
    BY <1>6, NullAssumption DEF IInv, TypeOK
  <2>2. CASE job[n] = f
    BY <1>4, <1>7, <2>1, <2>2
  <2>3. CASE job[n] # f
    <3>1. job[n] \in Files \ raced
      BY <1>5, <2>1
    <3>2. match[job[n]].status \notin Settled
      BY <3>1 DEF IInv, JobsInformed
    <3> QED BY <1>7, <2>1, <2>3, <3>1, <3>2
  <2> QED BY <2>2, <2>3
<1>13. AssignmentsIntact'
  <2> SUFFICES ASSUME NEW r \in Requests, NEW g \in Loaded(r)
               PROVE  /\ Exists(match'[g])
                      /\ WholeDecision(want[r][g])
    BY <1>6 DEF AssignmentsIntact, Loaded, Exists, WholeDecision, TargetMatchesStatus,
           AuthorMatchesStatus
  <2>1. g \in Files
    BY DEF Loaded
  <2>2. Exists(match'[g])
    BY <1>4, <1>7, <2>1, RowExists DEF IInv, AssignmentsIntact
  <2> QED BY <2>2 DEF IInv, AssignmentsIntact
<1>14. BulkGuarded'
  BY <1>6 DEF IInv, BulkGuarded, Loaded, Exists
<1> QED BY <1>8, <1>10, <1>11, <1>12, <1>13, <1>14 DEF IInv

\* A commit writes the session's decisions; a file it changes while another
\* writer holds it is raced from then on.
LEMMA CommitStep ==
    ASSUME IInv, NEW r \in Requests, CommitRequest(r), late' \subseteq Files
    PROVE  IInv'
<1>1. /\ match' = [f \in Files |-> AfterFlush(r, f)]
      /\ raced' = raced \union {f \in Files : AfterFlush(r, f) # match[f] /\ HeldByOthers(r, f)}
      /\ UNCHANGED <<excluded, waiting, job>>
  BY DEF CommitRequest, queueVars
<1>2. Close(r) /\ TypeOK
  BY DEF CommitRequest, IInv
<1>3. /\ op' \in [Requests ->
            {"idle", "single", "volumeConfirm", "localGroup", "excludeGroup", "matchAll"}]
      /\ todo' \in [Requests -> SUBSET Files]
      /\ read' \in [Requests -> [Files -> Row \union {NoRow}]]
      /\ want' \in [Requests -> [Files -> Row \union {NoRow}]]
      /\ op'[r] = "idle"
      /\ \A f \in Files : read'[r][f] = NoRow
      /\ \A q \in Requests, f \in Files :
           q = r \/ (read'[q][f] = read[q][f] /\ want'[q][f] = want[q][f] /\ op'[q] = op[q])
  BY <1>2, CloseFacts
<1>4. \A f \in Files :
        /\ AfterFlush(r, f) \in Row \union {NoRow}
        /\ Exists(match[f]) => Exists(AfterFlush(r, f))
        /\ f \notin Loaded(r) => AfterFlush(r, f) = match[f]
        /\ f \in Loaded(r) /\ f \notin raced => AfterFlush(r, f) = want[r][f]
  BY AfterFlushFacts
<1>5. \A f \in Files : match'[f] = AfterFlush(r, f)
  BY <1>1
\* Of an unraced file the commit left, either nothing changed or nobody else held it.
<1>6. \A f \in Files : f \notin raced' =>
        /\ f \notin raced
        /\ match'[f] = match[f] \/ ~HeldByOthers(r, f)
  BY <1>1, <1>5
<1>7. \A q \in Requests, f \in Files : f \in Loaded(q)' =>
        /\ q # r
        /\ f \in Loaded(q)
        /\ read'[q][f] = read[q][f] /\ want'[q][f] = want[q][f]
  BY <1>3 DEF Loaded, Exists, NoRow
<1>8. TypeOK'
  <2>1. match' \in [Files -> Row \union {NoRow}]
    BY <1>1, <1>4
  <2>2. raced' \subseteq Files
    BY <1>1, <1>2 DEF TypeOK
  <2> QED BY <1>1, <1>2, <1>3, <2>1, <2>2 DEF TypeOK
<1>10. DecisionsIntact'
  <2> SUFFICES ASSUME NEW f \in Files, f \notin raced'
               PROVE  TargetMatchesStatus(match'[f]) /\ AuthorMatchesStatus(match'[f])
    BY DEF DecisionsIntact, TargetMatchesStatus, AuthorMatchesStatus
  <2>1. f \notin raced
    BY <1>6
  <2>2. CASE f \in Loaded(r)
    BY <1>4, <1>5, <2>1, <2>2 DEF IInv, AssignmentsIntact, WholeDecision
  <2>3. CASE f \notin Loaded(r)
    BY <1>4, <1>5, <2>1, <2>3 DEF IInv, DecisionsIntact
  <2> QED BY <2>2, <2>3
<1>11. SessionsCurrent'
  <2> SUFFICES ASSUME NEW q \in Requests, NEW f \in Files, f \notin raced', f \in Loaded(q)'
               PROVE  read'[q][f] = match'[f]
    BY DEF SessionsCurrent
  <2>1. q # r /\ f \in Loaded(q) /\ read'[q][f] = read[q][f]
    BY <1>7
  <2>2. match'[f] = match[f] /\ f \notin raced
    BY <1>6, <2>1 DEF HeldByOthers
  <2> QED BY <2>1, <2>2 DEF IInv, SessionsCurrent
<1>12. JobsInformed'
  <2> SUFFICES ASSUME NEW m \in Matchers, job[m] \in Files, job[m] \notin raced'
               PROVE  match'[job[m]].status \notin Settled
    BY <1>1 DEF JobsInformed
  <2>1. match'[job[m]] = match[job[m]] /\ job[m] \notin raced
    BY <1>6 DEF HeldByOthers
  <2> QED BY <2>1 DEF IInv, JobsInformed
<1>13. AssignmentsIntact'
  <2> SUFFICES ASSUME NEW q \in Requests, NEW f \in Loaded(q)'
               PROVE  /\ Exists(match'[f])
                      /\ WholeDecision(want'[q][f])
    BY DEF AssignmentsIntact, Exists, WholeDecision, TargetMatchesStatus, AuthorMatchesStatus
  <2>1. f \in Files
    BY DEF Loaded
  <2>2. f \in Loaded(q) /\ want'[q][f] = want[q][f]
    BY <1>7, <2>1
  <2>3. /\ Exists(match[f])
        /\ WholeDecision(want[q][f])
    BY <2>2 DEF IInv, AssignmentsIntact
  <2> QED BY <1>4, <1>5, <2>1, <2>2, <2>3
<1>14. BulkGuarded'
  <2> SUFFICES ASSUME NEW q \in Requests
               PROVE  /\ op'[q] \in {"idle", "excludeGroup", "matchAll"} => Loaded(q)' = {}
                      /\ op'[q] \in {"volumeConfirm", "localGroup"} =>
                           \A f \in Loaded(q)' : read'[q][f].status \in Reviewable
    BY DEF BulkGuarded
  <2>1. Loaded(q)' \subseteq Files
    BY DEF Loaded
  <2>2. \A f \in Loaded(q)' :
          f \in Loaded(q) /\ read'[q][f] = read[q][f] /\ op'[q] = op[q]
    BY <1>3, <1>7, <2>1
  <2> QED BY <2>2 DEF IInv, BulkGuarded
<1> QED BY <1>8, <1>10, <1>11, <1>12, <1>13, <1>14 DEF IInv

\* A request that is emptied without writing a row keeps the invariant.
LEMMA CloseStep ==
    ASSUME IInv, NEW r \in Requests, Close(r), UNCHANGED <<match, job, raced>>,
           excluded' \subseteq Files, waiting' \in [Files -> 0..MaxWaiting],
           late' \subseteq Files
    PROVE  IInv'
<1>1. TypeOK
  BY DEF IInv
<1>2. /\ op' \in [Requests ->
            {"idle", "single", "volumeConfirm", "localGroup", "excludeGroup", "matchAll"}]
      /\ todo' \in [Requests -> SUBSET Files]
      /\ read' \in [Requests -> [Files -> Row \union {NoRow}]]
      /\ want' \in [Requests -> [Files -> Row \union {NoRow}]]
      /\ \A f \in Files : read'[r][f] = NoRow
      /\ \A q \in Requests, f \in Files :
           q = r \/ (read'[q][f] = read[q][f] /\ want'[q][f] = want[q][f] /\ op'[q] = op[q])
  BY <1>1, CloseFacts
<1>3. TypeOK'
  BY <1>1, <1>2 DEF TypeOK
<1>4. BulkGuarded'
  <2> SUFFICES ASSUME NEW q \in Requests
               PROVE  /\ op'[q] \in {"idle", "excludeGroup", "matchAll"} => Loaded(q)' = {}
                      /\ op'[q] \in {"volumeConfirm", "localGroup"} =>
                           \A f \in Loaded(q)' : read'[q][f].status \in Reviewable
    BY DEF BulkGuarded
  <2>1. CASE q = r
    BY <1>2, <2>1 DEF Loaded, Exists, NoRow
  <2>2. CASE q # r
    <3>1. \A f \in Loaded(q)' : f \in Loaded(q) /\ read'[q][f] = read[q][f] /\ op'[q] = op[q]
      BY <1>2, <2>2 DEF Loaded, Exists
    <3> QED BY <3>1 DEF IInv, BulkGuarded
  <2> QED BY <2>1, <2>2
<1> QED BY <1>2, <1>3, <1>4, QuietStep

\* A match job starts, ends without a verdict or is dropped.
LEMMA QueueStep ==
    ASSUME IInv,
           \/ \E m \in Matchers : (\E f \in Files : BeginMatch(m, f)) \/ ReleaseJob(m)
           \/ \E f \in Files : DropJob(f) \/ ExcludeFile(f),
           late' \subseteq Files
    PROVE  IInv'
<1>1. UNCHANGED <<match, op, todo, read, want, raced>>
  BY DEF BeginMatch, ReleaseJob, DropJob, ExcludeFile, reviewVars, queueVars
<1>2. excluded' \subseteq Files
  BY DEF BeginMatch, ReleaseJob, DropJob, ExcludeFile, reviewVars, IInv, TypeOK
<1>3. waiting' \in [Files -> 0..MaxWaiting]
  <2>1. waiting \in [Files -> 0..MaxWaiting] /\ MaxWaiting \in Nat
        /\ job \in [Matchers -> Files \union {Null}]
    BY MaxWaitingAssumption DEF IInv, TypeOK
  <2>2. CASE \E f \in Files : waiting[f] > 0 /\ waiting' = [waiting EXCEPT ![f] = @ - 1]
    BY <2>1, <2>2
  <2>3. CASE \E f \in Files :
               waiting[f] < MaxWaiting /\ waiting' = [waiting EXCEPT ![f] = @ + 1]
    BY <2>1, <2>3
  <2>4. CASE waiting' = waiting
    BY <2>1, <2>4
  <2> QED BY <2>1, <2>2, <2>3, <2>4
          DEF BeginMatch, ReleaseJob, DropJob, ExcludeFile, queueVars
<1>4. \A m \in Matchers : job'[m] \in {job[m], Null} \/ match[job'[m]].status \notin Settled
  BY DEF BeginMatch, ReleaseJob, DropJob, ExcludeFile, queueVars, IInv, TypeOK
<1>5. job' \in [Matchers -> Files \union {Null}]
  <2>1. \/ job' = job
        \/ \E m \in Matchers, f \in Files \union {Null} : job' = [job EXCEPT ![m] = f]
    BY DEF BeginMatch, ReleaseJob, DropJob, ExcludeFile, queueVars
  <2> QED BY <2>1 DEF IInv, TypeOK
<1>6. TypeOK'
  BY <1>1, <1>2, <1>3, <1>5 DEF IInv, TypeOK
<1>7. BulkGuarded'
  BY <1>1 DEF IInv, BulkGuarded, Loaded, Exists
<1> QED BY <1>1, <1>4, <1>6, <1>7, QuietStep

\* A bulk request lists its files and has loaded no row yet.
LEMMA ListStep ==
    ASSUME IInv, NEW r \in Requests,
           \/ \E S \in SUBSET Files :
                \E what \in {"volumeConfirm", "localGroup", "excludeGroup"} : OpenGroup(r, what, S)
           \/ SelectUnmatched(r),
           late' \subseteq Files
    PROVE  IInv'
<1>1. /\ op[r] = "idle"
      /\ UNCHANGED <<match, excluded, waiting, job, read, want, raced>>
  BY DEF OpenGroup, SelectUnmatched, queueVars
<1>2. PICK what \in {"volumeConfirm", "localGroup", "excludeGroup", "matchAll"} :
        op' = [op EXCEPT ![r] = what]
  BY DEF OpenGroup, SelectUnmatched
<1>3. todo' \in [Requests -> SUBSET Files]
  <2>1. PICK S \in SUBSET Files : todo' = [todo EXCEPT ![r] = S]
    BY DEF OpenGroup, SelectUnmatched
  <2> QED BY <2>1 DEF IInv, TypeOK
<1>4. TypeOK'
  BY <1>1, <1>2, <1>3 DEF IInv, TypeOK
<1>5. BulkGuarded'
  <2>1. Loaded(r) = {}
    BY <1>1 DEF IInv, BulkGuarded
  <2>2. \A q \in Requests : Loaded(q)' = Loaded(q) /\ read'[q] = read[q]
    BY <1>1 DEF Loaded, Exists
  <2>3. \A q \in Requests \ {r} : op'[q] = op[q]
    BY <1>2 DEF IInv, TypeOK
  <2> SUFFICES ASSUME NEW q \in Requests
               PROVE  /\ op'[q] \in {"idle", "excludeGroup", "matchAll"} => Loaded(q)' = {}
                      /\ op'[q] \in {"volumeConfirm", "localGroup"} =>
                           \A f \in Loaded(q)' : read'[q][f].status \in Reviewable
    BY DEF BulkGuarded
  <2>4. CASE q = r
    BY <2>1, <2>2, <2>4
  <2>5. CASE q # r
    BY <2>2, <2>3, <2>5 DEF IInv, BulkGuarded
  <2> QED BY <2>4, <2>5
<1> QED BY <1>1, <1>4, <1>5, QuietStep

\* A handler loads the rows of S that exist and assigns decisions, guarded by
\* their status when the handler is a bulk one.
LEMMA HandlerStep ==
    ASSUME IInv, NEW r \in Requests, NEW S \in SUBSET Files, NEW new,
           \A f \in S : /\ Exists(match[f])
                        /\ WholeDecision(new[f]),
           Load(r, S, new), UNCHANGED <<match, excluded, queueVars, raced>>,
           todo' \in [Requests -> SUBSET Files], late' \subseteq Files,
           \/ op[r] = "idle" /\ op' = [op EXCEPT ![r] = "single"]
           \/ /\ op' = op /\ op[r] \in {"volumeConfirm", "localGroup"}
              /\ \A f \in S : match[f].status \in Reviewable
    PROVE  IInv'
<1>1. TypeOK /\ \A f \in S : new[f] \in Row
  BY DEF IInv, WholeDecision
<1>2. /\ read' \in [Requests -> [Files -> Row \union {NoRow}]]
      /\ want' \in [Requests -> [Files -> Row \union {NoRow}]]
      /\ \A f \in S : read'[r][f] = match[f] /\ want'[r][f] = new[f]
      /\ \A q \in Requests, f \in Files :
           (q = r /\ f \in S) \/ (read'[q][f] = read[q][f] /\ want'[q][f] = want[q][f])
  BY <1>1, LoadFacts
<1>3. op' \in [Requests ->
            {"idle", "single", "volumeConfirm", "localGroup", "excludeGroup", "matchAll"}]
  BY <1>1 DEF TypeOK
<1>4. BulkGuarded'
  <2>1. \A q \in Requests \ {r} : op'[q] = op[q] /\ Loaded(q)' = Loaded(q)
    BY <1>1, <1>2 DEF TypeOK, Loaded, Exists
  <2>2. \A q \in Requests \ {r}, f \in Files : read'[q][f] = read[q][f]
    BY <1>2
  <2>3. \A f \in Loaded(r)' : f \in Files /\ (f \in S \/ (f \in Loaded(r) /\ read'[r][f] = read[r][f]))
    BY <1>2 DEF Loaded, Exists
  <2> SUFFICES ASSUME NEW q \in Requests
               PROVE  /\ op'[q] \in {"idle", "excludeGroup", "matchAll"} => Loaded(q)' = {}
                      /\ op'[q] \in {"volumeConfirm", "localGroup"} =>
                           \A f \in Loaded(q)' : read'[q][f].status \in Reviewable
    BY DEF BulkGuarded
  <2>4. CASE q # r
    BY <2>1, <2>2, <2>4 DEF IInv, BulkGuarded, Loaded
  <2>5. CASE q = r /\ op' = [op EXCEPT ![r] = "single"]
    BY <1>1, <2>5 DEF TypeOK
  <2>6. CASE /\ q = r /\ op' = op /\ op[r] \in {"volumeConfirm", "localGroup"}
             /\ \A f \in S : match[f].status \in Reviewable
    BY <1>2, <2>3, <2>6 DEF IInv, BulkGuarded
  <2> QED BY <2>4, <2>5, <2>6
<1> QED BY <1>1, <1>3, <1>4, LoadStep

\* The handlers for one file.
LEMMA SingleStep ==
    ASSUME IInv, NEW r \in Requests, NEW f \in Files,
           \/ ConfirmFile(r, f) \/ RejectFile(r, f) \/ CreateLocalEntry(r, f)
           \/ AttachSupplement(r, f) \/ MakeSupplement(r, f),
           late' \subseteq Files
    PROVE  IInv'
<1>1. PICK row : /\ OpenSingle(r, f, row)
                 /\ \/ row = Rejected(match[f], r)
                    \/ \E i \in Issues : row = Confirmed(match[f], i, r)
                    \/ \E l \in LocalIds : row = Localised(l, r)
                    \/ \E v \in Volumes : row = Supplemented(v, r)
  BY DEF ConfirmFile, RejectFile, CreateLocalEntry, AttachSupplement, MakeSupplement
<1>2. /\ op[r] = "idle" /\ op' = [op EXCEPT ![r] = "single"]
      /\ Exists(match[f])
      /\ Load(r, {f}, [g \in {f} |-> row])
      /\ UNCHANGED <<match, excluded, queueVars, todo, raced>>
  BY <1>1 DEF OpenSingle
<1>3. match[f] \in Row
  BY <1>2, RowExists DEF IInv, TypeOK
<1>4. WholeDecision(row)
  BY <1>1, <1>3, AssignedRows
<1>5. todo' \in [Requests -> SUBSET Files]
  BY <1>2 DEF IInv, TypeOK
<1>6. PICK new : new = [g \in {f} |-> row]
  OBVIOUS
<1>7. /\ {f} \in SUBSET Files
      /\ Load(r, {f}, new)
      /\ \A g \in {f} : /\ Exists(match[g])
                       /\ WholeDecision(new[g])
  BY <1>2, <1>4, <1>6
<1> QED BY <1>2, <1>5, <1>7, HandlerStep

\* Fix match repoints rows of any status.
LEMMA FixStep ==
    ASSUME IInv, NEW r \in Requests, NEW S \in SUBSET Files, FixMatch(r, S),
           late' \subseteq Files
    PROVE  IInv'
<1>1. /\ op[r] = "idle" /\ op' = [op EXCEPT ![r] = "single"]
      /\ \A f \in S : match[f].issue # Null
      /\ UNCHANGED <<match, excluded, queueVars, todo, raced>>
  BY DEF FixMatch
<1>2. PICK target \in [S -> Issues] :
        Load(r, S, [f \in S |-> Confirmed(match[f], target[f], r)])
  BY DEF FixMatch
<1>3. PICK new : new = [f \in S |-> Confirmed(match[f], target[f], r)]
  OBVIOUS
<1>4. \A f \in S : match[f] \in Row /\ Exists(match[f])
  BY <1>1, RowExists DEF IInv, TypeOK, NoRow
<1>5. \A f \in S : WholeDecision(new[f])
  <2> TAKE f \in S
  <2>1. new[f] = Confirmed(match[f], target[f], r) /\ target[f] \in Issues
    BY <1>3
  <2> QED BY <1>4, <2>1, AssignedRows
<1>6. todo' \in [Requests -> SUBSET Files]
  BY <1>1 DEF IInv, TypeOK
<1>7. Load(r, S, new)
  BY <1>2, <1>3
<1> QED BY <1>1, <1>4, <1>5, <1>6, <1>7, HandlerStep

\* The bulk loops: a reviewable row is loaded, any other is skipped.
LEMMA BulkStep ==
    ASSUME IInv, NEW r \in Requests, NEW f \in Files, LoadGroupRow(r, f),
           late' \subseteq Files
    PROVE  IInv'
<1>1. /\ todo' = [todo EXCEPT ![r] = @ \ {f}]
      /\ UNCHANGED <<match, excluded, queueVars, op, raced>>
      /\ op[r] \in {"volumeConfirm", "localGroup"}
  BY DEF LoadGroupRow, ConfirmGroupRow, LocaliseGroupRow, SkipGroupRow
<1>2. todo' \in [Requests -> SUBSET Files]
  BY <1>1 DEF IInv, TypeOK
<1>3. CASE UNCHANGED <<read, want>>
  <2>1. TypeOK'
    BY <1>1, <1>2, <1>3 DEF IInv, TypeOK, queueVars
  <2>2. BulkGuarded'
    BY <1>1, <1>3 DEF IInv, BulkGuarded, Loaded, Exists
  <2>3. UNCHANGED <<match, raced, job, read, want>>
    BY <1>1, <1>3 DEF queueVars
  <2> QED BY <2>1, <2>2, <2>3, QuietStep
<1>4. CASE match[f].status \in Reviewable /\ ~UNCHANGED <<read, want>>
  <2>1. PICK row : /\ Load(r, {f}, [g \in {f} |-> row])
                   /\ \/ \E i \in Issues : row = Confirmed(match[f], i, r)
                      \/ \E l \in LocalIds : row = Localised(l, r)
    BY <1>4 DEF LoadGroupRow, ConfirmGroupRow, LocaliseGroupRow, SkipGroupRow
  <2>2. Exists(match[f]) /\ match[f] \in Row
    BY <1>4, RowExists DEF Exists, Reviewable, IInv, TypeOK
  <2>3. WholeDecision(row)
    BY <2>1, <2>2, AssignedRows
  <2>4. PICK new : new = [g \in {f} |-> row]
    OBVIOUS
  <2>5. /\ {f} \in SUBSET Files
        /\ Load(r, {f}, new)
        /\ \A g \in {f} : /\ Exists(match[g]) /\ match[g].status \in Reviewable
                         /\ WholeDecision(new[g])
    BY <1>4, <2>1, <2>2, <2>3, <2>4
  <2> QED BY <1>1, <1>2, <2>5, HandlerStep
<1> QED BY <1>3, <1>4 DEF LoadGroupRow, ConfirmGroupRow, LocaliseGroupRow, SkipGroupRow

-----------------------------------------------------------------------------
(* The theorems *)

\* Before any job or request, every file has no row and no session holds one.
LEMMA InitInv == Init => IInv
<1> SUFFICES ASSUME Init PROVE IInv
  OBVIOUS
<1>1. TypeOK
  <2>1. waiting \in [Files -> 0..MaxWaiting]
    BY MaxWaitingAssumption DEF Init
  <2> QED BY <2>1 DEF Init, TypeOK
<1>2. \A r \in Requests : Loaded(r) = {}
  BY DEF Init, Loaded, Exists, NoRow
<1>4. DecisionsIntact
  BY DEF Init, DecisionsIntact, NoRow, TargetMatchesStatus, AuthorMatchesStatus, Decided,
         Settled
<1>5. SessionsCurrent /\ AssignmentsIntact /\ BulkGuarded
  BY <1>2 DEF SessionsCurrent, AssignmentsIntact, BulkGuarded
<1>6. JobsInformed
  BY NullAssumption DEF Init, JobsInformed
<1> QED BY <1>1, <1>4, <1>5, <1>6 DEF IInv

\* Every step of a writer preserves the invariant.
LEMMA NextInv == IInv /\ [Next]_vars => IInv'
<1> SUFFICES ASSUME IInv, [Next]_vars PROVE IInv'
  OBVIOUS
<1>0. late' \subseteq Files
  BY DEF Next, Remember, vars, IInv, TypeOK
<1>1. ASSUME NEW m \in Matchers, MatchJob(m) PROVE IInv'
  BY <1>0, <1>1, PersistStep, QueueStep DEF MatchJob
<1>2. ASSUME NEW r \in Requests, Request(r) PROVE IInv'
  <2>1. CASE CommitRequest(r)
    BY <1>0, <2>1, CommitStep
  <2>2. CASE RollBack(r)
    <3>1. Close(r) /\ UNCHANGED <<match, excluded, waiting, job, raced>>
      BY <2>2 DEF RollBack, queueVars
    <3> QED BY <1>0, <3>1, CloseStep DEF IInv, TypeOK
  <2>3. CASE ExcludeGroup(r)
    <3>1. Close(r) /\ UNCHANGED <<match, waiting, job, raced>> /\ excluded' \subseteq Files
      BY <2>3 DEF ExcludeGroup, queueVars, IInv, TypeOK
    <3> QED BY <1>0, <3>1, CloseStep DEF IInv, TypeOK
  <2>4. CASE EnqueueUnmatched(r)
    <3>1. Close(r) /\ UNCHANGED <<match, excluded, job, raced>>
      BY <2>4 DEF EnqueueUnmatched
    <3>2. waiting' \in [Files -> 0..MaxWaiting]
      BY <2>4, MaxWaitingAssumption DEF EnqueueUnmatched, IInv, TypeOK
    <3> QED BY <1>0, <3>1, <3>2, CloseStep DEF IInv, TypeOK
  <2>5. CASE SelectUnmatched(r)
    BY <1>0, <2>5, ListStep
  <2>6. CASE \E S \in SUBSET Files :
               \/ FixMatch(r, S) \/ OpenVolumeConfirm(r, S)
               \/ OpenLocalGroup(r, S) \/ OpenExcludeGroup(r, S)
    BY <1>0, <2>6, FixStep, ListStep DEF OpenVolumeConfirm, OpenLocalGroup, OpenExcludeGroup
  <2>7. CASE \E f \in Files :
               \/ ConfirmFile(r, f) \/ RejectFile(r, f) \/ CreateLocalEntry(r, f)
               \/ AttachSupplement(r, f) \/ MakeSupplement(r, f) \/ LoadGroupRow(r, f)
    BY <1>0, <2>7, SingleStep, BulkStep
  <2> QED BY <1>2, <2>1, <2>2, <2>3, <2>4, <2>5, <2>6, <2>7 DEF Request
<1>3. ASSUME NEW f \in Files, Admin(f) PROVE IInv'
  BY <1>0, <1>3, QueueStep DEF Admin
<1>4. CASE UNCHANGED vars
  BY <1>4 DEF vars, queueVars, reviewVars, IInv, TypeOK, DecisionsIntact,
              SessionsCurrent, JobsInformed, AssignmentsIntact, BulkGuarded, Loaded, Exists,
              WholeDecision, TargetMatchesStatus, AuthorMatchesStatus
<1> QED BY <1>1, <1>2, <1>3, <1>4 DEF Next

\* The invariant holds in every reachable state: Init establishes it and each
\* handler, job and admin action carries it over.
THEOREM Invariance == Spec => []IInv
  BY InitInv, NextInv, PTL DEF Spec

\* The table and the sessions only ever hold well-formed rows, or none.
THEOREM TypeCorrect == Spec => []TypeOK
<1>1. IInv => TypeOK
  BY DEF IInv
<1> QED BY Invariance, <1>1, PTL

\* A file on which no two writers overlapped has a status, a target and an author
\* that agree.
THEOREM Decisions == Spec => []DecisionsIntact
<1>1. IInv => DecisionsIntact
  BY DEF IInv
<1> QED BY Invariance, <1>1, PTL

-----------------------------------------------------------------------------
(* Action properties *)

\* Which rows a step can change: the one a job judges or those a commit wrote.
LEMMA Writers ==
    ASSUME IInv, [Next]_vars, NEW f \in Files, match'[f] # match[f]
    PROVE  \/ \E m \in Matchers : Persist(m) /\ job[m] = f
           \/ \E r \in Requests : CommitRequest(r) /\ f \in Loaded(r)
<1>1. match' # match
  OBVIOUS
<1>2. \/ \E m \in Matchers : Persist(m)
      \/ \E r \in Requests : CommitRequest(r)
  BY <1>1 DEF Next, MatchJob, Request, Admin, BeginMatch, ReleaseJob, DropJob, ExcludeFile,
              ConfirmFile, RejectFile, CreateLocalEntry, AttachSupplement, MakeSupplement,
              OpenSingle, LoadGroupRow, FixMatch, OpenGroup, OpenVolumeConfirm,
              OpenLocalGroup, OpenExcludeGroup, RollBack, ExcludeGroup,
              SelectUnmatched, EnqueueUnmatched, vars
<1>3. ASSUME NEW m \in Matchers, Persist(m) PROVE job[m] = f
  BY <1>3 DEF Persist, IInv, TypeOK
<1>4. ASSUME NEW r \in Requests, CommitRequest(r) PROVE f \in Loaded(r)
  BY <1>4 DEF CommitRequest, AfterFlush
<1> QED BY <1>2, <1>3, <1>4

\* What a commit leaves on a file that stays unraced is the session's decision on
\* the row as it was loaded.
LEMMA UnracedCommit ==
    ASSUME IInv, NEW r \in Requests, CommitRequest(r),
           NEW f \in Loaded(r), f \notin raced'
    PROVE  /\ f \in Files
           /\ match'[f] = want[r][f]
           /\ match[f] = read[r][f]
<1>1. f \in Files /\ f \notin raced
  BY DEF CommitRequest, Loaded
<1>2. match'[f] = AfterFlush(r, f)
  BY <1>1 DEF CommitRequest
<1>3. AfterFlush(r, f) = want[r][f]
  BY <1>1, AfterFlushFacts
<1>4. match[f] = read[r][f]
  BY <1>1 DEF IInv, SessionsCurrent
<1> QED BY <1>1, <1>2, <1>3, <1>4

\* No job that did not overlap a reviewer's request replaces a local entry or a
\* supplement.
THEOREM SettledKept == Spec => SettledKeptFromMatcher
<1> DEFINE Kept == \A f \in Files :
        match[f].status \in Settled /\ match'[f] # match[f] /\ f \notin raced'
            => match'[f].by # Null
<1>1. IInv /\ [Next]_vars => Kept
  <2> SUFFICES ASSUME IInv, [Next]_vars, NEW f \in Files, match[f].status \in Settled,
                      match'[f] # match[f], f \notin raced'
               PROVE  match'[f].by # Null
    OBVIOUS
  <2>1. ASSUME NEW m \in Matchers, Persist(m), job[m] = f PROVE FALSE
    <3>1. f \notin raced
      BY <2>1 DEF Persist
    <3> QED BY <2>1, <3>1 DEF IInv, JobsInformed
  <2>2. ASSUME NEW r \in Requests, CommitRequest(r), f \in Loaded(r) PROVE match'[f].by # Null
    <3>1. match'[f] = want[r][f]
      BY <2>2, UnracedCommit
    <3> QED BY <2>2, <3>1 DEF IInv, AssignmentsIntact, WholeDecision
  <2> QED BY <2>1, <2>2, Writers
<1>2. IInv /\ [Next]_vars => [Kept]_vars
  BY <1>1
<1> QED BY <1>2, Invariance, PTL DEF Spec, SettledKeptFromMatcher

\* The bulk operations commit only over rows that still waited for a decision,
\* unless another writer came between.
THEOREM BulkKept == Spec => BulkKeepsDecisions
<1> DEFINE Kept == \A r \in Requests, f \in Files :
        (/\ op[r] \in {"volumeConfirm", "localGroup"}
         /\ op'[r] = "idle"
         /\ match'[f] # match[f]
         /\ f \notin raced')
            => match[f].status \in Reviewable
<1>1. IInv /\ [Next]_vars => Kept
  <2> SUFFICES ASSUME IInv, [Next]_vars, NEW r \in Requests, NEW f \in Files,
                      op[r] \in {"volumeConfirm", "localGroup"}, op'[r] = "idle",
                      match'[f] # match[f], f \notin raced'
               PROVE  match[f].status \in Reviewable
    OBVIOUS
  <2>1. ASSUME NEW m \in Matchers, Persist(m) PROVE FALSE
    BY <2>1 DEF Persist, reviewVars
  <2>2. ASSUME NEW q \in Requests, CommitRequest(q), f \in Loaded(q)
        PROVE  match[f].status \in Reviewable
    <3>1. q = r
      BY <2>2 DEF CommitRequest, Close, IInv, TypeOK
    <3>2. match[f] = read[q][f]
      BY <2>2, UnracedCommit
    <3> QED BY <2>2, <3>1, <3>2 DEF IInv, BulkGuarded
  <2> QED BY <2>1, <2>2, Writers
<1>2. IInv /\ [Next]_vars => [Kept]_vars
  BY <1>1
<1> QED BY <1>2, Invariance, PTL DEF Spec, BulkKeepsDecisions

-----------------------------------------------------------------------------
(* Decisions and the matches asked for before them *)

\* A matcher's verdict is never a decision.
LEMMA VerdictUndecided ==
    ASSUME NEW row, NEW v \in Verdict
    PROVE  Judged(row, v[1], v[2]).status \notin Decided
  BY DEF Verdict, Judged, Reviewable, Decided, Settled

\* Nothing asks for a match of a decided file: a step after which one is asked for,
\* and which leaves the row alone, found it asked for already.
LEMMA NobodyAsksAnew ==
    ASSUME IInv, [Next]_vars, NEW f \in Files, match[f].status \in Decided, Asked(f)'
    PROVE  Asked(f)
<1> USE DEF Asked
<1>1. /\ waiting \in [Files -> Nat]
      /\ job \in [Matchers -> Files \union {Null}]
      /\ op \in [Requests ->
            {"idle", "single", "volumeConfirm", "localGroup", "excludeGroup", "matchAll"}]
      /\ todo \in [Requests -> SUBSET Files]
  BY MaxWaitingAssumption DEF IInv, TypeOK
<1>2. CASE \E m \in Matchers : MatchJob(m)
  <2>1. PICK m \in Matchers : MatchJob(m)
    BY <1>2
  <2>2. UNCHANGED <<op, todo>>
    BY <2>1 DEF MatchJob, BeginMatch, Persist, ReleaseJob, reviewVars
  <2>3. CASE Persist(m)
    BY <1>1, <2>2, <2>3, NullAssumption DEF Persist
  <2>4. CASE ReleaseJob(m)
    BY <1>1, <2>2, <2>4, NullAssumption DEF ReleaseJob
  <2>5. ASSUME NEW g \in Files, BeginMatch(m, g) PROVE Asked(f)
    BY <1>1, <2>2, <2>5, NullAssumption DEF BeginMatch
  <2> QED BY <2>1, <2>3, <2>4, <2>5 DEF MatchJob
<1>3. ASSUME NEW r \in Requests, Request(r) PROVE Asked(f)
  <2>1. job' = job
    BY <1>3 DEF Request, ConfirmFile, RejectFile, CreateLocalEntry, AttachSupplement,
                MakeSupplement, OpenSingle, LoadGroupRow, FixMatch, OpenGroup,
                OpenVolumeConfirm, OpenLocalGroup, OpenExcludeGroup, CommitRequest,
                RollBack, ExcludeGroup, SelectUnmatched, EnqueueUnmatched, queueVars
  <2>2. CASE SelectUnmatched(r)
    <3>1. waiting' = waiting /\ \A q \in Requests \ {r} : op'[q] = op[q] /\ todo'[q] = todo[q]
      BY <1>1, <2>2 DEF SelectUnmatched, queueVars
    <3>2. f \notin todo'[r]
      BY <1>1, <2>2 DEF SelectUnmatched, Decided, Settled, Reviewable
    <3> QED BY <2>1, <3>1, <3>2
  <2>3. CASE EnqueueUnmatched(r)
    <3>1. op'[r] = "idle" /\ \A q \in Requests \ {r} : op'[q] = op[q] /\ todo'[q] = todo[q]
      BY <1>1, <2>3 DEF EnqueueUnmatched, Close
    <3>2. waiting'[f] > 0 => waiting[f] > 0 \/ f \in todo[r]
      BY <1>1, <2>3 DEF EnqueueUnmatched
    <3>3. op[r] = "matchAll"
      BY <2>3 DEF EnqueueUnmatched
    <3> QED BY <2>1, <3>1, <3>2, <3>3
  <2>4. CASE ~SelectUnmatched(r) /\ ~EnqueueUnmatched(r)
    <3>1. waiting' = waiting
      BY <1>3, <2>4 DEF Request, ConfirmFile, RejectFile, CreateLocalEntry,
                AttachSupplement, MakeSupplement, OpenSingle, LoadGroupRow, FixMatch,
                OpenGroup, OpenVolumeConfirm, OpenLocalGroup, OpenExcludeGroup,
                CommitRequest, RollBack, ExcludeGroup, queueVars
    <3>2. \A q \in Requests : op'[q] = "matchAll" => op[q] = "matchAll" /\ todo'[q] = todo[q]
      <4>1. CASE LoadGroupRow(r, f) \/ \E g \in Files : LoadGroupRow(r, g)
        <5>1. op' = op /\ op[r] # "matchAll" /\ \A q \in Requests \ {r} : todo'[q] = todo[q]
          BY <1>1, <4>1 DEF LoadGroupRow, ConfirmGroupRow, LocaliseGroupRow, SkipGroupRow
        <5> QED BY <5>1
      <4>2. CASE \E S \in SUBSET Files :
                   OpenVolumeConfirm(r, S) \/ OpenLocalGroup(r, S) \/ OpenExcludeGroup(r, S)
        <5>1. op'[r] # "matchAll"
              /\ \A q \in Requests \ {r} : op'[q] = op[q] /\ todo'[q] = todo[q]
          BY <1>1, <4>2 DEF OpenVolumeConfirm, OpenLocalGroup, OpenExcludeGroup, OpenGroup
        <5> QED BY <5>1
      <4>3. CASE \/ \E S \in SUBSET Files : FixMatch(r, S)
                 \/ \E g \in Files : \/ ConfirmFile(r, g) \/ RejectFile(r, g)
                                      \/ CreateLocalEntry(r, g) \/ AttachSupplement(r, g)
                                      \/ MakeSupplement(r, g)
        <5>1. op' = [op EXCEPT ![r] = "single"] /\ todo' = todo
          BY <4>3 DEF FixMatch, ConfirmFile, RejectFile, CreateLocalEntry, AttachSupplement,
                      MakeSupplement, OpenSingle
        <5> QED BY <1>1, <5>1
      <4>4. CASE CommitRequest(r) \/ RollBack(r) \/ ExcludeGroup(r)
        <5>1. Close(r)
          BY <4>4 DEF CommitRequest, RollBack, ExcludeGroup
        <5>2. op'[r] = "idle" /\ \A q \in Requests \ {r} : op'[q] = op[q] /\ todo'[q] = todo[q]
          BY <1>1, <5>1 DEF Close
        <5> QED BY <5>2
      <4> QED BY <1>3, <2>4, <4>1, <4>2, <4>3, <4>4 DEF Request
    <3> QED BY <2>1, <3>1, <3>2
  <2> QED BY <2>2, <2>3, <2>4
<1>4. ASSUME NEW g \in Files, Admin(g) PROVE Asked(f)
  BY <1>1, <1>4 DEF Admin, DropJob, ExcludeFile, queueVars, reviewVars
<1>5. CASE UNCHANGED vars
  BY <1>5 DEF vars, queueVars, reviewVars
<1> QED BY <1>2, <1>3, <1>4, <1>5 DEF Next

\* A commit neither asks for a match nor ends one.
LEMMA CommitAsksNothing ==
    ASSUME IInv, NEW r \in Requests, CommitRequest(r), NEW f \in Files, Asked(f)'
    PROVE  Asked(f)
<1>1. UNCHANGED <<waiting, job>>
  BY DEF CommitRequest, queueVars
<1>2. op'[r] = "idle" /\ \A q \in Requests \ {r} : op'[q] = op[q] /\ todo'[q] = todo[q]
  BY DEF CommitRequest, Close, IInv, TypeOK
<1> QED BY <1>1, <1>2 DEF Asked

\* A decided file that somebody still means to match was decided after they meant to.
LEMMA LateInvariance == Spec => []LateKnown
<1>1. Init => LateKnown
  BY DEF Init, LateKnown, NoRow, Decided, Settled
<1>2. IInv /\ LateKnown /\ [Next]_vars => LateKnown'
  <2> SUFFICES ASSUME IInv, LateKnown, [Next]_vars, NEW f \in Files,
                      match'[f].status \in Decided, Asked(f)'
               PROVE  f \in late'
    BY DEF LateKnown
  <2>1. CASE match'[f] = match[f]
    <3>1. Asked(f) /\ f \in late
      BY <2>1, NobodyAsksAnew DEF LateKnown
    <3> QED BY <2>1, <3>1 DEF Next, Remember, vars
  <2>2. CASE match'[f] # match[f]
    <3>1. PICK r \in Requests : CommitRequest(r)
      <4>1. ASSUME NEW m \in Matchers, Persist(m), job[m] = f PROVE FALSE
        <5>1. PICK v \in Verdict : match' = [match EXCEPT ![f] = Judged(match[f], v[1], v[2])]
          BY <4>1 DEF Persist
        <5>2. match'[f] = Judged(match[f], v[1], v[2])
          BY <5>1 DEF IInv, TypeOK
        <5> QED BY <5>2, VerdictUndecided
      <4> QED BY <2>2, <4>1, Writers
    <3>2. Asked(f)
      BY <3>1, CommitAsksNothing
    <3>3. Remember
      BY <2>2 DEF Next, vars
    <3> QED BY <2>2, <3>2, <3>3 DEF Remember
  <2> QED BY <2>1, <2>2
<1> QED BY <1>1, <1>2, Invariance, PTL DEF Spec

\* What a reviewer decided is undone by no reviewer's commit, and by a job only when
\* its match had been asked for before the decision.
THEOREM LateVerdicts == Spec => LateVerdictsOnly
<1> DEFINE Only == \A f \in Files :
        match[f].status \in Decided /\ match'[f].status \notin Decided => f \in late
<1>1. IInv /\ LateKnown /\ [Next]_vars => Only
  <2> SUFFICES ASSUME IInv, LateKnown, [Next]_vars, NEW f \in Files,
                      match[f].status \in Decided, match'[f].status \notin Decided
               PROVE  f \in late
    OBVIOUS
  <2>1. match'[f] # match[f]
    OBVIOUS
  <2>2. ASSUME NEW m \in Matchers, Persist(m), job[m] = f PROVE f \in late
    BY <2>2 DEF Asked, LateKnown
  <2>3. ASSUME NEW r \in Requests, CommitRequest(r), f \in Loaded(r) PROVE FALSE
    <3>1. match'[f] = Flushed(match[f], read[r][f], want[r][f])
      BY <2>3 DEF CommitRequest, AfterFlush
    <3>2. WholeDecision(want[r][f]) /\ match[f] \in Row
      BY <2>3, RowExists DEF IInv, TypeOK, AssignmentsIntact
    <3>3. match'[f].status \in {match[f].status, want[r][f].status}
      BY <3>1, <3>2 DEF Flushed, Row
    <3> QED BY <3>2, <3>3 DEF WholeDecision, AuthorMatchesStatus
  <2> QED BY <2>1, <2>2, <2>3, Writers
<1>2. IInv /\ LateKnown /\ [Next]_vars => [Only]_vars
  BY <1>1
<1> QED BY <1>2, Invariance, LateInvariance, PTL DEF Spec, LateVerdictsOnly

=============================================================================
