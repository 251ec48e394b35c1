------------------------------- MODULE Matcher -------------------------------
(***************************************************************************)
(* One file is matched: by the ComicVine id in its metadata (stage 1), or by  *)
(* searching for its series, ranking the volumes found, fetching the best few *)
(* and scoring their issue of the file's number (stages 2 to 4). Any call to   *)
(* ComicVine can fail, or be refused because the rate limit is met.           *)
(*                                                                         *)
(* Scores are integers: a similarity is a percentage, a confidence is in       *)
(* thousandths. Left out: how similar two names are, how a filename is taken  *)
(* apart, the candidates kept for review, what the cache stores (CvCache), a   *)
(* reviewer who acts meanwhile (FileMatches).                               *)
(***************************************************************************)
EXTENDS Naturals, FiniteSets

CONSTANTS
    MatchFiles,          \* each with all that ComicVine knows of it, see File
    CandidateVolumes,        \* numbered in the order ComicVine ranks them
    MaxFetch,       \* MAX_VOLUMES_TO_FETCH
    YearFloor,      \* _YEAR_FLOOR
    NoYear

VARIABLES
    file,           \* the file and what ComicVine knows of it, for good
    matcher,        \* the job
    verdict,        \* the row in file_matches
    called,         \* history: calls to ComicVine
    missed          \* history: kinds of call that failed

matcherVars == <<file, matcher, verdict, called, missed>>

(* ---- the file ---- *)

Terms == {"short", "long"}

\* sim: _prelim_score; start, cover: start_year and the issue's cover_date;
\* few: the file's number is more than twice count_of_issues; odd: an issue in a
\* collection or the reverse; has: the volume has an issue of the number.
Profile == [sim : 0..100, start : Nat \cup {NoYear}, cover : Nat \cup {NoYear},
            few : BOOLEAN, odd : BOOLEAN, has : BOOLEAN]

\* The year in ComicInfo, in the filename, in a folder, in v2011 or v2.
Hint == [info : Nat \cup {NoYear}, name : Nat \cup {NoYear},
         path : Nat \cup {NoYear}, volume : Nat \cup {NoYear}]

\* id: the ComicVine id in the metadata: none, in cv_issues, or to be asked for.
\* terms: the search terms built from the name; hits: what they find.
File == [id : {"none", "cached", "asked"}, terms : {{}, {"short"}, Terms}, hint : Hint,
         of : [CandidateVolumes -> Profile], hits : [Terms -> SUBSET CandidateVolumes]]

ASSUME MatcherAssumption ==
    /\ MatchFiles \subseteq File /\ MatchFiles # {}
    /\ CandidateVolumes \subseteq Nat \ {0} /\ IsFiniteSet(CandidateVolumes)
    /\ MaxFetch \in Nat /\ YearFloor \in Nat /\ NoYear \notin Nat

NoVerdict == [status |-> "none", source |-> "none", volume |-> 0, confidence |-> 0]
Verdicts == [status : {"none", "auto", "pending", "unmatched"},
             source : {"none", "id", "filename"},
             volume : CandidateVolumes \cup {0}, confidence : 0..1000]

\* fetched: the volumes loaded; left: those still to be loaded.
MatcherStates ==
    [pc : {"new", "stage1", "hydrate", "search", "fetch", "persist", "done", "limited"},
     terms : SUBSET Terms, found : [Terms -> SUBSET CandidateVolumes],
     left : SUBSET CandidateVolumes, fetched : SUBSET CandidateVolumes, result : Verdicts]

MatcherInit ==
    /\ file \in MatchFiles
    /\ matcher = [pc |-> "new", terms |-> {}, found |-> [t \in Terms |-> {}],
                  left |-> {}, fetched |-> {}, result |-> NoVerdict]
    /\ verdict = NoVerdict
    /\ called = 0 /\ missed = {}

(* ---- ranking and scoring ---- *)

\* The year used, by how much its place is to be trusted; v2 is no year.
HintedYear ==
    IF file.hint.info # NoYear THEN file.hint.info
    ELSE IF file.hint.name # NoYear THEN file.hint.name
    ELSE IF file.hint.path # NoYear THEN file.hint.path
    ELSE IF file.hint.volume # NoYear /\ file.hint.volume >= YearFloor THEN file.hint.volume
    ELSE NoYear

Distance(x, y) == IF x > y THEN x - y ELSE y - x

\* _prelim_sort_key: the year decides between equal names, if both have one.
YearsApart(p, year) ==
    IF year = NoYear \/ p.start = NoYear THEN 0 ELSE Distance(year, p.start)

\* Mutant: volumes of a reboot are sorted out by their year at once.
PrefilteredMutant(p) == p.sim >= 55 /\ ~p.few /\ YearsApart(p, HintedYear) <= 3

\* MIN_PREFILTER_SCORE, and the gate on the number of issues.
Prefiltered(p) == p.sim >= 55 /\ ~p.few

\* _YEAR_PROXIMITY of the closer of the volume's start and the issue's date.
YearScore(p, year) ==
    LET deltas == {Distance(year, y) : y \in {p.start, p.cover} \ {NoYear}}
        near(d) == \E e \in deltas : e <= d
    IN  IF year = NoYear \/ {p.start, p.cover} = {NoYear} THEN 50
        ELSE IF near(0) THEN 100 ELSE IF near(1) THEN 85
        ELSE IF near(2) THEN 45 ELSE IF near(3) THEN 15 ELSE 0

\* Mutant: the wrong format costs nothing.
ConfidenceAnyFormatMutant(p, year) ==
    LET base == 10 * (65 * p.sim + 35 * YearScore(p, year))
        sane == IF p.few THEN base \div 2 ELSE base
    IN  (sane + 50) \div 100

\* _score in units of 1/100000, rounded to thousandths: WEIGHT_SERIES and
\* WEIGHT_YEAR, halved for a number too high, a tenth for the wrong format.
Confidence(p, year) ==
    LET base == 10 * (65 * p.sim + 35 * YearScore(p, year))
        sane == IF p.few THEN base \div 2 ELSE base
        fit == IF p.odd THEN sane \div 10 ELSE sane
    IN  (fit + 50) \div 100

AutoThreshold == 850
PendingThreshold == 500

\* The order of raw_results: the first term's hits, then what the second adds.
FoundBefore(u, v) ==
    LET first(w) == w \in matcher.found["short"]
    IN  IF first(u) = first(v) THEN u < v ELSE first(u)

\* The stable sort of the prefilter.
Before(u, v) ==
    LET p == file.of[u]
        q == file.of[v]
    IN  \/ p.sim > q.sim
        \/ p.sim = q.sim /\ YearsApart(p, HintedYear) < YearsApart(q, HintedYear)
        \/ p.sim = q.sim /\ YearsApart(p, HintedYear) = YearsApart(q, HintedYear) /\ FoundBefore(u, v)

Found == matcher.found["short"] \cup matcher.found["long"]

Ranked == {v \in Found : Prefiltered(file.of[v])}

Capped == {v \in Ranked : Cardinality({u \in Ranked : Before(u, v)}) < MaxFetch}

\* find_issue_by_number: without an issue of the number no score.
Scored == {v \in matcher.fetched : file.of[v].has}

ConfidenceIn(v) == Confidence(file.of[v], HintedYear)

\* The first of the best: sort is stable, candidates are scored in their rank.
Best ==
    CHOOSE v \in Scored : \A u \in Scored \ {v} :
        \/ ConfidenceIn(u) < ConfidenceIn(v)
        \/ ConfidenceIn(u) = ConfidenceIn(v) /\ Before(v, u)

\* Stage 4.
Decision ==
    IF Scored = {} THEN [NoVerdict EXCEPT !.status = "unmatched", !.source = "filename"]
    ELSE LET c == ConfidenceIn(Best)
         IN [status |-> IF c >= AutoThreshold THEN "auto" ELSE IF c >= PendingThreshold THEN "pending"
                        ELSE "unmatched",
             source |-> "filename", volume |-> IF c >= AutoThreshold THEN Best ELSE 0, confidence |-> c]

(* ---- the job ---- *)

MatchesGo(pc) == matcher' = [matcher EXCEPT !.pc = pc]

\* match_file: which stage the file's metadata allows.
MatchFile ==
    /\ matcher.pc = "new"
    /\ matcher' = [matcher EXCEPT !.pc = IF file.id = "none" THEN "search" ELSE "stage1",
                                  !.terms = file.terms]
    /\ UNCHANGED <<file, verdict, called, missed>>

\* A location is gone or the file's archive is not matched: no stage is run.
MatchNothing ==
    /\ matcher.pc = "new"
    /\ matcher' = [matcher EXCEPT !.pc = "persist",
                                  !.result = [NoVerdict EXCEPT !.status = "unmatched"]]
    /\ UNCHANGED <<file, verdict, called, missed>>

\* A call failed: by an error of its own, or by the rate limit.
Misses(kind, answer) ==
    missed' = missed \cup (IF answer = "error" THEN {kind}
                          ELSE IF answer = "limit" THEN {"limit"} ELSE {})

\* _stage_1: the issue is in cv_issues, or ComicVine answers: it exists, it does
\* not, or another error, which is treated like the latter.
Stage1(answer) ==
    /\ matcher.pc = "stage1"
    /\ file.id = "cached" => answer = "ok"
    /\ called' = IF file.id = "cached" THEN called ELSE called + 1
    /\ Misses("id", answer)
    /\ MatchesGo(IF answer = "ok" THEN "hydrate"
                 ELSE IF answer = "limit" THEN "limited" ELSE "search")
    /\ UNCHANGED <<file, verdict>>

\* get_volume of the parent; no error of it matters, a rate limit neither.
HydrateParent ==
    /\ matcher.pc = "hydrate"
    /\ called' = called + 1
    /\ matcher' = [matcher EXCEPT !.pc = "persist",
          !.result = [status |-> "auto", source |-> "id", volume |-> 0, confidence |-> 1000]]
    /\ UNCHANGED <<file, verdict, missed>>

\* Stage 3a: one search per term; a term that fails is skipped.
Search(t, answer) ==
    /\ matcher.pc = "search"
    /\ t \in matcher.terms
    /\ t = "long" => "short" \notin matcher.terms
    /\ called' = called + 1
    /\ Misses("search", answer)
    /\ matcher' = IF answer = "limit" THEN [matcher EXCEPT !.pc = "limited"]
                  ELSE [matcher EXCEPT !.terms = @ \ {t},
                          !.found = [@ EXCEPT ![t] = IF answer = "ok" THEN file.hits[t] ELSE {}]]
    /\ UNCHANGED <<file, verdict>>

Rank ==
    /\ matcher.pc = "search"
    /\ matcher.terms = {}
    /\ matcher' = [matcher EXCEPT !.pc = "fetch", !.left = Capped]
    /\ UNCHANGED <<file, verdict, called, missed>>

\* Mutant: a volume that meets the rate limit is skipped like one that fails.
FetchMutant(v, answer) ==
    /\ matcher.pc = "fetch"
    /\ v \in matcher.left
    /\ \A u \in matcher.left \ {v} : Before(v, u)
    /\ called' = called + 1
    /\ Misses("volume", answer)
    /\ matcher' = [matcher EXCEPT !.left = @ \ {v},
                      !.fetched = IF answer = "ok" THEN @ \cup {v} ELSE @]
    /\ UNCHANGED <<file, verdict>>

\* Stage 3b: the volumes in their rank; one that cannot be loaded is skipped.
Fetch(v, answer) ==
    /\ matcher.pc = "fetch"
    /\ v \in matcher.left
    /\ \A u \in matcher.left \ {v} : Before(v, u)
    /\ called' = called + 1
    /\ Misses("volume", answer)
    /\ matcher' = IF answer = "limit" THEN [matcher EXCEPT !.pc = "limited"]
                  ELSE [matcher EXCEPT !.left = @ \ {v},
                          !.fetched = IF answer = "ok" THEN @ \cup {v} ELSE @]
    /\ UNCHANGED <<file, verdict>>

Decide ==
    /\ matcher.pc = "fetch"
    /\ matcher.left = {}
    /\ matcher' = [matcher EXCEPT !.pc = "persist", !.result = Decision]
    /\ UNCHANGED <<file, verdict, called, missed>>

PersistVerdict ==
    /\ matcher.pc = "persist"
    /\ verdict' = matcher.result
    /\ MatchesGo("done")
    /\ UNCHANGED <<file, called, missed>>

MatcherNext ==
    \/ MatchFile
    \/ MatchNothing
    \/ \E answer \in {"ok", "missing", "error", "limit"} : Stage1(answer)
    \/ HydrateParent
    \/ \E answer \in {"ok", "error", "limit"} :
          \/ \E t \in Terms : Search(t, answer)
          \/ \E v \in CandidateVolumes : Fetch(v, answer)
    \/ Rank \/ Decide \/ PersistVerdict

MatcherSpec == MatcherInit /\ [][MatcherNext]_matcherVars

(* ---- properties ---- *)

\* The calls one file can cost: its id and the parent volume if the id is good, else
\* the id, one search per term and MAX_VOLUMES_TO_FETCH volumes.
Budget ==
    IF matcher.result.source = "id" THEN 2
    ELSE Cardinality(file.terms) + MaxFetch + (IF file.id = "asked" THEN 1 ELSE 0)

MatcherTypes ==
    /\ file \in MatchFiles
    /\ matcher \in MatcherStates
    /\ verdict \in Verdicts
    /\ called \in 0..Budget
    /\ missed \subseteq {"id", "search", "volume", "limit"}

\* What the searches of the file could have found.
Findable == {v \in UNION {file.hits[t] : t \in file.terms} : file.of[v].has}

\* No winner is lost on the way: unless a call failed, or more volumes than
\* MAX_VOLUMES_TO_FETCH passed the prefilter, a file with a volume that deserves
\* an automatic match gets one, and none scores higher. So the prefilter, which
\* has seen names only, never drops what the full score would accept.
NoWinnerLost ==
    (verdict.source = "filename" /\ missed = {} /\ Capped = Ranked)
    => \A v \in Findable :
         ConfidenceIn(v) >= AutoThreshold => /\ verdict.status = "auto"
                                    /\ verdict.confidence >= ConfidenceIn(v)

\* What is matched without a person has the file's number and format, nearly its
\* name, and a year at most one off: a file without a year always needs a person.
AutoPlausible ==
    (verdict.status = "auto" /\ verdict.source = "filename")
    => LET p == file.of[verdict.volume]
       IN  /\ p.has /\ ~p.few /\ ~p.odd
           /\ p.sim >= 77
           /\ HintedYear # NoYear
           /\ \E y \in {p.start, p.cover} \ {NoYear} : Distance(HintedYear, y) <= 1

\* A rate limit is never taken for an answer, in whichever of the calls a verdict
\* rests on it was met and whatever was found before: the job ends without one,
\* to be put off (MatchQueue), and no candidate set with a hole decides.
LimitIsNoVerdict == "limit" \in missed => verdict = NoVerdict /\ matcher.result = NoVerdict

\* "Don't downgrade to Stage 2; surface as unmatched (the review UI lets the user
\* retry)", of an error of ComicVine in stage 1.
ErrorSurfaces == ("id" \in missed /\ verdict # NoVerdict) => verdict.status = "unmatched"

=============================================================================
