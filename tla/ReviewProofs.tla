----------------------------- MODULE ReviewProofs -----------------------------
(***************************************************************************)
(* What the runs say of a file's match, the queue it waits in and the copies it  *)
(* competes with, for any number of volumes, files, series and administrators.   *)
(***************************************************************************)
EXTENDS Matcher, ReviewQueue, Duplicates, FiniteOrders, TLAPS

(* ---- scores and verdicts ---- *)

LEMMA HintedYearTyped ==
    ASSUME file \in MatchFiles
    PROVE  HintedYear \in Nat \cup {NoYear}
<1>1. file.hint \in Hint
  BY MatcherAssumption DEF File
<1>2. /\ file.hint.info \in Nat \cup {NoYear} /\ file.hint.name \in Nat \cup {NoYear}
      /\ file.hint.path \in Nat \cup {NoYear} /\ file.hint.volume \in Nat \cup {NoYear}
  BY <1>1 DEF Hint
<1> QED
  BY <1>2 DEF HintedYear

LEMMA YearScored ==
    ASSUME NEW p \in Profile, NEW year \in Nat \cup {NoYear}
    PROVE  /\ YearScore(p, year) \in {0, 15, 45, 50, 85, 100}
           /\ YearScore(p, year) >= 85 =>
                 /\ year # NoYear
                 /\ \E y \in {p.start, p.cover} \ {NoYear} : Distance(year, y) <= 1
<1> DEFINE deltas == {Distance(year, y) : y \in {p.start, p.cover} \ {NoYear}}
           near(d) == \E e \in deltas : e <= d
<1>1. p.start \in Nat \cup {NoYear} /\ p.cover \in Nat \cup {NoYear}
  BY DEF Profile
<1>2. YearScore(p, year) =
        IF year = NoYear \/ {p.start, p.cover} = {NoYear} THEN 50
        ELSE IF near(0) THEN 100 ELSE IF near(1) THEN 85
        ELSE IF near(2) THEN 45 ELSE IF near(3) THEN 15 ELSE 0
  BY DEF YearScore
<1>3. ASSUME year # NoYear, NEW d \in 0..1, near(d)
      PROVE  \E y \in {p.start, p.cover} \ {NoYear} : Distance(year, y) <= 1
  <2>1. PICK y \in {p.start, p.cover} \ {NoYear} : Distance(year, y) <= d
    BY <1>3
  <2>2. year \in Nat /\ y \in Nat
    BY <1>1, <1>3, <2>1
  <2>3. Distance(year, y) \in Nat
    BY <2>2 DEF Distance
  <2> QED
    BY <2>1, <2>3
<1> HIDE DEF near
<1>4. CASE year = NoYear \/ {p.start, p.cover} = {NoYear}
  BY <1>2, <1>4
<1>5. CASE ~(year = NoYear \/ {p.start, p.cover} = {NoYear})
  <2>1. YearScore(p, year) \in {0, 15, 45, 85, 100}
        /\ (YearScore(p, year) >= 85 => near(0) \/ near(1))
    BY <1>2, <1>5
  <2> QED
    BY <1>3, <1>5, <2>1
<1> QED
  BY <1>4, <1>5

\* The arithmetic of a confidence: the largest it can be, and what AutoThreshold takes.
LEMMA Points ==
    /\ \A s, y \in Nat : s <= 100 /\ y <= 100 =>
          10 * (65 * s + 35 * y) \in Nat /\ 10 * (65 * s + 35 * y) <= 100000
    /\ \A n \in Nat : n \div 2 \in Nat /\ n \div 10 \in Nat
    /\ \A n \in Nat : n <= 100000 => n \div 2 <= 50000 /\ n \div 10 <= 10000
    /\ \A n \in Nat : (n + 50) \div 100 \in Nat
    /\ \A n \in Nat : n <= 100000 => (n + 50) \div 100 <= 1000
    /\ \A n \in Nat : (n + 50) \div 100 >= 850 => n >= 84950
    /\ \A s, y \in Nat : s <= 100 /\ y \in {0, 15, 45, 50, 85, 100}
          /\ 10 * (65 * s + 35 * y) >= 84950 => s >= 77 /\ y >= 85
<1>1. \A s, y \in Nat : s <= 100 /\ y <= 100 =>
          10 * (65 * s + 35 * y) \in Nat /\ 10 * (65 * s + 35 * y) <= 100000
  BY SMT
<1>2. \A n \in Nat : n \div 2 \in Nat /\ n \div 10 \in Nat
  BY SMT
<1>3. \A n \in Nat : n <= 100000 => n \div 2 <= 50000 /\ n \div 10 <= 10000
  BY SMT
<1>4. \A n \in Nat : (n + 50) \div 100 \in Nat
  BY SMT
<1>5. \A n \in Nat : n <= 100000 => (n + 50) \div 100 <= 1000
  BY SMT
<1>6. \A n \in Nat : (n + 50) \div 100 >= 850 => n >= 84950
  BY SMT
<1>7. \A s, y \in Nat : s <= 100 /\ y \in {0, 15, 45, 50, 85, 100}
          /\ 10 * (65 * s + 35 * y) >= 84950 => s >= 77 /\ y >= 85
  BY SMT
<1> QED
  BY <1>1, <1>2, <1>3, <1>4, <1>5, <1>6, <1>7, SMT

Confidences == {n \in Nat : n <= 1000}

\* What AutoPlausible asks of a volume.
Plausible(p, year) ==
    /\ ~p.few /\ ~p.odd /\ p.sim >= 77
    /\ year # NoYear
    /\ \E y \in {p.start, p.cover} \ {NoYear} : Distance(year, y) <= 1

\* The year alone cannot make up for a name, nor the name for a year.
LEMMA ConfidenceMeans ==
    ASSUME NEW p \in Profile, NEW year \in Nat \cup {NoYear}
    PROVE  /\ Confidence(p, year) \in Confidences
           /\ Confidence(p, year) >= AutoThreshold => Plausible(p, year)
<1>1. p.sim \in Nat /\ p.sim <= 100 /\ p.few \in BOOLEAN /\ p.odd \in BOOLEAN
  BY SMT DEF Profile
<1> DEFINE byYear == YearScore(p, year)
           base == 10 * (65 * p.sim + 35 * byYear)
           sane == IF p.few THEN base \div 2 ELSE base
           fit == IF p.odd THEN sane \div 10 ELSE sane
<1>2. Confidence(p, year) = (fit + 50) \div 100
  BY Zenon DEF Confidence
<1>3. byYear \in {0, 15, 45, 50, 85, 100} /\ byYear \in Nat /\ byYear <= 100
  <2>1. byYear \in {0, 15, 45, 50, 85, 100}
    BY YearScored
  <2> HIDE DEF byYear
  <2> QED
    BY <2>1, SMT
<1>4. byYear >= 85 => /\ year # NoYear
                      /\ \E y \in {p.start, p.cover} \ {NoYear} : Distance(year, y) <= 1
  BY YearScored
<1> HIDE DEF byYear
<1>5. /\ base \in Nat /\ base <= 100000
      /\ base >= 84950 => p.sim >= 77 /\ byYear >= 85
  BY <1>1, <1>3, Points, SMT
<1> HIDE DEF base
<1>6. base \div 2 \in Nat /\ base \div 2 <= 50000
  BY <1>5, Points, SMT
<1>7. /\ sane \in Nat /\ sane <= 100000
      /\ sane >= 84950 => ~p.few /\ sane = base
  BY <1>1, <1>5, <1>6, SMT
<1> HIDE DEF sane
<1>8. sane \div 10 \in Nat /\ sane \div 10 <= 10000
  BY <1>7, Points, SMT
<1>9. /\ fit \in Nat /\ fit <= 100000
      /\ fit >= 84950 => ~p.odd /\ fit = sane
  BY <1>1, <1>7, <1>8, SMT
<1> HIDE DEF fit
<1> DEFINE enough == byYear >= 85 /\ p.sim >= 77 /\ ~p.few /\ ~p.odd
<1>10. /\ (fit + 50) \div 100 \in Confidences
       /\ (fit + 50) \div 100 >= AutoThreshold => enough
  <2>1. PICK c : c = (fit + 50) \div 100
    OBVIOUS
  <2>2. c \in Nat /\ c <= 1000 /\ (c >= 850 => fit >= 84950)
    BY <1>9, <2>1, Points, SMT
  <2>3. c \in Confidences
    BY <2>2, SMT DEF Confidences
  <2>4. c >= 850 => enough
    BY <1>5, <1>7, <1>9, <2>2, SMT
  <2>5. c >= AutoThreshold => enough
    BY <2>4 DEF AutoThreshold
  <2> HIDE DEF enough
  <2>6. (fit + 50) \div 100 \in Confidences
    BY <2>1, <2>3
  <2>7. (fit + 50) \div 100 >= AutoThreshold => enough
    BY <2>1, <2>5
  <2> QED
    BY <2>6, <2>7
<1>11. enough => Plausible(p, year)
  BY <1>4, Zenon DEF Plausible
<1> HIDE DEF enough
<1> QED
  BY <1>2, <1>10, <1>11, Zenon

(* ---- the best candidate ---- *)

LEMMA RanksTyped ==
    ASSUME file \in MatchFiles, NEW v \in CandidateVolumes
    PROVE  /\ file.of[v] \in Profile /\ file.of[v].sim \in Nat /\ v \in Nat
           /\ YearsApart(file.of[v], HintedYear) \in Nat
           /\ ConfidenceIn(v) \in Confidences /\ ConfidenceIn(v) \in Nat
<1>1. file.of[v] \in Profile /\ v \in Nat
  BY MatcherAssumption DEF File
<1>2. HintedYear \in Nat \cup {NoYear}
  BY HintedYearTyped
<1>3. file.of[v].sim \in Nat /\ file.of[v].start \in Nat \cup {NoYear}
  BY <1>1, SMT DEF Profile
<1>4. YearsApart(file.of[v], HintedYear) \in Nat
  BY <1>2, <1>3 DEF YearsApart, Distance
<1>5. ConfidenceIn(v) \in Confidences
  BY <1>1, <1>2, ConfidenceMeans, Zenon DEF ConfidenceIn
<1>6. ConfidenceIn(v) \in Nat
  BY <1>5, SMT DEF Confidences
<1> QED
  BY <1>1, <1>3, <1>4, <1>5, <1>6, Zenon

\* The prefilter's order is strict and total.
LEMMA BeforeOrders ==
    ASSUME file \in MatchFiles
    PROVE  /\ \A u \in CandidateVolumes : ~Before(u, u)
           /\ \A u, v \in CandidateVolumes : u # v => Before(u, v) \/ Before(v, u)
           /\ \A u, v, w \in CandidateVolumes : Before(u, v) /\ Before(v, w) => Before(u, w)
<1> DEFINE sim(v) == file.of[v].sim
           apart(v) == YearsApart(file.of[v], HintedYear)
           short(v) == v \in matcher.found["short"]
           prior(u, v) == IF short(u) <=> short(v) THEN u < v ELSE short(u)
<1>1. \A v \in CandidateVolumes : sim(v) \in Nat /\ apart(v) \in Nat /\ v \in Nat
  BY RanksTyped
<1>2. \A u, v : Before(u, v) <=> \/ sim(u) > sim(v)
                                 \/ sim(u) = sim(v) /\ apart(u) < apart(v)
                                 \/ sim(u) = sim(v) /\ apart(u) = apart(v) /\ prior(u, v)
  BY DEF Before, FoundBefore
<1> HIDE DEF sim, apart, short
<1>3. /\ \A u \in CandidateVolumes : ~prior(u, u)
      /\ \A u, v \in CandidateVolumes : u # v => prior(u, v) \/ prior(v, u)
      /\ \A u, v, w \in CandidateVolumes : prior(u, v) /\ prior(v, w) => prior(u, w)
  BY <1>1
<1> HIDE DEF prior
<1> QED
  BY <1>1, <1>2, <1>3

\* A volume that deserves an automatic match has passed the prefilter.
LEMMA AutoMeans ==
    ASSUME file \in MatchFiles, NEW v \in CandidateVolumes,
           ConfidenceIn(v) >= AutoThreshold
    PROVE  Plausible(file.of[v], HintedYear) /\ Prefiltered(file.of[v])
<1>1. file.of[v] \in Profile /\ HintedYear \in Nat \cup {NoYear} /\ file.of[v].sim \in Nat
  BY HintedYearTyped, RanksTyped
<1>2. Plausible(file.of[v], HintedYear)
  BY <1>1, ConfidenceMeans, Zenon DEF ConfidenceIn
<1>3. file.of[v].sim >= 77 /\ ~file.of[v].few
  BY <1>2, Zenon DEF Plausible
<1> QED
  BY <1>1, <1>2, <1>3, SMT DEF Prefiltered

Better(u, v) ==
    \/ ConfidenceIn(u) > ConfidenceIn(v)
    \/ ConfidenceIn(u) = ConfidenceIn(v) /\ Before(u, v)

\* There is a best candidate, so that Best is one: none scores higher.
LEMMA BestIsBest ==
    ASSUME file \in MatchFiles, matcher.fetched \subseteq CandidateVolumes, Scored # {}
    PROVE  Best \in Scored /\ \A v \in Scored : ConfidenceIn(Best) >= ConfidenceIn(v)
<1> DEFINE R == {uv \in CandidateVolumes \X CandidateVolumes : Better(uv[1], uv[2])}
<1>1. IsFiniteSet(Scored) /\ Scored \subseteq CandidateVolumes
  BY MatcherAssumption, FS_Subset DEF Scored
<1>2. \A v \in CandidateVolumes : ConfidenceIn(v) \in Nat
  BY RanksTyped
<1>3. /\ \A u \in CandidateVolumes : ~Better(u, u)
      /\ \A u, v \in CandidateVolumes : u # v => Better(u, v) \/ Better(v, u)
      /\ \A u, v, w \in CandidateVolumes : Better(u, v) /\ Better(v, w) => Better(u, w)
  BY <1>2, BeforeOrders, SMT DEF Better
<1>4. \A u, v \in CandidateVolumes : <<u, v>> \in R <=> Better(u, v)
  OBVIOUS
<1> HIDE DEF R
<1>5. \E v \in Scored : \A u \in Scored : <<u, v>> \notin R
  <2>1. \A u \in Scored : <<u, u>> \notin R
    BY <1>1, <1>3, <1>4, Zenon
  <2>2. \A u, v, w \in Scored : <<u, v>> \in R /\ <<v, w>> \in R => <<u, w>> \in R
    <3>1. SUFFICES ASSUME NEW u \in Scored, NEW v \in Scored, NEW w \in Scored,
                          <<u, v>> \in R, <<v, w>> \in R
                   PROVE  <<u, w>> \in R
      OBVIOUS
    <3>2. Better(u, v) /\ Better(v, w)
      BY <1>1, <1>4, <3>1, Zenon
    <3> QED
      BY <1>1, <1>3, <1>4, <3>2, Zenon
  <2> QED
    BY <1>1, <2>1, <2>2, FirstOfMany, Zenon
<1>6. PICK v \in Scored : \A u \in Scored : ~Better(u, v)
  BY <1>1, <1>4, <1>5
<1>7. \A u \in Scored \ {v} : Better(v, u)
  BY <1>1, <1>3, <1>6
<1>8. \A u \in Scored \ {v} :
        \/ ConfidenceIn(u) < ConfidenceIn(v)
        \/ ConfidenceIn(u) = ConfidenceIn(v) /\ Before(v, u)
  BY <1>1, <1>2, <1>7 DEF Better
<1>9. /\ Best \in Scored
      /\ \A u \in Scored \ {Best} :
            \/ ConfidenceIn(u) < ConfidenceIn(Best)
            \/ ConfidenceIn(u) = ConfidenceIn(Best) /\ Before(Best, u)
  BY <1>8 DEF Best
<1> QED
  BY <1>1, <1>2, <1>9

(* ---- the job that matches one file ---- *)

MatcherOK ==
    /\ file \in MatchFiles /\ matcher \in MatcherStates /\ verdict \in Verdicts
    /\ missed \subseteq {"id", "search", "volume", "limit"}

\* A verdict is written once, at the end, and never after a rate limit.
VerdictInv ==
    /\ matcher.pc \notin {"persist", "done"} => matcher.result = NoVerdict
    /\ matcher.pc # "done" => verdict = NoVerdict
    /\ matcher.pc = "done" => verdict = matcher.result
    /\ "limit" \in missed => matcher.pc = "limited"

\* Unless a call failed, what the terms searched so far have found is all they can,
\* and the volumes fetched or still to be fetched are all that were chosen.
SearchInv ==
    /\ matcher.pc \in {"stage1", "search"} =>
          \A t \in file.terms :
             t \in matcher.terms \/ (missed = {} => matcher.found[t] = file.hits[t])
    /\ matcher.pc = "fetch" /\ missed = {} =>
          /\ \A t \in file.terms : matcher.found[t] = file.hits[t]
          /\ Capped \subseteq matcher.fetched \cup matcher.left

\* What the two properties of a verdict say, of the result it is to be.
AutoInv ==
    (matcher.result.status = "auto" /\ matcher.result.source = "filename")
    => /\ file.of[matcher.result.volume].has
       /\ Plausible(file.of[matcher.result.volume], HintedYear)

WinnerInv ==
    (matcher.result.source = "filename" /\ missed = {} /\ Capped = Ranked)
    => \A v \in Findable :
         ConfidenceIn(v) >= AutoThreshold =>
            /\ matcher.result.status = "auto"
            /\ matcher.result.confidence >= ConfidenceIn(v)

MatcherInv == MatcherOK /\ VerdictInv /\ SearchInv /\ AutoInv /\ WinnerInv

LEMMA FilesTyped ==
    ASSUME file \in MatchFiles
    PROVE  /\ file.terms \subseteq Terms
           /\ \A t \in Terms : file.hits[t] \subseteq CandidateVolumes
           /\ \A v \in CandidateVolumes : file.of[v] \in Profile
<1>1. file \in File
  BY MatcherAssumption, Zenon
<1>2. /\ file.terms \in {{}, {"short"}, Terms}
      /\ file.hits \in [Terms -> SUBSET CandidateVolumes]
      /\ file.of \in [CandidateVolumes -> Profile]
  BY <1>1 DEF File
<1> QED
  BY <1>2 DEF Terms

LEMMA RankingTyped ==
    ASSUME file \in MatchFiles, matcher \in MatcherStates
    PROVE  /\ Found \subseteq CandidateVolumes /\ Ranked \subseteq Found /\ Capped \subseteq Ranked
           /\ matcher.fetched \subseteq CandidateVolumes /\ matcher.left \subseteq CandidateVolumes
<1>1. /\ matcher.found \in [Terms -> SUBSET CandidateVolumes]
      /\ matcher.fetched \subseteq CandidateVolumes /\ matcher.left \subseteq CandidateVolumes
  BY DEF MatcherStates
<1>2. Found \subseteq CandidateVolumes
  BY <1>1 DEF Found, Terms
<1> QED
  BY <1>1, <1>2 DEF Ranked, Capped

LEMMA NoVerdictTyped ==
    /\ NoVerdict \in Verdicts /\ NoVerdict.source = "none" /\ NoVerdict.status = "none"
    /\ [NoVerdict EXCEPT !.status = "unmatched"] \in Verdicts
    /\ [NoVerdict EXCEPT !.status = "unmatched"].source = "none"
<1>1. 0 \in 0..1000
  BY SMT
<1>2. NoVerdict = [status |-> "none", source |-> "none", volume |-> 0, confidence |-> 0]
  BY DEF NoVerdict
<1>3. NoVerdict \in Verdicts
  BY <1>1, SMT DEF NoVerdict, Verdicts
<1>4. NoVerdict.source = "none" /\ NoVerdict.status = "none"
  BY <1>2
<1>5. [NoVerdict EXCEPT !.status = "unmatched"]
        = [status |-> "unmatched", source |-> "none", volume |-> 0, confidence |-> 0]
  BY <1>2
<1>6. [NoVerdict EXCEPT !.status = "unmatched"] \in Verdicts
  BY <1>1, <1>5, SMT DEF Verdicts
<1>7. [NoVerdict EXCEPT !.status = "unmatched"].source = "none"
  BY <1>5
<1> QED
  BY <1>3, <1>4, <1>6, <1>7

\* A step that finds no more volumes ranks them as before.
LEMMA RankSame ==
    ASSUME file' = file, matcher'.found = matcher.found
    PROVE  /\ HintedYear' = HintedYear /\ Ranked' = Ranked /\ Capped' = Capped
           /\ Findable' = Findable
           /\ \A v : ConfidenceIn(v)' = ConfidenceIn(v)
<1>1. HintedYear' = HintedYear
  BY DEF HintedYear
<1>2. \A u, v : FoundBefore(u, v)' = FoundBefore(u, v)
  BY Zenon DEF FoundBefore
<1>3. \A u, v : Before(u, v)' = Before(u, v)
  BY <1>1, <1>2, Zenon DEF Before
<1>4. Ranked' = Ranked
  BY Zenon DEF Ranked, Found
<1>5. Capped' = Capped
  BY <1>3, <1>4, Zenon DEF Capped
<1>6. Findable' = Findable
  BY Zenon DEF Findable
<1>7. \A v : ConfidenceIn(v)' = ConfidenceIn(v)
  BY <1>1, Zenon DEF ConfidenceIn
<1> QED
  BY <1>1, <1>4, <1>5, <1>6, <1>7

LEMMA DecisionRight ==
    ASSUME MatcherOK
    PROVE  /\ Decision \in Verdicts /\ Decision.source = "filename"
           /\ Decision.status = "auto" =>
                 /\ Decision.volume \in Scored
                 /\ ConfidenceIn(Decision.volume) >= AutoThreshold
           /\ \A v \in Scored : ConfidenceIn(v) >= AutoThreshold =>
                 Decision.status = "auto" /\ Decision.confidence >= ConfidenceIn(v)
<1> USE DEF MatcherOK
<1>1. CASE Scored = {}
  <2>1. Decision = [status |-> "unmatched", source |-> "filename",
                    volume |-> 0, confidence |-> 0]
    BY <1>1 DEF Decision, NoVerdict
  <2>2. Decision \in Verdicts
    <3>1. 0 \in 0..1000
      BY SMT
    <3> QED
      BY <2>1, <3>1, SMT DEF Verdicts
  <2> QED
    BY <1>1, <2>1, <2>2
<1>2. CASE Scored # {}
  <2>1. Best \in Scored /\ \A v \in Scored : ConfidenceIn(Best) >= ConfidenceIn(v)
    BY <1>2, BestIsBest, RankingTyped
  <2>2. Best \in CandidateVolumes
    BY <2>1, RankingTyped DEF Scored
  <2>3. PICK c : c = ConfidenceIn(Best)
    OBVIOUS
  <2>4. c \in Nat /\ c \in 0..1000
    <3>1. c \in Confidences
      BY <2>2, <2>3, RanksTyped, Zenon
    <3> QED
      BY <3>1, SMT DEF Confidences
  <2>5. Decision = [status |-> IF c >= AutoThreshold THEN "auto"
                               ELSE IF c >= PendingThreshold THEN "pending" ELSE "unmatched",
                    source |-> "filename",
                    volume |-> IF c >= AutoThreshold THEN Best ELSE 0, confidence |-> c]
    BY <1>2, <2>3, Zenon DEF Decision
  <2>6. Decision \in Verdicts
    BY <2>2, <2>4, <2>5, SMT DEF Verdicts
  <2>7. /\ Decision.source = "filename" /\ Decision.confidence = c
        /\ Decision.status = "auto" <=> c >= AutoThreshold
        /\ c >= AutoThreshold => Decision.volume = Best
    BY <2>5, SMT
  <2>8. \A v \in Scored : c >= ConfidenceIn(v) /\ ConfidenceIn(v) \in Nat
    BY <2>1, <2>3, RanksTyped, RankingTyped, Zenon DEF Scored
  <2>9. \A v \in Scored : ConfidenceIn(v) >= AutoThreshold => c >= AutoThreshold
    BY <2>4, <2>8, SMT DEF AutoThreshold
  <2> QED
    BY <2>1, <2>3, <2>6, <2>7, <2>8, <2>9, Zenon
<1> QED
  BY <1>1, <1>2

LEMMA MatcherStarts == MatcherInit => MatcherInv
<1> SUFFICES ASSUME MatcherInit PROVE MatcherInv
  OBVIOUS
<1> USE DEF MatcherInit
<1>1. matcher \in MatcherStates
  BY NoVerdictTyped DEF MatcherStates
<1>2. matcher.pc = "new" /\ matcher.result = NoVerdict
  OBVIOUS
<1>3. MatcherOK
  BY <1>1, NoVerdictTyped DEF MatcherOK
<1>4. VerdictInv /\ SearchInv
  BY <1>2 DEF VerdictInv, SearchInv
<1>5. AutoInv /\ WinnerInv
  BY <1>2, NoVerdictTyped DEF AutoInv, WinnerInv
<1> QED
  BY <1>3, <1>4, <1>5 DEF MatcherInv

\* A step that is no search and leaves the result alone.
LEMMA QuietStep ==
    ASSUME MatcherInv, file' = file, matcher'.found = matcher.found,
           matcher'.result = matcher.result,
           missed \subseteq missed'
    PROVE  AutoInv' /\ WinnerInv'
<1>1. /\ HintedYear' = HintedYear /\ Ranked' = Ranked /\ Capped' = Capped
      /\ Findable' = Findable
      /\ \A v : ConfidenceIn(v)' = ConfidenceIn(v)
  BY RankSame
<1>2. AutoInv'
  BY <1>1, Zenon DEF MatcherInv, AutoInv
<1>3. missed' = {} => missed = {}
  OBVIOUS
<1>4. WinnerInv'
  BY <1>1, <1>3, Zenon DEF MatcherInv, WinnerInv
<1> QED
  BY <1>2, <1>4

LEMMA NoResult ==
    ASSUME matcher'.result.source # "filename"
    PROVE  AutoInv' /\ WinnerInv'
  BY DEF AutoInv, WinnerInv

LEMMA MatcherEnds ==
    ASSUME matcher \in MatcherStates, NEW r \in Verdicts
    PROVE  [matcher EXCEPT !.pc = "persist", !.result = r] \in MatcherStates
  BY DEF MatcherStates

LEMMA TermSearched ==
    ASSUME matcher \in MatcherStates, NEW t, NEW g \in [Terms -> SUBSET CandidateVolumes]
    PROVE  [matcher EXCEPT !.terms = matcher.terms \ {t}, !.found = g] \in MatcherStates
  BY DEF MatcherStates

LEMMA MatcherSteps ==
    ASSUME MatcherInv, [MatcherNext]_matcherVars
    PROVE  MatcherInv'
<1> DEFINE Answers == {"ok", "missing", "error", "limit"}
           Calls == {"ok", "error", "limit"}
<1>0. /\ file \in MatchFiles /\ matcher \in MatcherStates /\ verdict \in Verdicts
      /\ missed \subseteq {"id", "search", "volume", "limit"}
      /\ VerdictInv /\ SearchInv
  BY DEF MatcherInv, MatcherOK
<1>1. CASE MatchFile
  <2> USE <1>1 DEF MatchFile
  <2>1. file' = file /\ verdict' = verdict /\ missed' = missed
        /\ matcher.pc = "new" /\ matcher'.pc \in {"search", "stage1"}
        /\ matcher'.terms = file.terms
        /\ matcher'.found = matcher.found /\ matcher'.result = matcher.result
        /\ matcher' \in MatcherStates
    BY <1>0, FilesTyped DEF MatcherStates
  <2>2. MatcherOK' /\ VerdictInv' /\ SearchInv'
    BY <1>0, <2>1 DEF MatcherOK, VerdictInv, SearchInv
  <2> QED
    BY <2>1, <2>2, QuietStep DEF MatcherInv
<1>2. CASE MatchNothing
  <2> USE <1>2 DEF MatchNothing
  <2>1. file' = file /\ verdict' = verdict /\ missed' = missed
        /\ matcher.pc = "new" /\ matcher'.pc = "persist"
        /\ matcher'.result = [NoVerdict EXCEPT !.status = "unmatched"]
        /\ matcher' \in MatcherStates
    BY <1>0, NoVerdictTyped DEF MatcherStates
  <2>2. MatcherOK' /\ VerdictInv' /\ SearchInv'
    BY <1>0, <2>1 DEF MatcherOK, VerdictInv, SearchInv
  <2>3. matcher'.result.source # "filename"
    BY <2>1, NoVerdictTyped
  <2> QED
    BY <2>2, <2>3, NoResult DEF MatcherInv
<1>3. ASSUME NEW answer \in Answers, Stage1(answer) PROVE MatcherInv'
  <2> USE <1>3 DEF Stage1, Misses, MatchesGo
  <2>1. file' = file /\ verdict' = verdict /\ matcher.pc = "stage1"
        /\ matcher'.terms = matcher.terms
        /\ matcher'.found = matcher.found /\ matcher'.result = matcher.result
        /\ matcher' \in MatcherStates
    BY <1>0 DEF MatcherStates
  <2>2. /\ missed \subseteq missed' /\ missed' \subseteq missed \cup {"id", "limit"}
        /\ matcher'.pc \in {"hydrate", "limited", "search"}
        /\ "limit" \in missed' \ missed => matcher'.pc = "limited"
    BY <1>0 DEF MatcherStates
  <2>3. MatcherOK' /\ VerdictInv' /\ SearchInv'
    BY <1>0, <2>1, <2>2 DEF MatcherOK, VerdictInv, SearchInv
  <2> QED
    BY <2>1, <2>2, <2>3, QuietStep DEF MatcherInv
<1>4. CASE HydrateParent
  <2> USE <1>4 DEF HydrateParent
  <2>1. file' = file /\ verdict' = verdict /\ missed' = missed
        /\ matcher.pc = "hydrate" /\ matcher'.pc = "persist"
        /\ matcher'.result.source = "id"
    BY <1>0 DEF MatcherStates
  <2>2. matcher' \in MatcherStates
    <3> DEFINE r == [status |-> "auto", source |-> "id", volume |-> 0, confidence |-> 1000]
    <3>1. 1000 \in 0..1000
      BY SMT
    <3>2. r \in Verdicts
      BY <3>1, SMT DEF Verdicts
    <3>3. matcher' = [matcher EXCEPT !.pc = "persist", !.result = r]
      OBVIOUS
    <3> HIDE DEF r
    <3> QED
      BY ONLY <1>0, <3>2, <3>3, MatcherEnds
  <2>3. MatcherOK' /\ VerdictInv' /\ SearchInv'
    BY <1>0, <2>1, <2>2 DEF MatcherOK, VerdictInv, SearchInv
  <2> QED
    BY <2>1, <2>3, NoResult DEF MatcherInv
<1>5. ASSUME NEW answer \in Calls, NEW t \in Terms, Search(t, answer) PROVE MatcherInv'
  <2> USE <1>5 DEF Search, Misses
  <2>1. /\ file' = file /\ verdict' = verdict /\ matcher.pc = "search"
        /\ missed \subseteq missed' /\ missed' \subseteq missed \cup {"search", "limit"}
        /\ "limit" \in missed' \ missed => answer = "limit"
    OBVIOUS
  <2>2. matcher.result = NoVerdict
    BY <1>0, <2>1 DEF VerdictInv
  <2>3. CASE answer = "limit"
    <3>1. matcher' \in MatcherStates /\ matcher'.pc = "limited"
          /\ matcher'.result = NoVerdict
      BY <1>0, <2>2, <2>3 DEF MatcherStates
    <3>2. MatcherOK' /\ VerdictInv' /\ SearchInv'
      BY <1>0, <2>1, <2>2, <3>1 DEF MatcherOK, VerdictInv, SearchInv
    <3> QED
      BY <3>1, <3>2, NoResult, NoVerdictTyped DEF MatcherInv
  <2>4. CASE answer # "limit"
    <3> DEFINE f == IF answer = "ok" THEN file.hits[t] ELSE {}
               g == [matcher.found EXCEPT ![t] = f]
    <3>1. f \subseteq CandidateVolumes
      BY <1>0, FilesTyped
    <3>2. matcher' = [matcher EXCEPT !.terms = matcher.terms \ {t}, !.found = g]
      BY <2>4, Zenon
    <3>8. g \in [Terms -> SUBSET CandidateVolumes]
      BY <1>0, <3>1 DEF MatcherStates
    <3>9. g = [matcher.found EXCEPT ![t] = f]
      OBVIOUS
    <3>3. answer # "ok" => missed' # {}
      BY <2>4
    <3>4. answer = "ok" => f = file.hits[t]
      OBVIOUS
    <3> HIDE DEF f, g
    <3>10. matcher' \in MatcherStates
      BY ONLY <1>0, <3>2, <3>8, TermSearched
    <3>5. /\ matcher' \in MatcherStates /\ matcher'.pc = "search"
          /\ matcher'.result = NoVerdict
          /\ matcher'.terms = matcher.terms \ {t}
          /\ matcher'.found = g
      BY ONLY <1>0, <2>1, <2>2, <3>2, <3>10 DEF MatcherStates
    <3>6. MatcherOK' /\ VerdictInv'
      BY <1>0, <2>1, <2>4, <3>5 DEF MatcherOK, VerdictInv
    <3>7. SearchInv'
      <4>1. SUFFICES ASSUME NEW u \in file.terms, u \notin matcher'.terms, missed' = {}
                     PROVE  matcher'.found[u] = file.hits[u]
        BY <2>1, <3>5 DEF SearchInv
      <4>2. missed = {} /\ answer = "ok"
        BY <2>1, <3>3, <4>1
      <4>3. u \in Terms /\ matcher.found \in [Terms -> SUBSET CandidateVolumes]
        BY <1>0, FilesTyped DEF MatcherStates
      <4>4. CASE u = t
        BY <3>4, <3>5, <3>9, <4>2, <4>3, <4>4
      <4>5. CASE u # t
        <5>1. matcher.found[u] = file.hits[u]
          BY <1>0, <2>1, <3>5, <4>1, <4>2, <4>5 DEF SearchInv
        <5> QED
          BY <3>5, <3>9, <4>3, <4>5, <5>1
      <4> QED
        BY <4>4, <4>5
    <3> QED
      BY <3>5, <3>6, <3>7, NoResult, NoVerdictTyped DEF MatcherInv
  <2> QED
    BY <2>3, <2>4
<1>6. CASE Rank
  <2> USE <1>6 DEF Rank
  <2>1. file' = file /\ verdict' = verdict /\ missed' = missed
        /\ matcher.pc = "search" /\ matcher'.pc = "fetch" /\ matcher.terms = {}
        /\ matcher'.found = matcher.found /\ matcher'.result = matcher.result
        /\ matcher'.left = Capped /\ matcher' \in MatcherStates
    BY <1>0, RankingTyped DEF MatcherStates
  <2>2. MatcherOK' /\ VerdictInv'
    BY <1>0, <2>1 DEF MatcherOK, VerdictInv
  <2>3. Capped' = Capped
    BY <2>1, RankSame
  <2>4. SearchInv'
    BY <1>0, <2>1, <2>3 DEF SearchInv
  <2> QED
    BY <2>1, <2>2, <2>4, QuietStep DEF MatcherInv
<1>7. ASSUME NEW answer \in Calls, NEW v \in CandidateVolumes, Fetch(v, answer)
      PROVE  MatcherInv'
  <2> USE <1>7 DEF Fetch, Misses
  <2>1. /\ file' = file /\ verdict' = verdict /\ matcher.pc = "fetch"
        /\ missed \subseteq missed' /\ missed' \subseteq missed \cup {"volume", "limit"}
        /\ "limit" \in missed' \ missed => answer = "limit"
        /\ answer \notin {"ok", "limit"} => missed' # {}
    OBVIOUS
  <2>2. /\ matcher' \in MatcherStates
        /\ matcher'.found = matcher.found /\ matcher'.result = matcher.result
    BY <1>0 DEF MatcherStates
  <2>3. Capped' = Capped
    BY <2>1, <2>2, RankSame
  <2>4. CASE answer = "limit"
    <3>1. matcher'.pc = "limited"
      BY <1>0, <2>4 DEF MatcherStates
    <3>2. MatcherOK' /\ VerdictInv' /\ SearchInv'
      BY <1>0, <2>1, <2>2, <3>1 DEF MatcherOK, VerdictInv, SearchInv
    <3> QED
      BY <2>1, <2>2, <3>2, QuietStep DEF MatcherInv
  <2>5. CASE answer # "limit"
    <3>1. /\ matcher'.pc = "fetch" /\ matcher'.left = matcher.left \ {v}
          /\ matcher'.fetched = IF answer = "ok" THEN matcher.fetched \cup {v}
                                ELSE matcher.fetched
      BY <1>0, <2>1, <2>5 DEF MatcherStates
    <3>2. MatcherOK'
      BY <1>0, <2>1, <2>2 DEF MatcherOK
    <3>8. VerdictInv'
      BY <1>0, <2>1, <2>2, <2>5, <3>1 DEF VerdictInv
    <3>3. SearchInv'
      BY <1>0, <2>1, <2>2, <2>3, <2>5, <3>1 DEF SearchInv
    <3> QED
      BY <2>1, <2>2, <3>2, <3>8, <3>3, QuietStep DEF MatcherInv
  <2> QED
    BY <2>4, <2>5
<1>8. CASE Decide
  <2> USE <1>8 DEF Decide
  <2>0. MatcherOK
    BY DEF MatcherInv
  <2>1. file' = file /\ verdict' = verdict /\ missed' = missed
        /\ matcher.pc = "fetch" /\ matcher'.pc = "persist" /\ matcher.left = {}
        /\ matcher'.found = matcher.found /\ matcher'.result = Decision
        /\ matcher' \in MatcherStates
    BY <1>0, <2>0, DecisionRight DEF MatcherStates
  <2>2. MatcherOK' /\ VerdictInv' /\ SearchInv'
    BY <1>0, <2>1 DEF MatcherOK, VerdictInv, SearchInv
  <2>3. /\ HintedYear' = HintedYear /\ Ranked' = Ranked /\ Capped' = Capped
        /\ Findable' = Findable
        /\ \A v : ConfidenceIn(v)' = ConfidenceIn(v)
    BY <2>1, RankSame
  <2>4. AutoInv'
    <3>1. SUFFICES ASSUME Decision.status = "auto"
                   PROVE  /\ file.of[Decision.volume].has
                          /\ Plausible(file.of[Decision.volume], HintedYear)
      BY <2>1, <2>3, Zenon DEF AutoInv
    <3>2. /\ Decision.volume \in Scored /\ ConfidenceIn(Decision.volume) >= AutoThreshold
      BY <2>0, <3>1, DecisionRight, Zenon
    <3>3. Decision.volume \in CandidateVolumes /\ file.of[Decision.volume].has
      BY <1>0, <3>2, RankingTyped DEF Scored
    <3> QED
      BY <1>0, <3>2, <3>3, AutoMeans, Zenon
  <2>5. WinnerInv'
    <3>1. SUFFICES ASSUME missed = {}, Capped = Ranked, NEW v \in Findable,
                          ConfidenceIn(v) >= AutoThreshold
                   PROVE  /\ Decision.status = "auto"
                          /\ Decision.confidence >= ConfidenceIn(v)
      BY <2>1, <2>3, Zenon DEF WinnerInv
    <3>2. PICK t \in file.terms : v \in file.hits[t]
      BY DEF Findable
    <3>3. t \in Terms /\ v \in CandidateVolumes /\ file.of[v].has
      BY <1>0, <3>2, FilesTyped DEF Findable
    <3>4. v \in Found
      BY <1>0, <2>1, <3>1, <3>2, <3>3 DEF SearchInv, Found, Terms
    <3>5. Prefiltered(file.of[v])
      BY <1>0, <3>1, <3>3, AutoMeans, Zenon
    <3>6. v \in Ranked
      BY <3>4, <3>5 DEF Ranked
    <3>7. v \in Scored
      BY <1>0, <2>1, <3>1, <3>3, <3>6 DEF SearchInv, Scored
    <3> QED
      BY <2>0, <3>1, <3>7, DecisionRight, Zenon
  <2> QED
    BY <2>2, <2>4, <2>5 DEF MatcherInv
<1>9. CASE PersistVerdict
  <2> USE <1>9 DEF PersistVerdict, MatchesGo
  <2>1. file' = file /\ verdict' = matcher.result /\ missed' = missed
        /\ matcher.pc = "persist" /\ matcher'.pc = "done"
        /\ matcher'.found = matcher.found /\ matcher'.result = matcher.result
        /\ matcher' \in MatcherStates /\ matcher.result \in Verdicts
    BY <1>0 DEF MatcherStates
  <2>2. MatcherOK' /\ VerdictInv' /\ SearchInv'
    BY <1>0, <2>1 DEF MatcherOK, VerdictInv, SearchInv
  <2> QED
    BY <2>1, <2>2, QuietStep DEF MatcherInv
<1>10. CASE UNCHANGED matcherVars
  <2>1. file' = file /\ matcher' = matcher /\ verdict' = verdict /\ missed' = missed
    BY <1>10 DEF matcherVars
  <2>2. MatcherOK' /\ VerdictInv'
    BY <1>0, <2>1 DEF MatcherOK, VerdictInv
  <2>3. SearchInv'
    BY <1>0, <2>1, RankSame DEF SearchInv
  <2> QED
    BY <2>1, <2>2, <2>3, QuietStep DEF MatcherInv
<1> QED
  BY <1>1, <1>2, <1>3, <1>4, <1>5, <1>6, <1>7, <1>8, <1>9, <1>10 DEF MatcherNext

LEMMA MatcherInvariance == MatcherSpec => []MatcherInv
<1>1. MatcherInit => MatcherInv
  BY MatcherStarts
<1>2. MatcherInv /\ [MatcherNext]_matcherVars => MatcherInv'
  BY MatcherSteps
<1> QED
  BY <1>1, <1>2, PTL DEF MatcherSpec

\* A rate limit is never taken for an answer.
THEOREM LimitIsNoVerdictHolds == MatcherSpec => []LimitIsNoVerdict
<1>1. MatcherInv => LimitIsNoVerdict
  BY DEF MatcherInv, VerdictInv, LimitIsNoVerdict
<1> QED
  BY <1>1, MatcherInvariance, PTL

\* What is matched without a person looks like the file, whatever the scores of the
\* other volumes are.
THEOREM AutoPlausibleHolds == MatcherSpec => []AutoPlausible
<1>1. ASSUME MatcherInv PROVE AutoPlausible
  <2>1. verdict = NoVerdict \/ verdict = matcher.result
    BY <1>1 DEF MatcherInv, VerdictInv
  <2>2. CASE verdict = NoVerdict
    BY <2>2, NoVerdictTyped DEF AutoPlausible
  <2>3. CASE verdict = matcher.result
    BY <1>1, <2>3, Zenon DEF MatcherInv, AutoInv, AutoPlausible, Plausible
  <2> QED
    BY <2>1, <2>2, <2>3
<1> QED
  BY <1>1, MatcherInvariance, PTL

\* A volume that deserves an automatic match is not lost on the way to the verdict.
THEOREM NoWinnerLostHolds == MatcherSpec => []NoWinnerLost
<1>1. ASSUME MatcherInv PROVE NoWinnerLost
  <2>1. verdict = NoVerdict \/ verdict = matcher.result
    BY <1>1 DEF MatcherInv, VerdictInv
  <2>2. CASE verdict = NoVerdict
    BY <2>2, NoVerdictTyped DEF NoWinnerLost
  <2>3. CASE verdict = matcher.result
    BY <1>1, <2>3, Zenon DEF MatcherInv, WinnerInv, NoWinnerLost
  <2> QED
    BY <2>1, <2>2, <2>3
<1> QED
  BY <1>1, MatcherInvariance, PTL

(* ---- what one file can cost ---- *)

\* No more volumes are chosen than MAX_VOLUMES_TO_FETCH.
LEMMA CappedBounded ==
    ASSUME file \in MatchFiles, matcher \in MatcherStates
    PROVE  IsFiniteSet(Capped) /\ Cardinality(Capped) \in Nat /\ Cardinality(Capped) <= MaxFetch
<1>1. Ranked \subseteq CandidateVolumes /\ Capped \subseteq CandidateVolumes
  BY RankingTyped
<1>2. IsFiniteSet(Ranked) /\ IsFiniteSet(Capped)
  BY <1>1, MatcherAssumption, FS_Subset
<1>3. CASE Capped = {}
  BY <1>2, <1>3, FS_EmptySet, MatcherAssumption
<1>4. CASE Capped # {}
  <2> DEFINE R == {uv \in CandidateVolumes \X CandidateVolumes : Before(uv[2], uv[1])}
  <2>1. \A u, v \in CandidateVolumes : <<u, v>> \in R <=> Before(v, u)
    OBVIOUS
  <2> HIDE DEF R
  <2>2. \A u \in Capped : <<u, u>> \notin R
    BY <1>1, <2>1, BeforeOrders, Zenon
  <2>3. \A u, v, w \in Capped : <<u, v>> \in R /\ <<v, w>> \in R => <<u, w>> \in R
    <3>1. SUFFICES ASSUME NEW u \in Capped, NEW v \in Capped, NEW w \in Capped,
                          <<u, v>> \in R, <<v, w>> \in R
                   PROVE  <<u, w>> \in R
      OBVIOUS
    <3>2. Before(v, u) /\ Before(w, v)
      BY <1>1, <2>1, <3>1, Zenon
    <3> QED
      BY <1>1, <2>1, <3>2, BeforeOrders, Zenon
  <2>4. PICK last \in Capped : \A u \in Capped : <<u, last>> \notin R
    BY <1>2, <1>4, <2>2, <2>3, FirstOfMany, Zenon
  <2> DEFINE P == {u \in Ranked : Before(u, last)}
  <2>5. Capped \ {last} \subseteq P
    <3>1. ASSUME NEW u \in Capped \ {last} PROVE Before(u, last)
      BY <1>1, <2>1, <2>4, BeforeOrders, Zenon
    <3> QED
      BY <3>1, RankingTyped
  <2>6. Cardinality(P) < MaxFetch
    BY DEF Capped
  <2>7. IsFiniteSet(P) /\ Cardinality(P) \in Nat
    BY <1>2, FS_Subset, FS_CardinalityType
  <2> HIDE DEF P
  <2>8. /\ Cardinality(Capped \ {last}) <= Cardinality(P)
        /\ Cardinality(Capped) \in Nat
        /\ Cardinality(Capped \ {last}) = Cardinality(Capped) - 1
    BY <1>2, <2>5, <2>7, FS_Subset, FS_CardinalityType, FS_RemoveElement
  <2> QED
    BY <1>2, <2>6, <2>7, <2>8, MatcherAssumption, SMT
<1> QED
  BY <1>3, <1>4

Asked == IF file.id = "asked" THEN 1 ELSE 0

\* What the job has spent and has still to spend is what one file can cost.
CallInv ==
    /\ called \in Nat /\ called <= Budget
    /\ matcher.pc \in {"new", "stage1"} => called = 0
    /\ matcher.pc = "stage1" => matcher.terms = file.terms /\ file.id # "none"
    /\ matcher.pc = "hydrate" => called <= Asked
    /\ matcher.pc = "search" =>
          /\ matcher.terms \subseteq file.terms
          /\ called + Cardinality(matcher.terms) <= Cardinality(file.terms) + Asked
    /\ matcher.pc = "fetch" =>
          called + Cardinality(matcher.left) <= Cardinality(file.terms) + MaxFetch + Asked

LEMMA TermsCounted ==
    ASSUME file \in MatchFiles
    PROVE  /\ IsFiniteSet(file.terms) /\ Cardinality(file.terms) \in Nat
           /\ Asked \in 0..1 /\ MaxFetch \in Nat
<1>1. file.terms \subseteq Terms
  BY FilesTyped
<1>2. IsFiniteSet(Terms)
  <2>1. Terms = {"short"} \cup {"long"}
    BY DEF Terms
  <2> QED
    BY <2>1, FS_Singleton, FS_Union
<1> QED
  BY <1>1, <1>2, FS_Subset, FS_CardinalityType, MatcherAssumption DEF Asked

LEMMA BudgetIs ==
    /\ matcher.result.source = "id" => Budget = 2
    /\ matcher.result.source # "id" =>
          Budget = Cardinality(file.terms) + MaxFetch + Asked
  BY DEF Budget, Asked

LEMMA BudgetWillBe ==
    ASSUME file' = file
    PROVE  /\ Asked' = Asked
           /\ matcher'.result.source = "id" => Budget' = 2
           /\ matcher'.result.source # "id" =>
                 Budget' = Cardinality(file.terms) + MaxFetch + Asked
  BY DEF Budget, Asked

LEMMA CallStep ==
    ASSUME MatcherInv, CallInv, [MatcherNext]_matcherVars
    PROVE  CallInv'
<1> DEFINE Answers == {"ok", "missing", "error", "limit"}
           Calls == {"ok", "error", "limit"}
           T == Cardinality(file.terms)
<1>0. /\ file \in MatchFiles /\ matcher \in MatcherStates
      /\ matcher.result \in Verdicts /\ called \in Nat
      /\ matcher.pc \notin {"persist", "done"} => matcher.result.source = "none"
  BY NoVerdictTyped DEF MatcherInv, MatcherOK, VerdictInv, CallInv, MatcherStates
<1>a. T \in Nat /\ Asked \in 0..1 /\ MaxFetch \in Nat /\ IsFiniteSet(file.terms)
  BY <1>0, TermsCounted
<1>b. file' = file
  BY DEF MatcherNext, matcherVars, MatchFile, MatchNothing, Stage1, HydrateParent, Search,
         Fetch, Rank, Decide, PersistVerdict
<1>c. /\ Asked' = Asked /\ Cardinality(file'.terms) = T
      /\ matcher'.result.source = "id" => Budget' = 2
      /\ matcher'.result.source # "id" => Budget' = T + MaxFetch + Asked
  BY <1>b, BudgetWillBe
<1>d. matcher.result.source # "id" => Budget = T + MaxFetch + Asked
  BY BudgetIs
<1> HIDE DEF T
<1>1. CASE MatchFile
  <2>1. called' = called /\ matcher.pc = "new" /\ matcher'.result = matcher.result
        /\ \/ matcher'.pc = "search" /\ file.id = "none"
           \/ matcher'.pc = "stage1" /\ file.id # "none"
        /\ matcher'.terms = file.terms
    BY <1>0, <1>1 DEF MatchFile, MatcherStates
  <2> QED
    BY <1>0, <1>a, <1>b, <1>c, <2>1 DEF CallInv, T
<1>2. CASE MatchNothing
  <2>1. called' = called /\ matcher.pc = "new" /\ matcher'.pc = "persist"
        /\ matcher'.result = [NoVerdict EXCEPT !.status = "unmatched"]
    BY <1>0, <1>2 DEF MatchNothing, MatcherStates
  <2>2. matcher'.result.source = "none"
    BY <2>1, NoVerdictTyped
  <2> QED
    BY <1>0, <1>a, <1>c, <2>1, <2>2 DEF CallInv
<1>3. ASSUME NEW answer \in Answers, Stage1(answer) PROVE CallInv'
  <2>1. /\ matcher.pc = "stage1" /\ matcher'.pc \in {"hydrate", "limited", "search"}
        /\ matcher'.terms = matcher.terms /\ matcher'.result = matcher.result
        /\ file.id = "cached" => called' = called
        /\ file.id # "cached" => called' = called + 1
    BY <1>0, <1>3 DEF Stage1, MatchesGo, MatcherStates
  <2>2. file.id \in {"none", "cached", "asked"}
    BY <1>0, MatcherAssumption DEF File
  <2>3. called = 0 /\ matcher.terms = file.terms /\ file.id # "none"
    BY <2>1 DEF CallInv
  <2>4. called' \in Nat /\ called' <= Asked
    BY <2>1, <2>2, <2>3, SMT DEF Asked
  <2>5. called' <= Budget'
    BY <1>0, <1>a, <1>c, <2>1, <2>4
  <2> QED
    BY <1>a, <1>b, <1>c, <2>1, <2>3, <2>4, <2>5 DEF CallInv, T
<1>4. CASE HydrateParent
  <2>1. called' = called + 1 /\ matcher.pc = "hydrate" /\ matcher'.pc = "persist"
        /\ matcher'.result.source = "id"
    BY <1>0, <1>4 DEF HydrateParent, MatcherStates
  <2> QED
    BY <1>0, <1>a, <1>c, <2>1 DEF CallInv
<1>5. ASSUME NEW answer \in Calls, NEW t \in Terms, Search(t, answer) PROVE CallInv'
  <2>1. called' = called + 1 /\ matcher.pc = "search" /\ t \in matcher.terms
    BY <1>5 DEF Search
  <2>2. matcher'.result = matcher.result
        /\ \/ matcher'.pc = "limited"
           \/ matcher'.pc = "search" /\ matcher'.terms = matcher.terms \ {t}
    BY <1>0, <1>5 DEF Search, MatcherStates
  <2>3. matcher.terms \subseteq file.terms
    BY <2>1 DEF CallInv
  <2>4. /\ Cardinality(matcher.terms) \in Nat
        /\ Cardinality(matcher.terms \ {t}) = Cardinality(matcher.terms) - 1
        /\ Cardinality(matcher.terms \ {t}) \in Nat
    BY <1>a, <2>1, <2>3, FS_Subset, FS_CardinalityType, FS_RemoveElement
  <2>5. called + Cardinality(matcher.terms) <= T + Asked
    BY <2>1 DEF CallInv, T
  <2>6. called' \in Nat /\ called' + Cardinality(matcher.terms \ {t}) <= T + Asked
    BY <1>0, <1>a, <2>1, <2>4, <2>5
  <2>7. called' <= Budget'
    BY <1>0, <1>a, <1>c, <2>1, <2>2, <2>4, <2>6
  <2> QED
    BY <1>b, <1>c, <2>2, <2>3, <2>6, <2>7 DEF CallInv, T
<1>6. CASE Rank
  <2>1. called' = called /\ matcher.pc = "search" /\ matcher.terms = {}
        /\ matcher'.pc = "fetch" /\ matcher'.left = Capped
        /\ matcher'.result = matcher.result
    BY <1>0, <1>6 DEF Rank, MatcherStates
  <2>2. called + 0 <= T + Asked
    BY <2>1, FS_EmptySet DEF CallInv, T
  <2>3. Cardinality(Capped) \in Nat /\ Cardinality(Capped) <= MaxFetch
    BY <1>0, CappedBounded
  <2>4. called' + Cardinality(matcher'.left) <= T + MaxFetch + Asked
        /\ called' <= Budget'
    BY <1>0, <1>a, <1>c, <2>1, <2>2, <2>3
  <2> QED
    BY <1>0, <1>c, <2>1, <2>4 DEF CallInv
<1>7. ASSUME NEW answer \in Calls, NEW v \in CandidateVolumes, Fetch(v, answer)
      PROVE  CallInv'
  <2>1. called' = called + 1 /\ matcher.pc = "fetch" /\ v \in matcher.left
    BY <1>7 DEF Fetch
  <2>2. matcher'.result = matcher.result
        /\ \/ matcher'.pc = "limited"
           \/ matcher'.pc = "fetch" /\ matcher'.left = matcher.left \ {v}
    BY <1>0, <1>7 DEF Fetch, MatcherStates
  <2>3. matcher.left \subseteq CandidateVolumes
    BY <1>0, RankingTyped
  <2>4. /\ Cardinality(matcher.left) \in Nat
        /\ Cardinality(matcher.left \ {v}) = Cardinality(matcher.left) - 1
        /\ Cardinality(matcher.left \ {v}) \in Nat
    BY <2>1, <2>3, MatcherAssumption, FS_Subset, FS_CardinalityType, FS_RemoveElement
  <2>5. called + Cardinality(matcher.left) <= T + MaxFetch + Asked
    BY <2>1 DEF CallInv, T
  <2>6. called' \in Nat /\ called' + Cardinality(matcher.left \ {v}) <= T + MaxFetch + Asked
    BY <1>0, <1>a, <2>1, <2>4, <2>5
  <2>7. called' <= Budget'
    BY <1>0, <1>a, <1>c, <2>1, <2>2, <2>4, <2>6
  <2> QED
    BY <1>c, <2>2, <2>6, <2>7 DEF CallInv
<1>8. CASE Decide
  <2>1. called' = called /\ matcher.pc = "fetch" /\ matcher'.pc = "persist"
        /\ matcher'.result = Decision
    BY <1>0, <1>8 DEF Decide, MatcherStates
  <2>2. matcher'.result.source = "filename"
    BY <2>1, DecisionRight DEF MatcherInv
  <2> QED
    BY <1>0, <1>c, <1>d, <2>1, <2>2 DEF CallInv
<1>9. CASE PersistVerdict
  <2>1. called' = called /\ matcher'.pc = "done" /\ matcher'.result = matcher.result
    BY <1>0, <1>9 DEF PersistVerdict, MatchesGo, MatcherStates
  <2>2. Budget' = Budget
    BY <1>c, <2>1, BudgetIs DEF T
  <2> QED
    BY <1>0, <2>1, <2>2 DEF CallInv
<1>10. CASE UNCHANGED matcherVars
  BY <1>10, <1>c DEF matcherVars, CallInv, Budget, T
<1> QED
  BY <1>1, <1>2, <1>3, <1>4, <1>5, <1>6, <1>7, <1>8, <1>9, <1>10 DEF MatcherNext

\* A job's state is of its type; above all, whatever ComicVine answers and in whatever
\* order, one file costs no more calls than its budget.
THEOREM MatcherTyped == MatcherSpec => []MatcherTypes
<1>1. ASSUME MatcherInit PROVE CallInv
  <2>1. file \in MatchFiles /\ called = 0 /\ matcher.pc = "new"
    BY <1>1 DEF MatcherInit
  <2>2. matcher.result.source # "id"
    BY <1>1, NoVerdictTyped DEF MatcherInit
  <2>3. Budget = Cardinality(file.terms) + MaxFetch + Asked
    BY <2>2, BudgetIs
  <2> QED
    BY <2>1, <2>3, TermsCounted DEF CallInv
<1>2. MatcherInv /\ MatcherInv' /\ CallInv /\ [MatcherNext]_matcherVars => CallInv'
  BY CallStep
<1>3. ASSUME MatcherInv, CallInv PROVE MatcherTypes
  <2>1. Budget \in Nat
    BY <1>3, BudgetIs, TermsCounted DEF MatcherInv, MatcherOK
  <2>2. called \in 0..Budget
    BY <1>3, <2>1 DEF CallInv
  <2> QED
    BY <1>3, <2>2 DEF MatcherTypes, MatcherInv, MatcherOK
<1> QED
  BY <1>1, <1>2, <1>3, MatcherInvariance, PTL DEF MatcherSpec

(* ---- the review queue ---- *)

QueueOK ==
    /\ waiting \subseteq QueueFiles /\ band \subseteq QueueFiles
    /\ series \in [QueueFiles -> Series]
    /\ listing \in Listings /\ screen \in Screens

\* Between the two looks: the files picked are whole groups, of those that waited then.
PickedWhole ==
    (listing.pc = "picked" /\ listing.still) =>
        /\ \A f \in listing.ids : f \in band /\ series[f] \in listing.keys
        /\ \A f \in waiting \cap band : series[f] \in listing.keys => f \in listing.ids
        /\ ~listing.cap => waiting \cap band \subseteq listing.ids
        /\ listing.ids = {} => waiting \cap band = {}

QueueInv == QueueOK /\ PickedWhole /\ GroupsWhole

LEMMA BucketsFinite ==
    ASSUME QueueOK
    PROVE  /\ IsFiniteSet(Buckets)
           /\ \A s \in Buckets : IsFiniteSet(Bucket(s)) /\ Cardinality(Bucket(s)) \in Nat
<1> DEFINE S == waiting \cap band
           f == [x \in S |-> series[x]]
<1>1. IsFiniteSet(S) /\ S \subseteq QueueFiles
  BY ReviewQueueAssumption, FS_Subset DEF QueueOK
<1>2. f \in Surjection(S, Buckets)
  BY <1>1, SMT DEF QueueOK, Buckets, Bucket, Surjection
<1>3. IsFiniteSet(Buckets)
  BY <1>1, <1>2, FS_Surjection
<1>4. ASSUME NEW s \in Buckets
      PROVE  IsFiniteSet(Bucket(s)) /\ Cardinality(Bucket(s)) \in Nat
  <2>1. Bucket(s) \subseteq S
    BY DEF Bucket
  <2> QED
    BY <1>1, <2>1, FS_Subset, FS_CardinalityType
<1> QED
  BY <1>3, <1>4

\* Something is selected while something waits: the first group, whatever its size.
LEMMA FirstSelected ==
    ASSUME QueueOK, Buckets # {}
    PROVE  Selected # {}
<1> DEFINE R == {st \in Buckets \X Buckets : ~BiggerFirst(st[2], st[1])}
<1>1. \A s, t \in Buckets : <<s, t>> \in R <=> ~BiggerFirst(t, s)
  OBVIOUS
<1> HIDE DEF R
<1>2. \A s \in Buckets : s \in Nat /\ Cardinality(Bucket(s)) \in Nat
  BY BucketsFinite, ReviewQueueAssumption DEF Buckets
<1>3. /\ \A s \in Buckets : BiggerFirst(s, s)
      /\ \A s, t, u \in Buckets : BiggerFirst(s, u) => BiggerFirst(t, u) \/ BiggerFirst(s, t)
  BY <1>2, SMT DEF BiggerFirst
<1>4. \A s \in Buckets : <<s, s>> \notin R
  BY <1>1, <1>3, Zenon
<1>5. \A s, t, u \in Buckets : <<s, t>> \in R /\ <<t, u>> \in R => <<s, u>> \in R
  <2>1. SUFFICES ASSUME NEW s \in Buckets, NEW t \in Buckets, NEW u \in Buckets,
                        <<s, t>> \in R, <<t, u>> \in R
                 PROVE  <<s, u>> \in R
    OBVIOUS
  <2>2. ~BiggerFirst(t, s) /\ ~BiggerFirst(u, t)
    BY <1>1, <2>1, Zenon
  <2>3. ~BiggerFirst(u, s)
    BY <1>3, <2>2, Zenon
  <2> QED
    BY <1>1, <2>3, Zenon
<1>6. PICK s \in Buckets : \A t \in Buckets : <<t, s>> \notin R
  BY <1>4, <1>5, BucketsFinite, FirstOfMany, Zenon
<1>7. \A t \in Buckets : BiggerFirst(s, t)
  BY <1>1, <1>6, Zenon
<1> QED
  BY <1>7 DEF Selected

LEMMA QueueStarts == ReviewQueueInit => QueueInv
<1> SUFFICES ASSUME ReviewQueueInit PROVE QueueInv
  OBVIOUS
<1> USE DEF ReviewQueueInit
<1>1. listing \in Listings /\ screen \in Screens
  BY DEF Listings, Screens
<1>2. band \subseteq QueueFiles
  OBVIOUS
<1>3. listing.pc = "idle" /\ ~screen.still
  OBVIOUS
<1> QED
  BY <1>1, <1>2, <1>3 DEF QueueInv, QueueOK, PickedWhole, GroupsWhole

LEMMA QueueSteps ==
    ASSUME QueueInv, [ReviewQueueNext]_reviewQueueVars
    PROVE  QueueInv'
<1>0. /\ waiting \subseteq QueueFiles /\ band \subseteq QueueFiles
      /\ series \in [QueueFiles -> Series]
      /\ listing \in Listings /\ screen \in Screens
      /\ QueueOK /\ PickedWhole /\ GroupsWhole
  BY DEF QueueInv, QueueOK
<1>1. CASE PickGroups
  <2> DEFINE ids == UNION {Bucket(s) : s \in Selected}
  <2>1. /\ waiting' = waiting /\ band' = band /\ series' = series /\ screen' = screen
        /\ listing'.pc = "picked" /\ listing'.keys = Selected /\ listing'.ids = ids
    BY <1>1 DEF PickGroups
  <2>2. listing'.cap <=> Selected # Buckets
    BY <1>1 DEF PickGroups
  <2>3. Selected \subseteq Buckets /\ Buckets \subseteq Series
    BY DEF Selected, Buckets
  <2>4. ids \subseteq waiting \cap band
    BY DEF Bucket
  <2>5. \A f : f \in ids <=> f \in waiting \cap band /\ series[f] \in Selected
    BY DEF Bucket
  <2>6. \A f \in waiting \cap band : series[f] \in Buckets
    BY <1>0 DEF Buckets, Bucket
  <2> HIDE DEF ids
  <2>7. listing' \in Listings
    <3>1. (Selected # Buckets) \in BOOLEAN /\ TRUE \in BOOLEAN
      BY Zenon
    <3>2. Selected \in SUBSET Series /\ ids \in SUBSET QueueFiles
      BY <1>0, <2>3, <2>4
    <3>3. listing' = [pc |-> "picked", keys |-> Selected, cap |-> Selected # Buckets,
                      ids |-> ids, still |-> TRUE]
      BY <1>1, Zenon DEF PickGroups, ids
    <3> QED
      BY <3>1, <3>2, <3>3, Zenon DEF Listings
  <2>8. ids = {} => waiting \cap band = {}
    <3>1. SUFFICES ASSUME NEW f \in waiting \cap band PROVE ids # {}
      OBVIOUS
    <3>2. PICK s \in Selected : TRUE
      BY <1>0, <2>6, FirstSelected
    <3>3. Bucket(s) # {}
      BY <2>3 DEF Buckets
    <3> QED
      BY <2>5, <3>2, <3>3 DEF Bucket
  <2>9. PickedWhole'
    BY <2>1, <2>2, <2>5, <2>6, <2>8 DEF PickedWhole
  <2> QED
    BY <1>0, <2>1, <2>7, <2>9 DEF QueueInv, QueueOK, GroupsWhole
<1>2. CASE ShowGroups
  <2> DEFINE rows == {f \in listing.ids \cap waiting \cap band : series[f] \in listing.keys}
  <2>1. /\ waiting' = waiting /\ band' = band /\ series' = series
        /\ listing.pc = "picked" /\ listing'.pc = "idle" /\ listing' \in Listings
    BY <1>0, <1>2 DEF ShowGroups, Listings
  <2>2. screen' = [rows |-> rows, cap |-> listing.cap, done |-> listing.ids \ waiting,
                   still |-> listing.still]
    BY <1>2, Zenon DEF ShowGroups
  <2>3. /\ listing.ids \subseteq QueueFiles
        /\ listing.cap \in BOOLEAN /\ listing.still \in BOOLEAN
    BY <1>0 DEF Listings
  <2>4. rows \in SUBSET QueueFiles /\ listing.ids \ waiting \in SUBSET QueueFiles
    BY <2>3
  <2>5. \A f : f \in rows <=> f \in listing.ids /\ f \in waiting \cap band
                              /\ series[f] \in listing.keys
    OBVIOUS
  <2> HIDE DEF rows
  <2>6. screen' \in Screens
    BY <2>2, <2>3, <2>4, Zenon DEF Screens
  <2>7. screen'.rows = rows /\ screen'.done = listing.ids \ waiting
        /\ screen'.still = listing.still /\ screen'.cap = listing.cap
    BY <2>2, Zenon
  <2>8. GroupsWhole'
    <3>1. SUFFICES ASSUME listing.still
                   PROVE  /\ \A f \in rows : \A g \in waiting \cap band :
                                series[g] = series[f] => g \in rows
                          /\ ~listing.cap => waiting \cap band \subseteq rows
                          /\ (rows = {} /\ listing.ids \subseteq waiting) => waiting \cap band = {}
      BY <2>1, <2>7 DEF GroupsWhole
    <3>2. /\ \A f \in listing.ids : f \in band /\ series[f] \in listing.keys
          /\ \A f \in waiting \cap band : series[f] \in listing.keys => f \in listing.ids
          /\ ~listing.cap => waiting \cap band \subseteq listing.ids
          /\ listing.ids = {} => waiting \cap band = {}
      BY <1>0, <2>1, <3>1 DEF PickedWhole
    <3> QED
      BY <2>5, <3>2
  <2>9. PickedWhole'
    BY <2>1 DEF PickedWhole
  <2> QED
    BY <1>0, <2>1, <2>6, <2>8, <2>9 DEF QueueInv, QueueOK
<1>3. ASSUME NEW f \in QueueFiles, SettleOne(f) PROVE QueueInv'
  <2>1. /\ waiting' = waiting \ {f} /\ band' = band /\ series' = series
        /\ listing' = listing
        /\ screen' \in Screens /\ screen'.rows = screen.rows /\ screen'.cap = screen.cap
        /\ screen'.still = screen.still /\ screen'.done # {}
    BY <1>0, <1>3 DEF SettleOne, Screens
  <2>2. QueueOK'
    BY <1>0, <2>1 DEF QueueOK
  <2>3. PickedWhole'
    BY <1>0, <2>1 DEF PickedWhole
  <2>4. GroupsWhole'
    BY <1>0, <2>1 DEF GroupsWhole
  <2> QED
    BY <2>2, <2>3, <2>4 DEF QueueInv
<1>4. ASSUME NEW f \in QueueFiles,
             Arrive(f) \/ \E s \in Series : Rename(f, s)
      PROVE  QueueInv'
  <2>1. /\ band' = band /\ listing' \in Listings /\ screen' \in Screens
        /\ ~listing'.still /\ ~screen'.still
    BY <1>0, <1>4 DEF Arrive, Rename, Stir, Listings, Screens
  <2>2. waiting' \subseteq QueueFiles /\ series' \in [QueueFiles -> Series]
    BY <1>0, <1>4 DEF Arrive, Rename
  <2> QED
    BY <1>0, <2>1, <2>2 DEF QueueInv, QueueOK, PickedWhole, GroupsWhole
<1>5. CASE UNCHANGED reviewQueueVars
  BY <1>0, <1>5 DEF reviewQueueVars, QueueInv, QueueOK, PickedWhole, GroupsWhole
<1> QED
  BY <1>1, <1>2, <1>3, <1>4, <1>5 DEF ReviewQueueNext

LEMMA QueueInvariance == ReviewQueueSpec => []QueueInv
  BY QueueStarts, QueueSteps, PTL DEF ReviewQueueSpec

\* The queue's state is of its type.
THEOREM ReviewQueueTyped == ReviewQueueSpec => []ReviewQueueTypes
<1>1. QueueInv => ReviewQueueTypes
  BY DEF QueueInv, QueueOK, ReviewQueueTypes
<1> QED
  BY <1>1, QueueInvariance, PTL

\* Groups are shown whole or not at all, and never none while something waits.
THEOREM GroupsWholeHolds == ReviewQueueSpec => []GroupsWhole
<1>1. QueueInv => GroupsWhole
  BY DEF QueueInv
<1> QED
  BY <1>1, QueueInvariance, PTL

(* ---- files that claim the same issue ---- *)

LEMMA ScoreTyped ==
    ASSUME NEW f \in DupFiles, measure[f] \in Measures
    PROVE  DOMAIN Score(f) = 1..7 /\ \A k \in 1..7 : Score(f)[k] \in Nat
<1> DEFINE m == measure[f]
<1>1. /\ m.pages \in Nat /\ m.info \in Nat /\ m.interior \in Nat /\ m.cover \in Nat
      /\ m.size \in Nat /\ m.format \in Nat /\ m.scanned \in Nat
  BY DEF Measures
<1>2. PageBucket(f) \in Nat /\ ResolutionArea(f) \in Nat
  BY <1>1 DEF PageBucket, ResolutionArea
<1>3. Score(f) = <<PageBucket(f), m.info, ResolutionArea(f), m.size, m.format, m.pages,
                   m.scanned>>
  BY DEF Score
<1> HIDE DEF m
<1>4. Score(f) \in Nat \X Nat \X Nat \X Nat \X Nat \X Nat \X Nat
  BY <1>1, <1>2, <1>3
<1> QED
  BY <1>1, <1>2, <1>3

LEMMA ScoresOrder ==
    ASSUME NEW s, NEW t, DOMAIN s = 1..7, DOMAIN t = 1..7,
           \A k \in 1..7 : s[k] \in Nat /\ t[k] \in Nat,
           NEW n \in 1..7, s[n] > t[n], \A k \in 1..(n - 1) : s[k] = t[k],
           NEW m \in 1..7, t[m] > s[m], \A k \in 1..(m - 1) : t[k] = s[k]
    PROVE  FALSE
<1>1. CASE n < m
  <2>1. n \in 1..(m - 1)
    BY <1>1
  <2> QED
    BY <2>1
<1>2. CASE m < n
  <2>1. m \in 1..(n - 1)
    BY <1>2
  <2> QED
    BY <2>1
<1>3. CASE m = n
  BY <1>3
<1> QED
  BY <1>1, <1>2, <1>3

LEMMA OutranksOneWay ==
    ASSUME NEW f \in DupFiles, NEW g \in DupFiles,
           measure[f] \in Measures, measure[g] \in Measures,
           Outranks(f, g), Outranks(g, f)
    PROVE  FALSE
<1>1. /\ DOMAIN Score(f) = 1..7 /\ DOMAIN Score(g) = 1..7
      /\ \A k \in 1..7 : Score(f)[k] \in Nat /\ Score(g)[k] \in Nat
  BY ScoreTyped
<1>2. PICK n \in 1..7 : /\ Score(f)[n] > Score(g)[n]
                        /\ \A k \in 1..(n - 1) : Score(f)[k] = Score(g)[k]
  BY <1>1 DEF Outranks
<1>3. PICK m \in 1..7 : /\ Score(g)[m] > Score(f)[m]
                        /\ \A k \in 1..(m - 1) : Score(g)[k] = Score(f)[k]
  BY <1>1 DEF Outranks
<1> QED
  BY <1>1, <1>2, <1>3, ScoresOrder

LEMMA OutranksSame ==
    ASSUME NEW f, NEW g, measure'[f] = measure[f], measure'[g] = measure[g], Outranks(f, g)
    PROVE  Outranks(f, g)'
<1>1. Score(f)' = Score(f)
  BY Zenon DEF Score, PageBucket, ResolutionArea
<1>2. Score(g)' = Score(g)
  BY Zenon DEF Score, PageBucket, ResolutionArea
<1> QED
  BY <1>1, <1>2, Zenon DEF Outranks

LEMMA RanksSame ==
    ASSUME measure' = measure
    PROVE  \A f, g : Outranks(f, g)' <=> Outranks(f, g)
<1>1. ASSUME NEW f PROVE Score(f)' = Score(f)
  BY Zenon DEF Score, PageBucket, ResolutionArea
<1>2. ASSUME NEW f, NEW g PROVE Outranks(f, g)' <=> Outranks(f, g)
  <2>1. Score(f)' = Score(f) /\ Score(g)' = Score(g)
    BY <1>1
  <2> QED
    BY <2>1, Zenon DEF Outranks
<1> QED
  BY <1>2

DupOK ==
    /\ measure \in [DupFiles -> Measures]
    /\ claims \in [DupFiles -> DupIssues \cup {NoClaim}]
    /\ covered \subseteq DupIssues /\ calm \subseteq DupIssues
    /\ hydrating \subseteq {VolumeOf[i] : i \in DupIssues} \ {0}
    /\ inspector \in [Admins -> Inspectors]

\* A group on a page: a choice; while its issue is calm, the best file is the one to
\* keep, and a file in it whose issue is calm has not been moved since.
GroupRight(g) ==
    /\ g.keeper \in g.files /\ Cardinality(g.files) >= 2
    /\ g.issue \in calm => BestOf(g.keeper, g.issue)
    /\ \A f \in g.files : claims[f] \in calm => g.issue = claims[f]

PagesRight == \A a \in Admins : \A g \in inspector[a].groups : GroupRight(g)

\* After the first look: the issues with most files, up to the limit.
CountedRight ==
    \A a \in Admins : LET page == inspector[a] IN
        (page.pc = "counted" /\ page.still) =>
            /\ page.listed \subseteq Multiple
            /\ \A i \in Multiple \ page.listed :
                  /\ Cardinality(page.listed) = GroupLimit
                  /\ \A j \in page.listed :
                        Cardinality(Claiming(j)) >= Cardinality(Claiming(i))

DupInv == DupOK /\ LastCopyKept /\ PagesRight /\ CountedRight /\ GroupsAccounted

LEMMA ClaimingCounted ==
    ASSUME NEW i
    PROVE  IsFiniteSet(Claiming(i)) /\ Cardinality(Claiming(i)) \in Nat
           /\ Claiming(i) \subseteq DupFiles
<1>1. Claiming(i) \subseteq DupFiles
  BY DEF Claiming
<1> QED
  BY <1>1, DuplicatesAssumption, FS_Subset, FS_CardinalityType

\* While an issue is calm, only its best file can be recommended.
LEMMA KeeperIsBest ==
    ASSUME DupOK, LastCopyKept, NEW i \in calm, NEW k \in Keepers(Claiming(i))
    PROVE  BestOf(k, i)
<1>1. PICK b \in DupFiles : BestOf(b, i)
  BY DEF LastCopyKept
<1>2. k \in DupFiles /\ claims[k] = i /\ ~Outranks(b, k)
  BY <1>1 DEF Keepers, Claiming, BestOf
<1>3. k = b
  BY <1>1, <1>2 DEF BestOf
<1> QED
  BY <1>1, <1>3

LEMMA RenderedRight ==
    ASSUME DupOK, LastCopyKept, NEW S \in SUBSET DupIssues, \A i \in S : Competing(i),
           NEW groups \in Rendered(S)
    PROVE  /\ groups \subseteq Groups
           /\ \A g \in groups : GroupRight(g)
           /\ \A i \in S : \E g \in groups : g.issue = i /\ g.files = Claiming(i)
<1>1. PICK k \in [S -> DupFiles] :
        /\ \A i \in S : k[i] \in Keepers(Claiming(i))
        /\ groups = {[issue |-> i, files |-> Claiming(i), keeper |-> k[i]] : i \in S}
  BY DEF Rendered
<1>2. \A i \in S : [issue |-> i, files |-> Claiming(i), keeper |-> k[i]] \in Groups
  BY ClaimingCounted, <1>1 DEF Groups
<1>3. groups \subseteq Groups
  BY <1>1, <1>2
<1>4. ASSUME NEW g \in groups PROVE GroupRight(g)
  <2>1. PICK i \in S : g = [issue |-> i, files |-> Claiming(i), keeper |-> k[i]]
    BY <1>1, <1>4
  <2>2. g.issue = i /\ g.files = Claiming(i) /\ g.keeper = k[i]
    BY <2>1
  <2>3. g.keeper \in g.files
    BY <1>1, <2>2 DEF Keepers
  <2>4. Cardinality(g.files) >= 2
    BY <2>2 DEF Competing
  <2>5. g.issue \in calm => BestOf(g.keeper, g.issue)
    BY <1>1, <2>2, KeeperIsBest
  <2>6. \A f \in g.files : claims[f] = g.issue
    BY <2>2 DEF Claiming
  <2> QED
    BY <2>3, <2>4, <2>5, <2>6 DEF GroupRight
<1>5. ASSUME NEW i \in S PROVE \E g \in groups : g.issue = i /\ g.files = Claiming(i)
  <2>1. [issue |-> i, files |-> Claiming(i), keeper |-> k[i]] \in groups
    BY <1>1
  <2> QED
    BY <2>1
<1> QED
  BY <1>3, <1>4, <1>5

LEMMA BestStays ==
    ASSUME NEW f, NEW h \in DupFiles, NEW j, BestOf(h, j), h # f, claims'[f] # j,
           \A x \in DupFiles \ {f} : claims'[x] = claims[x] /\ measure'[x] = measure[x]
    PROVE  BestOf(h, j)'
<1>1. claims'[h] = j
  BY DEF BestOf
<1>2. ASSUME NEW x \in DupFiles \ {h}, claims'[x] = j PROVE Outranks(h, x)'
  <2>1. x # f /\ claims[x] = j /\ measure'[x] = measure[x] /\ measure'[h] = measure[h]
    BY <1>2
  <2>2. Outranks(h, x)
    BY <1>2, <2>1 DEF BestOf
  <2> QED
    BY <2>1, <2>2, OutranksSame
<1> QED
  BY <1>1, <1>2 DEF BestOf

\* One file is moved, taken from its issue or scanned, and it is not the best of an
\* issue that stays calm.
LEMMA OneTouched ==
    ASSUME DupOK, LastCopyKept, NEW f \in DupFiles, calm' \subseteq calm,
           claims'[f] \notin calm',
           \A x \in DupFiles \ {f} : claims'[x] = claims[x] /\ measure'[x] = measure[x],
           \A j \in calm' : ~BestOf(f, j)
    PROVE  /\ LastCopyKept'
           /\ \A g : g.files \subseteq DupFiles /\ GroupRight(g) => GroupRight(g)'
<1>1. ASSUME NEW h \in DupFiles, NEW j \in calm', BestOf(h, j) PROVE BestOf(h, j)'
  <2>1. h # f /\ claims'[f] # j
    BY <1>1
  <2> QED
    BY <1>1, <2>1, BestStays
<1>2. LastCopyKept'
  BY <1>1 DEF LastCopyKept
<1>3. ASSUME NEW g, g.files \subseteq DupFiles, GroupRight(g) PROVE GroupRight(g)'
  <2>1. g.keeper \in g.files /\ Cardinality(g.files) >= 2
    BY <1>3 DEF GroupRight
  <2>2. g.issue \in calm' => BestOf(g.keeper, g.issue)'
    <3>1. g.keeper \in DupFiles
      BY <1>3, <2>1
    <3>2. g.issue \in calm' => BestOf(g.keeper, g.issue)
      BY <1>3 DEF GroupRight
    <3> QED
      BY <1>1, <3>1, <3>2
  <2>3. ASSUME NEW x \in g.files, claims'[x] \in calm' PROVE g.issue = claims'[x]
    <3>1. x # f /\ x \in DupFiles
      BY <1>3, <2>3
    <3> QED
      BY <1>3, <2>3, <3>1 DEF GroupRight
  <2> QED
    BY <2>1, <2>2, <2>3 DEF GroupRight
<1> QED
  BY <1>2, <1>3

LEMMA DuplicatesStart == DuplicatesInit => DupInv
<1> SUFFICES ASSUME DuplicatesInit PROVE DupInv
  OBVIOUS
<1> USE DEF DuplicatesInit
<1>1. Blank \in Inspectors /\ Blank.pc = "closed" /\ Blank.groups = {}
  BY DEF Blank, Inspectors
<1>2. \A a \in Admins : inspector[a] = Blank
  OBVIOUS
<1>3. inspector \in [Admins -> Inspectors]
  BY <1>1
<1>4. measure \in [DupFiles -> Measures] /\ claims \in [DupFiles -> DupIssues \cup {NoClaim}]
  BY DuplicatesAssumption
<1>5. calm \subseteq DupIssues /\ covered \subseteq DupIssues /\ hydrating = {}
  OBVIOUS
<1>6. DupOK
  BY <1>3, <1>4, <1>5, Zenon DEF DupOK
<1>7. LastCopyKept
  BY DEF LastCopyKept
<1>8. PagesRight /\ CountedRight /\ GroupsAccounted
  BY <1>1, <1>2 DEF PagesRight, CountedRight, GroupsAccounted
<1> QED
  BY <1>6, <1>7, <1>8 DEF DupInv

\* A page is shown to one administrator, from matches that are as they were.
LEMMA PageShown ==
    ASSUME DupInv, NEW a \in Admins, NEW page \in Inspectors,
           inspector' = [inspector EXCEPT ![a] = page],
           measure' = measure, claims' = claims, covered' = covered, calm' = calm,
           hydrating' \subseteq {VolumeOf[i] : i \in DupIssues} \ {0},
           \A g \in page.groups : GroupRight(g),
           page.pc = "counted" =>
              /\ page.listed \subseteq Multiple
              /\ \A i \in Multiple \ page.listed :
                    /\ Cardinality(page.listed) = GroupLimit
                    /\ \A j \in page.listed :
                          Cardinality(Claiming(j)) >= Cardinality(Claiming(i)),
           (page.pc = "listed" /\ page.still) =>
              \A i \in Multiple :
                 \/ \E g \in page.groups : g.issue = i /\ g.files = Claiming(i)
                 \/ VolumeOf[i] = 0 /\ i \notin covered
                 \/ VolumeOf[i] \in page.deferred
                 \/ /\ i \notin page.listed /\ Cardinality(page.listed) = GroupLimit
                    /\ \A j \in page.listed :
                          Cardinality(Claiming(j)) >= Cardinality(Claiming(i))
    PROVE  DupInv'
<1>0. DupOK /\ LastCopyKept /\ PagesRight /\ CountedRight /\ GroupsAccounted
  BY DEF DupInv
<1>1. inspector' \in [Admins -> Inspectors] /\ inspector'[a] = page
      /\ \A b \in Admins \ {a} : inspector'[b] = inspector[b]
  BY <1>0 DEF DupOK
<1>2. DupOK'
  BY <1>0, <1>1, Zenon DEF DupOK
<1>3. /\ \A i : Claiming(i)' = Claiming(i)
      /\ Multiple' = Multiple
      /\ \A g : GroupRight(g)' <=> GroupRight(g)
      /\ LastCopyKept' <=> LastCopyKept
  <2>1. \A i : Claiming(i)' = Claiming(i)
    BY Zenon DEF Claiming
  <2>2. Multiple' = Multiple
    BY <2>1, Zenon DEF Multiple
  <2>3. \A f, g : Outranks(f, g)' <=> Outranks(f, g)
    BY RanksSame
  <2>4. \A f, i : BestOf(f, i)' <=> BestOf(f, i)
    BY <2>3, Zenon DEF BestOf
  <2>5. \A g : GroupRight(g)' <=> GroupRight(g)
    BY <2>4, Zenon DEF GroupRight
  <2>6. LastCopyKept' <=> LastCopyKept
    BY <2>4, Zenon DEF LastCopyKept
  <2> QED
    BY <2>1, <2>2, <2>5, <2>6, Zenon
<1>4. PagesRight'
  BY <1>0, <1>1, <1>3, Zenon DEF PagesRight
<1>5. CountedRight'
  <2>1. SUFFICES ASSUME NEW b \in Admins, inspector'[b].pc = "counted", inspector'[b].still
        PROVE /\ inspector'[b].listed \subseteq Multiple
              /\ \A i \in Multiple \ inspector'[b].listed :
                    /\ Cardinality(inspector'[b].listed) = GroupLimit
                    /\ \A j \in inspector'[b].listed :
                          Cardinality(Claiming(j)) >= Cardinality(Claiming(i))
    BY <1>3, Zenon DEF CountedRight
  <2>2. CASE b = a
    BY <1>1, <2>1, <2>2, Zenon
  <2>3. CASE b # a
    BY <1>0, <1>1, <2>1, <2>3, Zenon DEF CountedRight
  <2> QED
    BY <2>2, <2>3
<1>6. GroupsAccounted'
  <2>1. SUFFICES ASSUME NEW b \in Admins, inspector'[b].pc = "listed", inspector'[b].still,
                        NEW i \in Multiple
        PROVE \/ \E g \in inspector'[b].groups : g.issue = i /\ g.files = Claiming(i)
              \/ VolumeOf[i] = 0 /\ i \notin covered
              \/ VolumeOf[i] \in inspector'[b].deferred
              \/ /\ i \notin inspector'[b].listed
                 /\ Cardinality(inspector'[b].listed) = GroupLimit
                 /\ \A j \in inspector'[b].listed :
                       Cardinality(Claiming(j)) >= Cardinality(Claiming(i))
    BY <1>3, Zenon DEF GroupsAccounted
  <2>2. CASE b = a
    BY <1>1, <2>1, <2>2, Zenon
  <2>3. CASE b # a
    BY <1>0, <1>1, <2>1, <2>3, Zenon DEF GroupsAccounted
  <2> QED
    BY <2>2, <2>3
<1> QED
  BY <1>0, <1>2, <1>3, <1>4, <1>5, <1>6 DEF DupInv

LEMMA FewestOf ==
    ASSUME NEW m \in Nat, NEW n \in Nat
    PROVE  Min({m, n}) \in {m, n} /\ Min({m, n}) <= m /\ Min({m, n}) <= n
<1>1. \E x \in {m, n} : \A y \in {m, n} : x <= y
  <2>1. CASE m <= n
    BY <2>1
  <2>2. CASE n < m
    BY <2>2
  <2> QED
    BY <2>1, <2>2
<1> QED
  BY <1>1 DEF Min

\* Either all issues that several files claim are listed, or as many as the limit.
LEMMA CountedAll ==
    ASSUME NEW S \in kSubset(Min({GroupLimit, Cardinality(Multiple)}), Multiple)
    PROVE  S \subseteq Multiple /\ (Multiple \ S # {} => Cardinality(S) = GroupLimit)
<1>1. IsFiniteSet(Multiple) /\ Cardinality(Multiple) \in Nat /\ GroupLimit \in Nat
  <2>1. Multiple \subseteq DupIssues
    BY DEF Multiple
  <2> QED
    BY <2>1, DuplicatesAssumption, FS_Subset, FS_CardinalityType
<1>2. S \subseteq Multiple /\ Cardinality(S) = Min({GroupLimit, Cardinality(Multiple)})
  BY DEF kSubset
<1>3. Cardinality(S) \in {GroupLimit, Cardinality(Multiple)}
  BY <1>1, <1>2, FewestOf
<1>4. Cardinality(S) = Cardinality(Multiple) => S = Multiple
  BY <1>1, <1>2, FS_Subset
<1> QED
  BY <1>2, <1>3, <1>4

LEMMA CountStep ==
    ASSUME DupInv, NEW a \in Admins, CountGroups(a)
    PROVE  DupInv'
<1>1. PICK S \in kSubset(Min({GroupLimit, Cardinality(Multiple)}), Multiple) :
        /\ \A i \in S, j \in Multiple \ S :
              Cardinality(Claiming(i)) >= Cardinality(Claiming(j))
        /\ inspector' = [inspector EXCEPT ![a] = [pc |-> "counted", listed |-> S,
              groups |-> {}, deferred |-> {}, still |-> TRUE]]
  BY DEF CountGroups, ShowPage
<1>2. S \subseteq Multiple /\ (Multiple \ S # {} => Cardinality(S) = GroupLimit)
  BY CountedAll
<1> DEFINE page == [pc |-> "counted", listed |-> S, groups |-> {}, deferred |-> {},
                    still |-> TRUE]
<1>3. page \in Inspectors
  <2>1. S \subseteq DupIssues
    BY <1>2 DEF Multiple
  <2> QED
    BY <2>1 DEF Inspectors
<1>4. page.pc = "counted" /\ page.listed = S /\ page.groups = {}
  OBVIOUS
<1>5. inspector' = [inspector EXCEPT ![a] = page]
  BY <1>1
<1>6. /\ measure' = measure /\ claims' = claims /\ covered' = covered /\ calm' = calm
      /\ hydrating' \subseteq {VolumeOf[i] : i \in DupIssues} \ {0}
  BY DEF CountGroups, DupInv, DupOK
<1> HIDE DEF page
<1>7. \A g \in page.groups : GroupRight(g)
  BY <1>4
<1>8. /\ page.listed \subseteq Multiple
      /\ \A i \in Multiple \ page.listed :
            /\ Cardinality(page.listed) = GroupLimit
            /\ \A j \in page.listed : Cardinality(Claiming(j)) >= Cardinality(Claiming(i))
  BY <1>1, <1>2, <1>4
<1>9. page.pc # "listed"
  BY <1>4
<1> QED
  BY <1>3, <1>5, <1>6, <1>7, <1>8, <1>9, PageShown, Zenon

LEMMA BuildStep ==
    ASSUME DupInv, NEW a \in Admins, BuildGroups(a)
    PROVE  DupInv'
<1> DEFINE S == {i \in inspector[a].listed : Competing(i)}
           old == inspector[a]
<1>1. PICK groups \in Rendered(S \cap covered) :
        inspector' = [inspector EXCEPT ![a] = [pc |-> "listed", listed |-> old.listed,
              groups |-> groups, deferred |-> Deferred(S), still |-> old.still]]
  BY DEF BuildGroups, ShowPage
<1>2. /\ old.pc = "counted" /\ hydrating' = hydrating \cup Deferred(S)
      /\ measure' = measure /\ claims' = claims /\ covered' = covered /\ calm' = calm
  BY DEF BuildGroups
<1>3. DupOK /\ LastCopyKept /\ CountedRight
  BY DEF DupInv
<1>4. old \in Inspectors
  BY <1>3 DEF DupOK
<1>5. old.listed \subseteq DupIssues /\ old.still \in BOOLEAN
  BY <1>4 DEF Inspectors
<1>6. S \subseteq DupIssues /\ \A i \in S : Competing(i)
  BY <1>5
<1>7. /\ groups \subseteq Groups
      /\ \A g \in groups : GroupRight(g)
      /\ \A i \in S \cap covered : \E g \in groups : g.issue = i /\ g.files = Claiming(i)
  BY <1>3, <1>6, RenderedRight
<1>8. Deferred(S) \subseteq {VolumeOf[i] : i \in DupIssues} \ {0} /\ Deferred(S) \subseteq Nat
  BY <1>6, DuplicatesAssumption DEF Deferred
<1> DEFINE page == [pc |-> "listed", listed |-> old.listed, groups |-> groups,
                    deferred |-> Deferred(S), still |-> old.still]
<1>9. /\ page.pc = "listed" /\ page.listed = old.listed /\ page.groups = groups
      /\ page.deferred = Deferred(S) /\ page.still = old.still
  BY Zenon
<1>10. page \in Inspectors
  BY <1>5, <1>7, <1>8, Zenon DEF Inspectors
<1>11. inspector' = [inspector EXCEPT ![a] = page]
  BY <1>1
<1>12. hydrating' \subseteq {VolumeOf[i] : i \in DupIssues} \ {0}
  BY <1>2, <1>3, <1>8 DEF DupOK
<1> HIDE DEF page
<1>13. ASSUME page.still, NEW i \in Multiple
       PROVE  \/ \E g \in page.groups : g.issue = i /\ g.files = Claiming(i)
              \/ VolumeOf[i] = 0 /\ i \notin covered
              \/ VolumeOf[i] \in page.deferred
              \/ /\ i \notin page.listed /\ Cardinality(page.listed) = GroupLimit
                 /\ \A j \in page.listed :
                       Cardinality(Claiming(j)) >= Cardinality(Claiming(i))
  <2>1. /\ old.listed \subseteq Multiple
        /\ \A j \in Multiple \ old.listed :
              /\ Cardinality(old.listed) = GroupLimit
              /\ \A k \in old.listed : Cardinality(Claiming(k)) >= Cardinality(Claiming(j))
    BY <1>2, <1>3, <1>9, <1>13 DEF CountedRight
  <2>2. CASE i \notin old.listed
    BY <1>9, <2>1, <2>2
  <2>3. CASE i \in old.listed
    <3>1. Competing(i)
      BY <1>13, ClaimingCounted DEF Competing, Multiple
    <3>2. i \in S
      BY <2>3, <3>1
    <3>3. CASE i \in covered
      BY <1>7, <1>9, <3>2, <3>3
    <3>4. CASE i \notin covered
      BY <1>9, <3>2, <3>4 DEF Deferred
    <3> QED
      BY <3>3, <3>4
  <2> QED
    BY <2>2, <2>3
<1>14. page.pc # "counted" /\ \A g \in page.groups : GroupRight(g)
  BY <1>7, <1>9
<1> QED
  BY <1>2, <1>10, <1>11, <1>12, <1>13, <1>14, PageShown, Zenon

LEMMA CompareStep ==
    ASSUME DupInv, NEW a \in Admins, NEW i \in DupIssues, Compare(a, i)
    PROVE  DupInv'
<1>1. PICK groups \in Rendered({i}) :
        inspector' = [inspector EXCEPT ![a] = [pc |-> "compared", listed |-> {i},
              groups |-> groups, deferred |-> {}, still |-> TRUE]]
  BY DEF Compare, ShowPage
<1>2. /\ Competing(i) /\ hydrating' = hydrating
      /\ measure' = measure /\ claims' = claims /\ covered' = covered /\ calm' = calm
  BY DEF Compare
<1>3. DupOK /\ LastCopyKept
  BY DEF DupInv
<1>4. groups \subseteq Groups /\ \A g \in groups : GroupRight(g)
  BY <1>2, <1>3, RenderedRight
<1> DEFINE page == [pc |-> "compared", listed |-> {i}, groups |-> groups,
                    deferred |-> {}, still |-> TRUE]
<1>5. page.pc = "compared" /\ page.groups = groups
  OBVIOUS
<1>6. page \in Inspectors
  BY <1>4 DEF Inspectors
<1>7. inspector' = [inspector EXCEPT ![a] = page]
  BY <1>1
<1>8. hydrating' \subseteq {VolumeOf[j] : j \in DupIssues} \ {0}
  BY <1>2, <1>3 DEF DupOK
<1> HIDE DEF page
<1>9. page.pc # "counted" /\ page.pc # "listed" /\ \A g \in page.groups : GroupRight(g)
  BY <1>4, <1>5
<1> QED
  BY <1>2, <1>6, <1>7, <1>8, <1>9, PageShown, Zenon

\* A volume's issues are fetched: what has no cover and no volume stays so.
LEMMA RefreshStep ==
    ASSUME DupInv, NEW v, RefreshIssues(v)
    PROVE  DupInv'
<1>0. DupOK /\ LastCopyKept /\ PagesRight /\ CountedRight /\ GroupsAccounted
  BY DEF DupInv
<1>1. /\ v \in hydrating /\ hydrating' = hydrating \ {v}
      /\ measure' = measure /\ claims' = claims /\ inspector' = inspector /\ calm' = calm
  BY DEF RefreshIssues
<1>2. PICK S \in SUBSET {i \in DupIssues : VolumeOf[i] = v} : covered' = covered \cup S
  BY DEF RefreshIssues
<1>3. v # 0
  BY <1>0, <1>1 DEF DupOK
<1>4. DupOK'
  BY <1>0, <1>1, <1>2 DEF DupOK
<1>5. \A i \in DupIssues : VolumeOf[i] = 0 /\ i \notin covered => i \notin covered'
  BY <1>2, <1>3
<1>6. /\ \A i : Claiming(i)' = Claiming(i)
      /\ Multiple' = Multiple /\ Multiple \subseteq DupIssues
  <2>1. \A i : Claiming(i)' = Claiming(i)
    BY <1>1, Zenon DEF Claiming
  <2> QED
    BY <2>1, Zenon DEF Multiple
<1>7. \A f, i : BestOf(f, i)' <=> BestOf(f, i)
  <2>1. \A f, g : Outranks(f, g)' <=> Outranks(f, g)
    BY <1>1, RanksSame
  <2> QED
    BY <1>1, <2>1, Zenon DEF BestOf
<1>8. LastCopyKept'
  BY <1>0, <1>1, <1>7, Zenon DEF LastCopyKept
<1>9. PagesRight'
  BY <1>0, <1>1, <1>7, Zenon DEF PagesRight, GroupRight
<1>10. CountedRight'
  BY <1>0, <1>1, <1>6, Zenon DEF CountedRight
<1>11. GroupsAccounted'
  <2>1. SUFFICES ASSUME NEW b \in Admins, inspector[b].pc = "listed", inspector[b].still,
                        NEW i \in Multiple
        PROVE \/ \E g \in inspector[b].groups : g.issue = i /\ g.files = Claiming(i)
              \/ VolumeOf[i] = 0 /\ i \notin covered'
              \/ VolumeOf[i] \in inspector[b].deferred
              \/ /\ i \notin inspector[b].listed
                 /\ Cardinality(inspector[b].listed) = GroupLimit
                 /\ \A j \in inspector[b].listed :
                       Cardinality(Claiming(j)) >= Cardinality(Claiming(i))
    BY <1>1, <1>6, Zenon DEF GroupsAccounted
  <2> QED
    BY <1>0, <1>5, <1>6, <2>1, Zenon DEF GroupsAccounted
<1> QED
  BY <1>4, <1>8, <1>9, <1>10, <1>11 DEF DupInv

LEMMA Unsettled ==
    ASSUME DupOK, Unsettle
    PROVE  /\ inspector' \in [Admins -> Inspectors]
           /\ \A b \in Admins : /\ inspector'[b].groups = inspector[b].groups
                                /\ ~inspector'[b].still
<1>1. \A b \in Admins : inspector[b] \in Inspectors
  BY DEF DupOK
<1>2. \A b \in Admins : inspector'[b] = [inspector[b] EXCEPT !.still = FALSE]
  BY DEF Unsettle
<1>3. ASSUME NEW b \in Admins
      PROVE  /\ [inspector[b] EXCEPT !.still = FALSE] \in Inspectors
             /\ [inspector[b] EXCEPT !.still = FALSE].groups = inspector[b].groups
             /\ ~[inspector[b] EXCEPT !.still = FALSE].still
  <2>1. PICK page \in Inspectors : page = inspector[b]
    BY <1>1
  <2>2. /\ [page EXCEPT !.still = FALSE] \in Inspectors
        /\ [page EXCEPT !.still = FALSE].groups = page.groups
        /\ ~[page EXCEPT !.still = FALSE].still
    BY DEF Inspectors
  <2> QED
    BY <2>1, <2>2
<1> QED
  BY <1>2, <1>3 DEF Unsettle

\* A match is changed: no page is still any more.
LEMMA MatchChanged ==
    ASSUME DupInv, NEW f \in DupFiles, NEW i \in DupIssues \cup {NoClaim},
           claims' = [claims EXCEPT ![f] = i], measure' = measure,
           covered' = covered, hydrating' = hydrating,
           calm' \subseteq calm, i \notin calm',
           \A j \in calm' : ~BestOf(f, j),
           Unsettle
    PROVE  DupInv'
<1>0. DupOK /\ LastCopyKept /\ PagesRight
  BY DEF DupInv
<1>1. /\ inspector' \in [Admins -> Inspectors]
      /\ \A b \in Admins : /\ inspector'[b].groups = inspector[b].groups
                           /\ ~inspector'[b].still
  BY <1>0, Unsettled
<1>2. /\ claims' \in [DupFiles -> DupIssues \cup {NoClaim}] /\ claims'[f] = i
      /\ \A x \in DupFiles \ {f} : claims'[x] = claims[x] /\ measure'[x] = measure[x]
  BY <1>0 DEF DupOK
<1>3. DupOK'
  BY <1>0, <1>1, <1>2 DEF DupOK
<1>4. /\ LastCopyKept'
      /\ \A g : g.files \subseteq DupFiles /\ GroupRight(g) => GroupRight(g)'
  BY <1>0, <1>2, OneTouched
<1>5. PagesRight'
  <2>1. ASSUME NEW b \in Admins, NEW g \in inspector[b].groups
        PROVE  g.files \subseteq DupFiles
    BY <1>0 DEF DupOK, Inspectors, Groups
  <2> QED
    BY <1>0, <1>1, <1>4, <2>1 DEF PagesRight
<1>6. CountedRight' /\ GroupsAccounted'
  BY <1>1 DEF CountedRight, GroupsAccounted
<1> QED
  BY <1>3, <1>4, <1>5, <1>6 DEF DupInv

LEMMA SupplementStep ==
    ASSUME DupInv, NEW a \in Admins, NEW f \in DupFiles, MakeSupplement(a, f)
    PROVE  DupInv'
<1>0. DupOK /\ PagesRight
  BY DEF DupInv
<1>1. PICK g \in inspector[a].groups : f \in g.files \ {g.keeper}
  BY DEF MakeSupplement
<1>2. g \in Groups /\ GroupRight(g)
  BY <1>0 DEF DupOK, Inspectors, PagesRight
<1>3. NoClaim \notin calm
  BY <1>0, DuplicatesAssumption DEF DupOK
<1>4. ASSUME NEW j \in calm, BestOf(f, j) PROVE FALSE
  <2>1. claims[f] = j
    BY <1>4 DEF BestOf
  <2>2. BestOf(g.keeper, j)
    BY <1>1, <1>2, <2>1 DEF GroupRight
  <2>3. g.keeper \in DupFiles /\ g.keeper # f
    BY <1>1, <1>2 DEF Groups
  <2>4. Outranks(f, g.keeper) /\ Outranks(g.keeper, f)
    BY <1>4, <2>1, <2>2, <2>3 DEF BestOf
  <2>5. measure[f] \in Measures /\ measure[g.keeper] \in Measures
    BY <1>0, <2>3 DEF DupOK
  <2> QED
    BY <2>3, <2>4, <2>5, OutranksOneWay
<1>5. /\ claims' = [claims EXCEPT ![f] = NoClaim] /\ measure' = measure
      /\ covered' = covered /\ hydrating' = hydrating /\ calm' = calm /\ Unsettle
  BY DEF MakeSupplement
<1> QED
  BY <1>3, <1>4, <1>5, MatchChanged

LEMMA ShiftStep ==
    ASSUME DupInv, NEW f \in DupFiles, NEW i \in DupIssues \cup {NoClaim}, ShiftMatch(f, i)
    PROVE  DupInv'
<1>1. /\ claims' = [claims EXCEPT ![f] = i] /\ measure' = measure
      /\ covered' = covered /\ hydrating' = hydrating
      /\ calm' = calm \ {i, claims[f]} /\ Unsettle
  BY DEF ShiftMatch
<1>2. \A j \in calm' : ~BestOf(f, j)
  BY <1>1 DEF BestOf
<1> QED
  BY <1>1, <1>2, MatchChanged

LEMMA SampleStep ==
    ASSUME DupInv, NEW f \in DupFiles, NEW area \in {1, 3}, SampleInterior(f, area)
    PROVE  DupInv'
<1>0. DupOK /\ LastCopyKept /\ PagesRight /\ CountedRight /\ GroupsAccounted
  BY DEF DupInv
<1>1. /\ calm' = calm \ {claims[f]} /\ claims' = claims /\ inspector' = inspector
      /\ covered' = covered /\ hydrating' = hydrating
  BY DEF SampleInterior
<1> DEFINE m == [measure[f] EXCEPT !.interior = area]
<1>2. measure' = [measure EXCEPT ![f] = m]
  BY Zenon DEF SampleInterior
<1>3. m \in Measures
  <2>1. PICK old \in Measures : old = measure[f]
    BY <1>0 DEF DupOK
  <2>2. [old EXCEPT !.interior = area] \in Measures
    BY DEF Measures
  <2> QED
    BY <2>1, <2>2
<1> HIDE DEF m
<1>4. /\ measure' \in [DupFiles -> Measures]
      /\ \A x \in DupFiles \ {f} : claims'[x] = claims[x] /\ measure'[x] = measure[x]
  BY <1>0, <1>1, <1>2, <1>3 DEF DupOK
<1>5. DupOK'
  BY <1>0, <1>1, <1>4 DEF DupOK
<1>6. \A j \in calm' : ~BestOf(f, j)
  BY <1>1 DEF BestOf
<1>7. /\ LastCopyKept'
      /\ \A g : g.files \subseteq DupFiles /\ GroupRight(g) => GroupRight(g)'
  BY <1>0, <1>1, <1>4, <1>6, OneTouched
<1>8. PagesRight'
  <2>1. ASSUME NEW b \in Admins, NEW g \in inspector[b].groups
        PROVE  g.files \subseteq DupFiles
    BY <1>0 DEF DupOK, Inspectors, Groups
  <2> QED
    BY <1>0, <1>1, <1>7, <2>1 DEF PagesRight
<1>9. (\A i : Claiming(i)' = Claiming(i)) /\ Multiple' = Multiple
  <2>1. \A i : Claiming(i)' = Claiming(i)
    BY <1>1, Zenon DEF Claiming
  <2> QED
    BY <2>1, Zenon DEF Multiple
<1>10. CountedRight'
  BY <1>0, <1>1, <1>9, Zenon DEF CountedRight
<1>11. GroupsAccounted'
  BY <1>0, <1>1, <1>9, Zenon DEF GroupsAccounted
<1> QED
  BY <1>5, <1>7, <1>8, <1>10, <1>11 DEF DupInv

LEMMA DuplicatesStutter == DupInv /\ UNCHANGED duplicatesVars => DupInv'
<1> SUFFICES ASSUME DupInv, UNCHANGED duplicatesVars PROVE DupInv'
  OBVIOUS
<1>0. DupOK /\ LastCopyKept /\ PagesRight /\ CountedRight /\ GroupsAccounted
  BY DEF DupInv
<1>1. /\ measure' = measure /\ claims' = claims /\ covered' = covered
      /\ hydrating' = hydrating /\ inspector' = inspector /\ calm' = calm
  BY DEF duplicatesVars
<1>2. \A f, i : BestOf(f, i)' <=> BestOf(f, i)
  <2>1. \A f, g : Outranks(f, g)' <=> Outranks(f, g)
    BY <1>1, RanksSame
  <2> QED
    BY <1>1, <2>1, Zenon DEF BestOf
<1>3. (\A i : Claiming(i)' = Claiming(i)) /\ Multiple' = Multiple
  <2>1. \A i : Claiming(i)' = Claiming(i)
    BY <1>1, Zenon DEF Claiming
  <2> QED
    BY <2>1, Zenon DEF Multiple
<1>4. DupOK' /\ LastCopyKept'
  BY <1>0, <1>1, <1>2, Zenon DEF DupOK, LastCopyKept
<1>5. PagesRight'
  BY <1>0, <1>1, <1>2, Zenon DEF PagesRight, GroupRight
<1>6. CountedRight'
  BY <1>0, <1>1, <1>3, Zenon DEF CountedRight
<1>7. GroupsAccounted'
  BY <1>0, <1>1, <1>3, Zenon DEF GroupsAccounted
<1> QED
  BY <1>4, <1>5, <1>6, <1>7 DEF DupInv

LEMMA DuplicatesInvariance == DuplicatesSpec => []DupInv
<1>1. DuplicatesInit => DupInv
  BY DuplicatesStart
<1>2. DupInv /\ [DuplicatesNext]_duplicatesVars => DupInv'
  BY CountStep, BuildStep, CompareStep, SupplementStep, RefreshStep, ShiftStep, SampleStep,
     DuplicatesStutter DEF DuplicatesNext
<1> QED
  BY <1>1, <1>2, PTL DEF DuplicatesSpec

\* The inspector's state is of its type; a group on a page is always a choice.
THEOREM DuplicatesTyped == DuplicatesSpec => []DuplicatesTypes
<1>1. ASSUME DupInv PROVE DuplicatesTypes
  <2>1. DupOK /\ PagesRight
    BY <1>1 DEF DupInv
  <2> QED
    BY <2>1 DEF DupOK, PagesRight, GroupRight, DuplicatesTypes
<1> QED
  BY <1>1, DuplicatesInvariance, PTL

\* However many administrators take files off an issue, its best file stays.
THEOREM LastCopyKeptHolds == DuplicatesSpec => []LastCopyKept
<1>1. DupInv => LastCopyKept
  BY DEF DupInv
<1> QED
  BY <1>1, DuplicatesInvariance, PTL

\* No group is lost in silence.
THEOREM GroupsAccountedHolds == DuplicatesSpec => []GroupsAccounted
<1>1. DupInv => GroupsAccounted
  BY DEF DupInv
<1> QED
  BY <1>1, DuplicatesInvariance, PTL

=============================================================================
