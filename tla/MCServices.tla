------------------------------ MODULE MCServices ------------------------------
(***************************************************************************)
(* The services behind the pages, for TLC in one run. They share nothing here: *)
(* a behaviour is one of a single component, and the others stay where they     *)
(* start.                                                                  *)
(***************************************************************************)
EXTENDS Revalidate, Accounts, Reading, Matcher, VolumePage, Listing, ReviewQueue,
        Duplicates

CONSTANT Parts      \* the components to run

VARIABLE part       \* the one that runs

Some(S) == CHOOSE x \in S : TRUE

\* Where a component stays that does not run.
Resting ==
    /\ part = "revalidate" \/ hash = "none"
    /\ part = "matcher" \/ file = Some(MatchFiles)
    /\ part = "page" \/ volume = Some(VolumePages)
    /\ \/ part = "listing"
       \/ /\ query = Some(Queries) /\ finished = {}
          /\ settled = [f \in OwnedFiles |-> NoIssue]
    /\ \/ part = "queue"
       \/ /\ waiting = {} /\ band = QueueFiles
          /\ series = [f \in QueueFiles |-> Some(Series)]
    /\ part = "duplicates" \/ (covered = {} /\ measure = Some(Measured) /\ claims = Some(Claims))

ServicesInit ==
    /\ part \in Parts
    /\ Resting
    /\ RevalidateInit /\ AccountsInit /\ ReadingInit /\ MatcherInit
    /\ VolumePageInit /\ ListingInit /\ ReviewQueueInit /\ DuplicatesInit
    \* Lanes are alike, and the list's files: which of them are read is a matter of names.
    /\ origin = Some(Lanes)
    /\ \A f \in finished, g \in OwnedFiles : g < f => g \in finished

Rest(others) == UNCHANGED <<part, others>>

\* Calls and deaths of processes share one bound.
ServicesNext ==
    \/ /\ part = "revalidate" /\ RevalidateNext /\ asks' + cuts' <= MaxAsks
       /\ Rest(<<accountsVars, readingVars, matcherVars, pageVars, listingVars,
                 reviewQueueVars, duplicatesVars>>)
    \/ /\ part = "accounts" /\ AccountsNext
       /\ Rest(<<revalidateVars, readingVars, matcherVars, pageVars,
                 listingVars, reviewQueueVars, duplicatesVars>>)
    \/ /\ part = "reading" /\ ReadingNext
       /\ Rest(<<revalidateVars, accountsVars, matcherVars, pageVars,
                 listingVars, reviewQueueVars, duplicatesVars>>)
    \/ /\ part = "matcher" /\ MatcherNext
       /\ Rest(<<revalidateVars, accountsVars, readingVars, pageVars,
                 listingVars, reviewQueueVars, duplicatesVars>>)
    \/ /\ part = "page" /\ VolumePageNext
       /\ Rest(<<revalidateVars, accountsVars, readingVars, matcherVars,
                 listingVars, reviewQueueVars, duplicatesVars>>)
    \/ /\ part = "listing" /\ ListingNext
       /\ Rest(<<revalidateVars, accountsVars, readingVars, matcherVars,
                 pageVars, reviewQueueVars, duplicatesVars>>)
    \/ /\ part = "queue" /\ ReviewQueueNext
       /\ Rest(<<revalidateVars, accountsVars, readingVars, matcherVars,
                 pageVars, listingVars, duplicatesVars>>)
    \/ /\ part = "duplicates" /\ DuplicatesNext
       /\ Rest(<<revalidateVars, accountsVars, readingVars, matcherVars,
                 pageVars, listingVars, reviewQueueVars>>)

ServicesSpec ==
    /\ ServicesInit
    /\ [][ServicesNext]_<<part, revalidateVars, accountsVars, readingVars, matcherVars,
                         pageVars, listingVars, reviewQueueVars, duplicatesVars>>

(* ---- what the matcher may meet ---- *)

Vol(sim, start, cover, few, odd, has) ==
    [sim |-> sim, start |-> start, cover |-> cover, few |-> few, odd |-> odd, has |-> has]
Good == Vol(100, 2011, 2013, FALSE, FALSE, TRUE)
Off == Vol(76, 2011, 2011, FALSE, FALSE, TRUE)
Late == Vol(100, 1959, 2012, FALSE, FALSE, TRUE)
Profiles ==
    {Good, Off, Late, Vol(77, 2011, 2011, FALSE, FALSE, TRUE),
     Vol(54, 2011, 2011, FALSE, FALSE, TRUE), Vol(55, NoYear, NoYear, FALSE, TRUE, TRUE),
     Vol(100, 2011, 2011, TRUE, FALSE, TRUE), Vol(100, 2011, 2011, FALSE, TRUE, TRUE),
     Vol(90, 2011, 2013, FALSE, FALSE, FALSE)}

Years(info, name, path, vol) == [info |-> info, name |-> name, path |-> path, volume |-> vol]
Hints == {Years(NoYear, NoYear, NoYear, 2), Years(2011, 1959, NoYear, NoYear),
          Years(NoYear, NoYear, 2013, 2012)}

Hits(S, T) == [t \in Terms |-> IF t = "short" THEN S ELSE T]

MCMatchFiles ==
    [id : {"none"}, terms : {Terms}, hint : Hints,
     of : [CandidateVolumes -> {Good, Off, Late}], hits : {Hits({1, 3}, {1, 2})}]
    \cup [id : {"none", "cached", "asked"}, terms : {{}, {"short"}, Terms}, hint : Hints,
          of : {[v \in CandidateVolumes |-> IF v = 3 THEN Late ELSE p] : p \in Profiles},
          hits : {Hits({3}, {1, 3})}]

(* ---- volumes to open ---- *)

Reads == {<<>>, <<1, 2>>, <<2, 7, 1>>, <<7, 3, 8>>, <<1, 7, 2, 3>>, <<3, 2, 1>>, <<2, 3>>}
MCVolumePages ==
    [order : {<<1, 2, 3>>, <<2, 1, 3>>},
     credits : {[i \in Own |-> IF i = 2 THEN {1} ELSE IF i = 3 THEN Arcs ELSE {}],
                [i \in Own |-> IF i = 1 THEN Arcs ELSE {}]},
     reads : [Arcs -> Reads], owned : {{}, {3}}, credited : {{1, 3}}]

(* ---- the library to list: volumes 1 and 2 of ComicVine, 3 local ---- *)

MCIssues == {<<1, 1>>, <<1, 2>>, <<2, 1>>, <<3, 1>>}
MCName == [v \in ListedVolumes |-> IF v = 1 THEN 2 ELSE 1]
MCStartYear == [v \in ListedVolumes |-> IF v = 2 THEN 2 ELSE IF v = 1 THEN 1 ELSE 0]
MCCount == [v \in CvVolumes |-> 2]
MCPublisher == [v \in CvVolumes |-> v]
Ask(sort, missing, publisher) == [sort |-> sort, missing |-> missing, publisher |-> publisher]
MCQueries ==
    {Ask("name", FALSE, 0), Ask("owned", FALSE, 0), Ask("year", FALSE, 1),
     Ask("missing", TRUE, 0), Ask("missing", FALSE, 0)}

(* ---- files that claim an issue together ---- *)

Files(v) == [f \in DupFiles |-> v[f]]
Measure(pages, info, interior, cover, size) ==
    [pages |-> pages, info |-> info, interior |-> interior, cover |-> cover, size |-> size,
     format |-> 4, scanned |-> 1]
\* The third is a fragment, the best in everything else.
MCMeasured ==
    {Files(<<Measure(22, 1, 0, 2, 2), Measure(22, 1, 0, 2, 1), Measure(4, 3, 9, 9, 9),
             Measure(15, 1, 0, 3, 1)>>)}
MCClaims == {Files(<<1, 1, 2, 2>>), Files(<<1, 1, 1, 2>>)}
MCVolumeOf == [i \in DupIssues |-> IF i = 2 THEN 0 ELSE i]

=============================================================================
