------------------------------- MODULE Listing -------------------------------
(***************************************************************************)
(* The library page: the volumes with a matched file, ComicVine's and local    *)
(* ones merged, sorted and cut into pages that the browser asks for as it       *)
(* scrolls. One page is several statements, each of which sees what is           *)
(* committed by then; reviewers and jobs settle files meanwhile, and people       *)
(* read.                                                                   *)
(*                                                                         *)
(* Left out: facets by year, letter, words and format (each is one more test     *)
(* of a volume, like the two kept), covers, stubs and their refreshes (Hydration). *)
(***************************************************************************)
EXTENDS Integers, FiniteSets, Sequences, SequencesExt

CONSTANTS
    CvVolumes, LocalVolumes,
    OwnedFiles,
    Issues,         \* pairs <<volume, number>>
    Name, StartYear,     \* [CvVolumes \cup LocalVolumes -> Nat]; year 0 is none
    Count,          \* [CvVolumes -> Nat], count_of_issues where it is known
    Counted,        \* the volumes of ComicVine where it is
    Publisher,      \* [CvVolumes -> Nat \ {0}]
    Queries,        \* see Query
    PageSizes,      \* get_page_size: the setting can change between two pages
    NoIssue,
    MaxChanges      \* bound on files settled or unsettled meanwhile

ListedVolumes == CvVolumes \cup LocalVolumes

VARIABLES
    query,          \* the filters and the sort, for good
    settled,       \* [OwnedFiles -> Issues \cup {NoIssue}]: auto, confirmed or local
    finished,       \* the files the user has finished
    browser,        \* what it shows
    loading,        \* the page being put together
    changes,        \* used up of the bound
    stirred         \* history: a match changed since the first page was begun

listingVars == <<query, settled, finished, browser, loading, changes, stirred>>

Query == [sort : {"name", "year", "owned", "missing"}, missing : BOOLEAN,
          publisher : {0} \cup {Publisher[v] : v \in CvVolumes}]

Keys == [volume : ListedVolumes, owned : Nat]
\* calm: no match changed while the card's page was put together.
Cards == [volume : ListedVolumes, owned : Nat, read : Nat, calm : BOOLEAN]

ASSUME ListingAssumption ==
    /\ CvVolumes \cap LocalVolumes = {} /\ NoIssue \notin Issues
    /\ IsFiniteSet(CvVolumes) /\ IsFiniteSet(LocalVolumes) /\ IsFiniteSet(Issues)
    /\ Issues \subseteq ListedVolumes \X Nat /\ Queries \subseteq Query
    /\ {Name, StartYear} \subseteq [ListedVolumes -> Nat]
    /\ Count \in [CvVolumes -> Nat] /\ Counted \subseteq CvVolumes
    /\ PageSizes \subseteq Nat \ {0}

Idle == [pc |-> "idle", keys |-> {}, rows |-> <<>>, total |-> 0, calm |-> TRUE]

ListingInit ==
    /\ query \in Queries
    /\ settled \in [OwnedFiles -> Issues \cup {NoIssue}]
    /\ finished \in SUBSET OwnedFiles
    /\ browser = [cards |-> <<>>, total |-> 0, more |-> TRUE, failed |-> FALSE]
    /\ loading = Idle
    /\ changes = 0
    /\ stirred = FALSE

(* ---- the list ---- *)

\* Distinct issues, not files: owned_per_volume and local_owned.
OwnedCount(v) == Cardinality({i \in Issues : i[1] = v /\ \E f \in OwnedFiles : settled[f] = i})

\* Of a ComicVine volume; local ones have neither publisher nor count.
PassesFilters(v) ==
    /\ query.publisher # 0 => Publisher[v] = query.publisher
    /\ query.missing => v \in Counted /\ Count[v] > OwnedCount(v)

KeysOf(S) == {[volume |-> v, owned |-> OwnedCount(v)] : v \in {u \in S : OwnedCount(u) > 0}}

MergesLocal == query.publisher = 0 /\ ~query.missing

\* What _lib_sort_key orders by before the name; less comes first. What has no year
\* comes last, and where the count is unknown, of any local volume, nothing is missing.
Primary(k) ==
    IF query.sort = "year" THEN -StartYear[k.volume]
    ELSE IF query.sort = "owned" THEN -k.owned
    ELSE IF query.sort = "missing" /\ k.volume \in Counted THEN k.owned - Count[k.volume]
    ELSE 0

YearBefore(u, v) == StartYear[u] # 0 /\ (StartYear[v] = 0 \/ StartYear[u] < StartYear[v])

\* The year decides between equal names in the sort by name.
SortsBefore(k, l) ==
    \/ Primary(k) < Primary(l)
    \/ Primary(k) = Primary(l) /\ Name[k.volume] < Name[l.volume]
    \/ /\ query.sort = "name" /\ Name[k.volume] = Name[l.volume]
       /\ YearBefore(k.volume, l.volume)

\* Equal keys keep the order the database returned them in, which is any.
Sorted(S) ==
    {s \in [1..Cardinality(S) -> S] :
        ToSet(s) = S /\ \A m, n \in DOMAIN s : m < n => ~SortsBefore(s[n], s[m])}

(* ---- one page ---- *)

\* The first statement: keys of ComicVine's volumes.
ScanKeys ==
    /\ loading.pc = "idle" /\ browser.more
    /\ loading' = [Idle EXCEPT !.pc = "local",
                               !.keys = KeysOf({v \in CvVolumes : PassesFilters(v)})]
    /\ stirred' = IF browser.cards = <<>> THEN FALSE ELSE stirred
    /\ UNCHANGED <<query, settled, finished, browser, changes>>

\* Mutant: the offset of a whole number of pages.
OffsetMutant(size) == (Len(browser.cards) \div size) * size

\* The offset the browser asks for: the number of cards it shows.
Offset(size) == Len(browser.cards)

\* The local side, the merge, and the slice at the number of cards shown.
MergeKeys(size) ==
    /\ loading.pc = "local"
    /\ LET keys == loading.keys \cup (IF MergesLocal THEN KeysOf(LocalVolumes) ELSE {})
           from == Offset(size)
       IN  \E s \in Sorted(keys) :
              loading' = [loading EXCEPT !.pc = "hydrate", !.total = Cardinality(keys),
                  !.rows = SubSeq(s, from + 1, IF from + size < Len(s) THEN from + size
                                               ELSE Len(s))]
    /\ UNCHANGED <<query, settled, finished, browser, changes, stirred>>

\* The rows are loaded; a local volume that has lost its files can be gone. What is
\* there keeps its order.
HydrateRows(gone) ==
    /\ loading.pc = "hydrate"
    /\ \A v \in gone : OwnedCount(v) = 0
    /\ LET before(k, l) == \E m, n \in DOMAIN loading.rows :
                              m < n /\ loading.rows[m] = k /\ loading.rows[n] = l
           there == {k \in ToSet(loading.rows) : k.volume \notin gone}
       IN  \E s \in [1..Cardinality(there) -> there] :
              /\ \A m, n \in DOMAIN s : m < n => before(s[m], s[n])
              /\ loading' = [loading EXCEPT !.pc = "count", !.rows = s]
    /\ UNCHANGED <<query, settled, finished, browser, changes, stirred>>

\* Mutant: files are counted, not issues.
ReadCountMutant(v) == Cardinality({f \in finished : settled[f] # NoIssue /\ settled[f][1] = v})

ReadCount(v) ==
    Cardinality({i \in Issues : i[1] = v /\ \E f \in finished : settled[f] = i})

\* What the user has finished of them; then the browser appends the cards. It takes
\* the total of the first page, and stops at it or at a page without cards.
CountRead ==
    /\ loading.pc = "count"
    /\ LET added == [n \in DOMAIN loading.rows |->
                       [volume |-> loading.rows[n].volume, owned |-> loading.rows[n].owned,
                        read |-> ReadCount(loading.rows[n].volume), calm |-> loading.calm]]
           total == IF browser.cards = <<>> THEN loading.total ELSE browser.total
       IN  browser' = [browser EXCEPT !.cards = @ \o added, !.total = total,
                          !.more = added # <<>> /\ Len(browser.cards \o added) < total]
    /\ loading' = Idle
    /\ UNCHANGED <<query, settled, finished, changes, stirred>>

\* A page that fails ends the scrolling; the first one is not there to scroll.
FailPage ==
    /\ loading.pc # "idle" /\ browser.cards # <<>>
    /\ loading' = Idle
    /\ browser' = [browser EXCEPT !.more = FALSE, !.failed = TRUE]
    /\ UNCHANGED <<query, settled, finished, changes, stirred>>

(* ---- the others ---- *)

\* A file is settled on an issue, moved to another one, or given back.
SettleFile(f, i) ==
    /\ changes < MaxChanges
    /\ settled[f] # i
    /\ settled' = [settled EXCEPT ![f] = i]
    /\ stirred' = TRUE
    /\ loading' = [loading EXCEPT !.calm = loading.pc = "idle"]
    /\ changes' = changes + 1
    /\ UNCHANGED <<query, finished, browser>>

FinishFile(f) ==
    /\ changes < MaxChanges
    /\ f \notin finished
    /\ finished' = finished \cup {f}
    /\ changes' = changes + 1
    /\ UNCHANGED <<query, settled, browser, loading, stirred>>

ListingNext ==
    \/ ScanKeys \/ CountRead \/ FailPage
    \/ \E size \in PageSizes : MergeKeys(size)
    \/ \E gone \in SUBSET LocalVolumes : HydrateRows(gone)
    \/ \E f \in OwnedFiles : FinishFile(f) \/ \E i \in Issues \cup {NoIssue} : SettleFile(f, i)

ListingSpec == ListingInit /\ [][ListingNext]_listingVars

(* ---- properties ---- *)

ListingTypes ==
    /\ query \in Queries
    /\ settled \in [OwnedFiles -> Issues \cup {NoIssue}]
    /\ finished \subseteq OwnedFiles
    /\ browser.cards \in Seq(Cards) /\ Len(browser.cards) <= Cardinality(ListedVolumes)
    /\ loading.keys \subseteq Keys /\ loading.rows \in Seq(Keys)

Listed ==
    KeysOf({v \in CvVolumes : PassesFilters(v)})
        \cup (IF MergesLocal THEN KeysOf(LocalVolumes) ELSE {})

Untied == \A k, l \in Listed : k # l => SortsBefore(k, l) \/ SortsBefore(l, k)

\* The pages join: while no match changes, and no two volumes tie, the cards are
\* the head of the list, nothing twice and nothing skipped, also when the page
\* size changes between two pages; and when the browser stops it has them all.
PagesJoin ==
    (~stirred /\ Untied) =>
        LET shown == browser.cards
            whole == CHOOSE s \in Sorted(Listed) : TRUE
        IN  /\ Len(shown) <= Len(whole)
            /\ \A n \in DOMAIN shown : shown[n].volume = whole[n].volume
            /\ (~browser.more /\ ~browser.failed) => Len(shown) = Len(whole)

\* "so read_count <= owned_count holds": if no match changed while the page was
\* put together, whatever the user finished, and however many files an issue has.
ReadWithinOwned ==
    \A n \in DOMAIN browser.cards :
        LET card == browser.cards[n] IN card.calm => card.read <= card.owned

=============================================================================
