------------------------------ MODULE VolumePage ------------------------------
(***************************************************************************)
(* The page of a volume: its issues in order, cut into shelves wherever the    *)
(* story arcs change or leave for another volume, arrows to where an arc goes   *)
(* on, and two rails of lines drawn beside the window of issues shown.         *)
(*                                                                         *)
(* An arc's members are read from ComicVine, arc by arc; each read can fail.    *)
(* Left out: counts, reading progress, colours, pixels, names; supplements.      *)
(***************************************************************************)
EXTENDS Naturals, FiniteSets, Sequences, SequencesExt

CONSTANTS
    Own,            \* the issues of the volume, by their ComicVine ids
    Elsewhere,      \* issues of other volumes
    Arcs,           \* numbered in the order they are first seen
    VolumePages,        \* what ComicVine and the tables say of the volume, see Volume
    PageSize        \* get_page_size

VARIABLES
    volume,         \* for good
    issues,         \* the issues of the page, in the order of their numbers
    unasked,        \* arcs still to be read
    members,        \* arc_members_by_aid: the arcs read
    window          \* the issues shown: after the first lo, up to hi

pageVars == <<volume, issues, unasked, members, window>>

\* order: by sort_key_issue_number; credits: story_arc_credits of an issue's own
\* payload; reads: an arc's members in reading order; credited: a person's issues.
Volume ==
    [order : {s \in [1..Cardinality(Own) -> Own] : ToSet(s) = Own},
     credits : [Own -> SUBSET Arcs],
     reads : [Arcs -> Seq(Own \cup Elsewhere)],
     owned : SUBSET Own, credited : SUBSET Own]

ASSUME VolumePageAssumption ==
    /\ Own \subseteq Nat /\ IsFiniteSet(Own) /\ Elsewhere \cap Own = {}
    /\ Arcs \subseteq Nat /\ IsFiniteSet(Arcs)
    /\ PageSize \in Nat \ {0}
    /\ \A v \in VolumePages : v \in Volume /\ \A a \in Arcs : IsInjective(v.reads[a])

Unopened == [lo |-> 0, hi |-> 0]

VolumePageInit ==
    /\ volume \in VolumePages
    /\ issues = <<>>
    /\ unasked = {}
    /\ members = <<>>
    /\ window = Unopened

Shown == ToSet(issues)

(* ---- what is read ---- *)

ComesBefore(h, i) ==
    \E m, n \in DOMAIN volume.order : m < n /\ volume.order[m] = h /\ volume.order[n] = i

\* The issues a filter leaves (all without one, or if its person cannot be read),
\* and the arcs their own payloads name.
OpenVolume(filter) ==
    /\ issues = <<>>
    /\ issues' \in {s \in [1..Cardinality(filter) -> filter] :
                      \A m, n \in DOMAIN s : m < n => ComesBefore(s[m], s[n])}
    /\ unasked' = UNION {volume.credits[i] : i \in filter}
    /\ UNCHANGED <<volume, members, window>>

\* A failed read leaves the arc without members.
GetStoryArc(a, ok) ==
    /\ a \in unasked
    /\ \A b \in unasked : a <= b
    /\ unasked' = unasked \ {a}
    /\ members' = IF ok THEN [b \in DOMAIN members \cup {a} |-> volume.reads[b]] ELSE members
    /\ UNCHANGED <<volume, issues, window>>

IndexOf(i) == CHOOSE n \in DOMAIN issues : issues[n] = i

Least(S) == CHOOSE x \in S : \A y \in S : x <= y
Most(S) == CHOOSE x \in S : \A y \in S : x >= y

\* The issue the page opens at: the one asked for, else the first owned.
Target(from) ==
    IF from \in Shown THEN IndexOf(from)
    ELSE IF Shown \cap volume.owned = {} THEN 1
    ELSE Least({IndexOf(i) : i \in Shown \cap volume.owned})

\* Half-open, cut at the end.
WindowFrom(lo, size) ==
    [lo |-> lo, hi |-> IF lo + size < Len(issues) THEN lo + size ELSE Len(issues)]

Land(from) ==
    /\ issues # <<>> /\ unasked = {} /\ window = Unopened
    /\ window' = WindowFrom(((Target(from) - 1) \div PageSize) * PageSize, PageSize)
    /\ UNCHANGED <<volume, issues, unasked, members>>

\* The rail's fragment for another window (load earlier, load more, show all). It can
\* begin where the issues end, and holds none then; a longer one is cut.
Scroll(lo, size) ==
    /\ window # Unopened
    /\ window' = WindowFrom(lo, size)
    /\ UNCHANGED <<volume, issues, unasked, members>>

VolumePageNext ==
    \/ \E filter \in {Own, volume.credited} : OpenVolume(filter)
    \/ \E a \in Arcs, ok \in BOOLEAN : GetStoryArc(a, ok)
    \/ \E from \in Own \cup Elsewhere : Land(from)
    \/ \E lo \in 0..Len(issues), size \in 1..Len(issues) : Scroll(lo, size)

VolumePageSpec == VolumePageInit /\ [][VolumePageNext]_pageVars

(* ---- shelves ---- *)

ReadArcs == DOMAIN members

Positions(a, S) == {p \in DOMAIN members[a] : members[a][p] \in S}
Position(a, i) == CHOOSE p \in DOMAIN members[a] : members[a][p] = i

\* arc_credits of an issue: those of its payload, and of the arcs that list it.
CreditsOf(i) == volume.credits[i] \cup {a \in ReadArcs : i \in ToSet(members[a])}

\* Mutant: a shelf lasts as long as the arcs are the same.
BeginsShelfMutant(n) == n = 1 \/ CreditsOf(issues[n]) # CreditsOf(issues[n - 1])

\* A shelf begins where the arcs change, or where one of them went elsewhere.
BeginsShelf(n) ==
    LET i == issues[n]
        h == issues[n - 1]
    IN  \/ n = 1
        \/ CreditsOf(i) # CreditsOf(h)
        \/ \E a \in CreditsOf(i) \cap ReadArcs :
              /\ {h, i} \subseteq ToSet(members[a])
              /\ Position(a, i) # Position(a, h) + 1

Starts == {n \in DOMAIN issues : BeginsShelf(n)}
Ends == {n \in DOMAIN issues : n = Len(issues) \/ n + 1 \in Starts}

\* The shelves as <<first index, last index>>, and the issues of one.
Shelves ==
    {s \in Starts \X Ends : s[1] <= s[2] /\ ~\E n \in Starts : s[1] < n /\ n <= s[2]}
On(shelf) == {issues[n] : n \in shelf[1]..shelf[2]}

\* Arrows <<index, arc, issue>>: from the last issue of a shelf to the arc's next,
\* unless that comes next on the page, and the same backwards.
NextLinks ==
    {link \in Ends \X ReadArcs \X (Own \cup Elsewhere) :
        LET n == link[1]
            arc == members[link[2]]
            p == Position(link[2], issues[n])
        IN  /\ issues[n] \in ToSet(arc) /\ p < Len(arc) /\ link[3] = arc[p + 1]
            /\ ~(n < Len(issues) /\ issues[n + 1] = link[3])}

PrevLinks ==
    {link \in Starts \X ReadArcs \X (Own \cup Elsewhere) :
        LET n == link[1]
            arc == members[link[2]]
            p == Position(link[2], issues[n])
        IN  /\ issues[n] \in ToSet(arc) /\ p > 1 /\ link[3] = arc[p - 1]
            /\ ~(n > 1 /\ issues[n - 1] = link[3])}

\* The list's arrows: from a row to the arc's next or previous issue if that is not
\* on the page at all.
RowNextLinks ==
    {link \in (DOMAIN issues) \X ReadArcs \X ((Own \cup Elsewhere) \ Shown) :
        LET arc == members[link[2]]
        IN  \E p \in Positions(link[2], {issues[link[1]]}) :
                p < Len(arc) /\ link[3] = arc[p + 1]}

RowPrevLinks ==
    {link \in (DOMAIN issues) \X ReadArcs \X ((Own \cup Elsewhere) \ Shown) :
        LET arc == members[link[2]]
        IN  \E p \in Positions(link[2], {issues[link[1]]}) : p > 1 /\ link[3] = arc[p - 1]}

\* The arcs view: a shelf per arc, in reading order, an arrow at each of its ends;
\* and one for the issues of no arc.
ArcShelves == {a \in ReadArcs : Positions(a, Shown) # {}}
ArcNextLinks ==
    {link \in (DOMAIN issues) \X ArcShelves \X (Own \cup Elsewhere) :
        LET arc == members[link[2]]
            p == Most(Positions(link[2], Shown))
        IN  issues[link[1]] = arc[p] /\ p < Len(arc) /\ link[3] = arc[p + 1]}
ArcPrevLinks ==
    {link \in (DOMAIN issues) \X ArcShelves \X (Own \cup Elsewhere) :
        LET arc == members[link[2]]
            p == Least(Positions(link[2], Shown))
        IN  issues[link[1]] = arc[p] /\ p > 1 /\ link[3] = arc[p - 1]}
Unaffiliated == {i \in Shown : \A a \in ArcShelves : i \notin ToSet(members[a])}

(* ---- rails ---- *)

Rows == {n \in DOMAIN issues : window.lo < n /\ n <= window.hi}
InWindow == {issues[n] : n \in Rows}
Out(a) == Positions(a, (Own \cup Elsewhere) \ Shown)

\* build_list_rail: one line per arc with an issue in the window, through those
\* issues in reading order.
ListArcs == {a \in ReadArcs : Positions(a, InWindow) # {}}

\* gap_after: the arc is elsewhere between two issues of the window.
GapAfter(a, p) ==
    \E q \in Positions(a, InWindow) :
        /\ p < q /\ ~\E r \in Positions(a, InWindow) : p < r /\ r < q
        /\ \E o \in Out(a) : p < o /\ o < q

\* Where a line comes from, and goes to: elsewhere before it fades.
EntersFromElsewhere(a, p) == \E o \in Out(a) : o < p
ExitsElsewhere(a, p) == \E o \in Out(a) : o > p

\* is_external: the line is drawn left of the spine.
ListExternal(a) ==
    LET ps == Positions(a, InWindow)
    IN  \/ EntersFromElsewhere(a, Least(ps)) \/ ExitsElsewhere(a, Most(ps))
        \/ \E p \in ps : GapAfter(a, p)

\* build_gallery_rail: a node per shelf with issues of the arc, for arcs that are
\* on two shelves or go elsewhere.
VisibleShelves == {s \in Shelves : s[1] - 1 < window.hi /\ s[2] - 1 >= window.lo}
ShelvesOf(a) == {s \in Shelves : On(s) \cap ToSet(members[a]) # {}}
GalleryArcs ==
    {a \in ReadArcs : /\ ShelvesOf(a) \cap VisibleShelves # {}
                      /\ (Cardinality(ShelvesOf(a)) > 1 \/ Out(a) # {})}

FirstShelf(a) == Least({s[1] : s \in ShelvesOf(a) \cap VisibleShelves})
LastShelf(a) == Most({s[1] : s \in ShelvesOf(a) \cap VisibleShelves})

\* gap_after of a shelf's node: between the issue with the greatest id on it and
\* the one with the least id on the arc's next shelf the arc is elsewhere.
ShelfGapAfter(a, s) ==
    \E t \in ShelvesOf(a) \cap VisibleShelves :
        /\ s[2] < t[1]
        /\ ~\E u \in ShelvesOf(a) \cap VisibleShelves : s[2] < u[1] /\ u[2] < t[1]
        /\ \E o \in Out(a) :
              /\ Position(a, Most(On(s) \cap ToSet(members[a]))) < o
              /\ o < Position(a, Least(On(t) \cap ToSet(members[a])))

\* A line that goes on above or below the window fades, whatever comes before.
GalleryExternal(a) ==
    LET ps == Positions(a, Shown)
    IN  \/ /\ \A s \in ShelvesOf(a) : s[1] >= FirstShelf(a)
           /\ EntersFromElsewhere(a, Least(ps))
        \/ /\ \A s \in ShelvesOf(a) : s[1] <= LastShelf(a)
           /\ ExitsElsewhere(a, Most(ps))
        \/ \E s \in ShelvesOf(a) \cap VisibleShelves : ShelfGapAfter(a, s)

\* Mutant: a lane is free again on the row its line ends on.
EndedMutant(last, first) == last <= first

\* The line of a lane has ended above the row another one starts on.
Ended(last, first) == last < first

\* rail gives the first and last row of each line, and the arcs on the left. Lines
\* are drawn side by side, by their first row.
DrawnBefore(rail, b, a) ==
    /\ b \in rail.left <=> a \in rail.left
    /\ rail.first[b] < rail.first[a] \/ (rail.first[b] = rail.first[a] /\ b < a)

\* Lane l has no line yet when a's is drawn, or its latest one has ended.
Free(rail, lane, a, l) ==
    \A b \in DOMAIN rail.first :
        (/\ DrawnBefore(rail, b, a) /\ lane[b] = l
         /\ ~\E c \in DOMAIN rail.first :
                DrawnBefore(rail, b, c) /\ DrawnBefore(rail, c, a) /\ lane[c] = l)
        => Ended(rail.last[b], rail.first[a])

FirstFree(rail, lane, a) ==
    Least({l \in 0..Cardinality(DOMAIN rail.first) : Free(rail, lane, a, l)})

\* Each line takes the first lane that is free.
LanesOf(rail) ==
    LET lane[a \in DOMAIN rail.first] == FirstFree(rail, lane, a) IN lane

ListRail ==
    [first |-> [a \in ListArcs |-> IndexOf(members[a][Least(Positions(a, InWindow))])],
     last |-> [a \in ListArcs |-> IndexOf(members[a][Most(Positions(a, InWindow))])],
     left |-> {a \in ListArcs : ListExternal(a)}]
ListLanes == LanesOf(ListRail)

GalleryRail ==
    [first |-> [a \in GalleryArcs |-> FirstShelf(a)],
     last |-> [a \in GalleryArcs |-> LastShelf(a)],
     left |-> {a \in GalleryArcs : GalleryExternal(a)}]
GalleryLanes == LanesOf(GalleryRail)

(* ---- properties ---- *)

VolumePageTypes ==
    /\ volume \in VolumePages
    /\ issues \in Seq(Own) /\ IsInjective(issues)
    /\ unasked \subseteq Arcs /\ DOMAIN members \subseteq Arcs
    /\ \/ window = Unopened
       \/ /\ issues # <<>>
          /\ window.lo < window.hi \/ window.lo = Len(issues)
          /\ window.lo <= window.hi /\ window.hi <= Len(issues)

\* An arc that lists the page's issues that name it.
Complete(a) == \A i \in Shown : a \in volume.credits[i] => i \in ToSet(members[a])

\* No step of an arc is lost: who reads an arc along the shelves finds its next
\* issue next on the page or behind an arrow, and its previous one likewise, also
\* where the arc goes to other volumes in the middle of a run, comes back to an
\* issue out of order, or other arcs begin and end around it. And where an arc leaves
\* the page, the list, the arcs and the shelves agree; who is on none of the arcs'
\* shelves has no arrow.
NoStepLost ==
    /\ \A link \in RowNextLinks \cup ArcNextLinks : Complete(link[2]) => link \in NextLinks
    /\ \A link \in RowPrevLinks \cup ArcPrevLinks : Complete(link[2]) => link \in PrevLinks
    /\ \A link \in NextLinks \cup PrevLinks : issues[link[1]] \notin Unaffiliated
    /\ \A a \in ReadArcs, n \in DOMAIN issues :
           (Complete(a) /\ issues[n] \in ToSet(members[a])) =>
               LET p == Position(a, issues[n])
               IN  /\ p < Len(members[a]) =>
                         \/ n < Len(issues) /\ issues[n + 1] = members[a][p + 1]
                         \/ <<n, a, members[a][p + 1]>> \in NextLinks
                   /\ p > 1 =>
                         \/ n > 1 /\ issues[n - 1] = members[a][p - 1]
                         \/ <<n, a, members[a][p - 1]>> \in PrevLinks

\* The left of the list's spine is for arcs that touch another volume.
ListSides == \A a \in ListArcs : ListExternal(a) <=> Out(a) # {}

\* Two lines of the gallery's rail that share a lane share no row.
LanesApart ==
    \A a, b \in GalleryArcs :
        (a # b /\ (GalleryExternal(a) <=> GalleryExternal(b)))
        => \/ LastShelf(a) < FirstShelf(b) \/ LastShelf(b) < FirstShelf(a)
           \/ GalleryLanes[a] # GalleryLanes[b]

\* The shelves on show are those with an issue in the window.
WindowShown ==
    window # Unopened =>
        /\ window.lo < Len(issues) => InWindow # {}
        /\ VisibleShelves = {s \in Shelves : On(s) \cap InWindow # {}}
        /\ InWindow \subseteq UNION {On(s) : s \in VisibleShelves}

\* What is drawn beside the issues is the story they tell, wherever the window cuts
\* it: no issue of the window is hidden and no empty shelf takes a row, an arc is to
\* the left of the list's spine just when it touches another volume, though those
\* of its issues may lie outside the window, and two lines of the gallery's rail
\* that share a lane share no row.
RailsDrawn == WindowShown /\ ListSides /\ LanesApart

\* LanesApart of the list's rail, "interval-graph coloring keyed by first-node row".
ListLanesApart ==
    \A a, b \in ListArcs :
        LET rows(c) == {IndexOf(members[c][p]) : p \in Positions(c, InWindow)}
        IN  (a # b /\ (ListExternal(a) <=> ListExternal(b)) /\ ListLanes[a] = ListLanes[b])
            => Most(rows(a)) < Least(rows(b)) \/ Most(rows(b)) < Least(rows(a))

=============================================================================
