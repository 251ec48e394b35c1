------------------------------ MODULE Duplicates ------------------------------
(***************************************************************************)
(* The duplicates inspector: issues that several files claim, on a page of all  *)
(* of them or of one, each with the file recommended to be kept. Administrators  *)
(* take the others off the issue (make them supplements), each by a page of their *)
(* own, rendered at different times; a page takes two looks at the tables.         *)
(*                                                                         *)
(* Left out: duplicates by hash, names and paths; excluding a file, which leaves   *)
(* its claim as it is; the refresh a page asks for (Revalidate).                    *)
(***************************************************************************)
EXTENDS Naturals, FiniteSets, Sequences, FiniteSetsExt

CONSTANTS
    DupFiles,
    DupIssues,
    VolumeOf,       \* [DupIssues -> Nat]: of the cached issue, 0 if it has none
    Measured,       \* what scans may say of the files: [DupFiles -> Measures]
    Claims,         \* matches to begin with: [DupFiles -> DupIssues \cup {NoClaim}]
    NoClaim,        \* not matched, or not as a resolved match
    Admins,
    GroupLimit,     \* limit
    MaxShifts       \* bound on changes by others

VARIABLES
    measure,        \* [DupFiles -> Measures]
    claims,         \* AUTO and CONFIRMED rows of file_matches
    covered,        \* issues whose payload has a cover
    hydrating,      \* volumes whose issues are to be fetched
    inspector,      \* [Admins -> Inspectors]: the page an administrator has
    calm,           \* history: issues with a best file to begin with, whose files
                    \* nobody but administrators has touched since
    shifts          \* used up of the bound

duplicatesVars == <<measure, claims, covered, hydrating, inspector, calm, shifts>>

Measures ==
    [pages : Nat, info : Nat, interior : Nat, cover : Nat, size : Nat, format : Nat,
     scanned : Nat]

ASSUME DuplicatesAssumption ==
    /\ IsFiniteSet(DupFiles) /\ IsFiniteSet(DupIssues) /\ NoClaim \notin DupIssues
    /\ Claims \subseteq [DupFiles -> DupIssues \cup {NoClaim}]
    /\ VolumeOf \in [DupIssues -> Nat] /\ GroupLimit \in Nat \ {0}
    /\ Measured \subseteq [DupFiles -> Measures]

Groups == [issue : DupIssues, files : SUBSET DupFiles, keeper : DupFiles]
\* still: nobody has changed a match since the first look.
Inspectors ==
    [pc : {"closed", "counted", "listed", "compared"}, listed : SUBSET DupIssues,
     groups : SUBSET Groups, deferred : SUBSET Nat, still : BOOLEAN]
Blank == [pc |-> "closed", listed |-> {}, groups |-> {}, deferred |-> {}, still |-> TRUE]

(* ---- quality ---- *)

\* _page_bucket: 2 plausible, 1 suspect, 0 a fragment.
PageBucket(f) ==
    IF measure[f].pages >= 15 THEN 2 ELSE IF measure[f].pages >= 5 THEN 1 ELSE 0

\* A page from the middle of the archive, else the cover.
ResolutionArea(f) ==
    IF measure[f].interior # 0 THEN measure[f].interior ELSE measure[f].cover

\* The tuple compared, best first.
Score(f) ==
    LET m == measure[f]
    IN  <<PageBucket(f), m.info, ResolutionArea(f), m.size, m.format, m.pages, m.scanned>>

Outranks(f, g) ==
    \E n \in DOMAIN Score(f) : /\ Score(f)[n] > Score(g)[n]
                               /\ \A k \in 1..(n - 1) : Score(f)[k] = Score(g)[k]

\* Mutant: the files are ranked by their pages alone.
KeepersMutant(S) == {f \in S : \A g \in S : PageBucket(g) <= PageBucket(f)}

\* What the sort may put first: equal scores stay as the database gave them.
Keepers(S) == {f \in S : ~\E g \in S : Outranks(g, f)}

\* No other file that claims the issue has as good a score, or a better one.
BestOf(f, i) ==
    claims[f] = i /\ \A g \in DupFiles \ {f} : claims[g] = i => Outranks(f, g)

DuplicatesInit ==
    /\ measure \in Measured
    /\ claims \in Claims
    /\ covered \in SUBSET DupIssues
    /\ hydrating = {}
    /\ inspector = [a \in Admins |-> Blank]
    /\ calm = {i \in DupIssues : \E f \in DupFiles : BestOf(f, i)}
    /\ shifts = 0

(* ---- groups ---- *)

Claiming(i) == {f \in DupFiles : claims[f] = i}
Multiple == {i \in DupIssues : Cardinality(Claiming(i)) > 1}

Competing(i) == Cardinality(Claiming(i)) >= 2

\* What can be rendered of the issues S: each with one of its possible keepers.
Rendered(S) ==
    LET choices == {k \in [S -> DupFiles] : \A i \in S : k[i] \in Keepers(Claiming(i))}
    IN  {{[issue |-> i, files |-> Claiming(i), keeper |-> k[i]] : i \in S} : k \in choices}

ShowPage(a, pc, listed, groups, deferred, still) ==
    inspector' = [inspector EXCEPT ![a] =
        [pc |-> pc, listed |-> listed, groups |-> groups, deferred |-> deferred,
         still |-> still]]

\* The first look: the issues with most files, up to the limit.
CountGroups(a) ==
    /\ \E S \in kSubset(Min({GroupLimit, Cardinality(Multiple)}), Multiple) :
          /\ \A i \in S, j \in Multiple \ S :
                Cardinality(Claiming(i)) >= Cardinality(Claiming(j))
          /\ ShowPage(a, "counted", S, {}, {}, TRUE)
    /\ UNCHANGED <<measure, claims, covered, hydrating, calm, shifts>>

\* Mutant: what has no cover is left out in silence.
DeferredMutant(S) == {}

\* The volumes of the issues that have no cover yet.
Deferred(S) == {VolumeOf[i] : i \in S \ covered} \ {0}

\* The second look: the files of those issues, as they claim them now; the page
\* asks for the covers it misses.
BuildGroups(a) ==
    LET S == {i \in inspector[a].listed : Competing(i)}
    IN  /\ inspector[a].pc = "counted"
        /\ \E groups \in Rendered(S \cap covered) :
              ShowPage(a, "listed", inspector[a].listed, groups, Deferred(S), inspector[a].still)
        /\ hydrating' = hydrating \cup Deferred(S)
        /\ UNCHANGED <<measure, claims, covered, calm, shifts>>

\* The page of one issue; without a group it sends back to the issue's own page.
Compare(a, i) ==
    /\ Competing(i) /\ i \in covered
    /\ \E groups \in Rendered({i}) : ShowPage(a, "compared", {i}, groups, {}, TRUE)
    /\ UNCHANGED <<measure, claims, covered, hydrating, calm, shifts>>

\* The refresh of a volume's issues ends: for some of them a cover is there.
RefreshIssues(v) ==
    /\ v \in hydrating
    /\ hydrating' = hydrating \ {v}
    /\ \E S \in SUBSET {i \in DupIssues : VolumeOf[i] = v} : covered' = covered \cup S
    /\ UNCHANGED <<measure, claims, inspector, calm, shifts>>

(* ---- matches ---- *)

Unsettle ==
    inspector' = [a \in Admins |-> [inspector[a] EXCEPT !.still = FALSE]]

\* A file the page does not recommend leaves the issue it claims now, whichever it
\* claimed when the page was rendered; without an issue and volume nothing happens.
MakeSupplement(a, f) ==
    /\ \E g \in inspector[a].groups : f \in g.files \ {g.keeper}
    /\ claims[f] # NoClaim
    /\ VolumeOf[claims[f]] # 0
    /\ claims' = [claims EXCEPT ![f] = NoClaim]
    /\ Unsettle
    /\ UNCHANGED <<measure, covered, hydrating, calm, shifts>>

\* A reviewer or a matching job moves a file, or takes it from its issue.
ShiftMatch(f, i) ==
    /\ shifts < MaxShifts
    /\ claims[f] # i
    /\ claims' = [claims EXCEPT ![f] = i]
    /\ calm' = calm \ {i, claims[f]}
    /\ shifts' = shifts + 1
    /\ Unsettle
    /\ UNCHANGED <<measure, covered, hydrating>>

\* A scan fills in the page sampled from the middle of a file that has none.
SampleInterior(f, area) ==
    /\ shifts < MaxShifts
    /\ measure[f].interior = 0
    /\ measure' = [measure EXCEPT ![f].interior = area]
    /\ calm' = calm \ {claims[f]}
    /\ shifts' = shifts + 1
    /\ UNCHANGED <<claims, covered, hydrating, inspector>>

DuplicatesNext ==
    \/ \E a \in Admins : \/ CountGroups(a) \/ BuildGroups(a)
                         \/ \E i \in DupIssues : Compare(a, i)
                         \/ \E f \in DupFiles : MakeSupplement(a, f)
    \/ \E i \in DupIssues : RefreshIssues(VolumeOf[i])
    \/ \E f \in DupFiles, i \in DupIssues \cup {NoClaim} : ShiftMatch(f, i)
    \/ \E f \in DupFiles, area \in {1, 3} : SampleInterior(f, area)

DuplicatesSpec == DuplicatesInit /\ [][DuplicatesNext]_duplicatesVars

(* ---- properties ---- *)

\* Types; whatever happens between the two looks, a group on a page is a choice:
\* several files, and one of them to keep.
DuplicatesTypes ==
    /\ \A f \in DupFiles : measure[f] \in Measures
    /\ claims \in [DupFiles -> DupIssues \cup {NoClaim}]
    /\ covered \subseteq DupIssues /\ calm \subseteq DupIssues
    /\ hydrating \subseteq {VolumeOf[i] : i \in DupIssues} \ {0}
    /\ \A a \in Admins : \A g \in inspector[a].groups :
          g.keeper \in g.files /\ Cardinality(g.files) >= 2

\* The last copy is kept: however many administrators take files off an issue, each
\* by a page that was right when it was rendered, the list's or the issue's own, a
\* best file stays on it; unless others move or scan its files, or the best two had
\* equal scores.
LastCopyKept ==
    \A i \in calm : \E f \in DupFiles : BestOf(f, i)

\* No group is lost in silence: on a page that no match has changed since, every
\* issue several files claim has its group, with all of its files, or a volume that
\* is announced, unless groups at least as large fill the page. (An issue with
\* neither cover nor volume is not announced.)
GroupsAccounted ==
    \A a \in Admins : LET page == inspector[a] IN
        (page.pc = "listed" /\ page.still) =>
            \A i \in Multiple :
                \/ \E g \in page.groups : g.issue = i /\ g.files = Claiming(i)
                \/ VolumeOf[i] = 0 /\ i \notin covered
                \/ VolumeOf[i] \in page.deferred
                \/ /\ i \notin page.listed /\ Cardinality(page.listed) = GroupLimit
                   /\ \A j \in page.listed :
                         Cardinality(Claiming(j)) >= Cardinality(Claiming(i))

=============================================================================
