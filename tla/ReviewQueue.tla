----------------------------- MODULE ReviewQueue -----------------------------
(***************************************************************************)
(* The review queue: the files that wait for a person, grouped by the series    *)
(* their names tell, the biggest groups first, as many whole groups as fit under  *)
(* a cap on rows. A listing takes two looks at the tables: a cheap one that picks *)
(* the groups, and one that loads their files. Meanwhile other reviewers settle    *)
(* files, jobs add some, and a scan finds a file under another name.                *)
(*                                                                         *)
(* Left out: candidates, suggested volumes, the order inside a group; what settling *)
(* writes (FileMatches).                                                     *)
(***************************************************************************)
EXTENDS Naturals, FiniteSets, FiniteSetsExt

CONSTANTS
    QueueFiles,
    Series,         \* numbered in the order of their names
    RowCap,         \* PENDING_GROUP_ROW_CAP
    MaxEvents       \* bound on files that arrive or are renamed

ASSUME ReviewQueueAssumption ==
    IsFiniteSet(QueueFiles) /\ Series \subseteq Nat /\ RowCap \in Nat \ {0}

VARIABLES
    waiting,        \* pending or unmatched, and not excluded
    band,           \* files within the confidences asked for
    series,         \* [QueueFiles -> Series]: parsed from the current path
    listing,        \* the listing being made
    screen,         \* the listing the reviewer looks at
    events          \* used up of the bound

reviewQueueVars == <<waiting, band, series, listing, screen, events>>

\* still: no file has come or moved since the cheap look.
Listings == [pc : {"idle", "picked"}, keys : SUBSET Series, ids : SUBSET QueueFiles,
             cap : BOOLEAN, still : BOOLEAN]
\* done: history, the files settled since the cheap look.
Screens == [rows : SUBSET QueueFiles, cap : BOOLEAN, done : SUBSET QueueFiles,
            still : BOOLEAN]

ReviewQueueInit ==
    /\ waiting \in SUBSET QueueFiles
    /\ band \in {QueueFiles} \cup {QueueFiles \ {f} : f \in QueueFiles}
    /\ series \in [QueueFiles -> Series]
    /\ listing = [pc |-> "idle", keys |-> {}, ids |-> {}, cap |-> FALSE, still |-> TRUE]
    /\ screen = [rows |-> {}, cap |-> FALSE, done |-> {}, still |-> FALSE]
    /\ events = 0

(* ---- groups ---- *)

Bucket(s) == {f \in waiting \cap band : series[f] = s}
Buckets == {s \in Series : Bucket(s) # {}}

BiggerFirst(s, t) ==
    \/ Cardinality(Bucket(s)) > Cardinality(Bucket(t))
    \/ Cardinality(Bucket(s)) = Cardinality(Bucket(t)) /\ s <= t

RowsUpTo(s) == UNION {Bucket(t) : t \in {u \in Buckets : BiggerFirst(u, s)}}

\* The first group whatever its size, then those with which the cap is not crossed.
Selected ==
    {s \in Buckets : \/ \A t \in Buckets : BiggerFirst(s, t)
                     \/ Cardinality(RowsUpTo(s)) <= RowCap}

(* ---- a listing ---- *)

\* Mutant: the rows are cut at the cap.
PickRowsMutant ==
    /\ listing.pc = "idle"
    /\ LET rows == UNION {Bucket(s) : s \in Selected}
           some == IF Cardinality(rows) <= RowCap THEN rows
                   ELSE CHOOSE S \in SUBSET rows : Cardinality(S) = RowCap
       IN listing' = [pc |-> "picked", keys |-> Selected, cap |-> Selected # Buckets,
                      ids |-> some, still |-> TRUE]
    /\ UNCHANGED <<waiting, band, series, screen, events>>

\* _list_pending_files_by_group and the choice of groups.
PickGroups ==
    /\ listing.pc = "idle"
    /\ listing' = [pc |-> "picked", keys |-> Selected, cap |-> Selected # Buckets,
                   ids |-> UNION {Bucket(s) : s \in Selected}, still |-> TRUE]
    /\ UNCHANGED <<waiting, band, series, screen, events>>

\* list_pending_matches of those files, put into groups again; a file whose group
\* was not picked is dropped.
ShowGroups ==
    /\ listing.pc = "picked"
    /\ screen' = [rows |-> {f \in listing.ids \cap waiting \cap band : series[f] \in listing.keys},
                  cap |-> listing.cap, done |-> listing.ids \ waiting, still |-> listing.still]
    /\ listing' = [listing EXCEPT !.pc = "idle", !.ids = {}, !.keys = {}]
    /\ UNCHANGED <<waiting, band, series, events>>

(* ---- meanwhile ---- *)

\* Confirmed, rejected, made local or excluded, by whoever.
SettleOne(f) ==
    /\ f \in waiting
    /\ waiting' = waiting \ {f}
    /\ screen' = [screen EXCEPT !.done = @ \cup {f}]
    /\ UNCHANGED <<band, series, listing, events>>

Stir ==
    /\ events < MaxEvents
    /\ events' = events + 1
    /\ listing' = [listing EXCEPT !.still = FALSE]
    /\ screen' = [screen EXCEPT !.still = FALSE]

\* A job leaves a file for review.
Arrive(f) ==
    /\ f \notin waiting
    /\ waiting' = waiting \cup {f}
    /\ Stir
    /\ UNCHANGED <<band, series>>

\* A scan finds the file's content under another name.
Rename(f, s) ==
    /\ series[f] # s
    /\ series' = [series EXCEPT ![f] = s]
    /\ Stir
    /\ UNCHANGED <<waiting, band>>

ReviewQueueNext ==
    \/ PickGroups \/ ShowGroups
    \/ \E f \in QueueFiles :
          SettleOne(f) \/ Arrive(f) \/ \E s \in Series : Rename(f, s)

ReviewQueueSpec == ReviewQueueInit /\ [][ReviewQueueNext]_reviewQueueVars

(* ---- properties ---- *)

ReviewQueueTypes ==
    /\ waiting \subseteq QueueFiles
    /\ listing \in Listings
    /\ screen \in Screens

\* Groups are shown whole or not at all: while no file comes or moves, a group with
\* a file on the screen has all its waiting files there, though others settle files
\* between the two looks and after them. Unless the listing says that it is partial
\* it has everything that waits, and it is not empty while something waits, however
\* big the first group is.
GroupsWhole ==
    screen.still =>
        /\ \A f \in screen.rows : \A g \in waiting \cap band :
              series[g] = series[f] => g \in screen.rows
        /\ ~screen.cap => waiting \cap band \subseteq screen.rows
        /\ (screen.rows = {} /\ screen.done = {}) => waiting \cap band = {}

\* "Atomic groups make the count match the reviewer's mental model: confirm one, the
\* count drops by one."
CountDropsByOne ==
    [][(screen'.done = {} /\ screen.still /\ screen'.still /\ Cardinality(screen.done) = 1
            /\ screen.done \subseteq screen.rows)
         => Cardinality(screen'.rows) < Cardinality(screen.rows)]_reviewQueueVars

=============================================================================
