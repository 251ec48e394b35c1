------------------------------ MODULE Hydration ------------------------------
(***************************************************************************)
(* A page shows rows ComicVine has not been asked about yet: the server      *)
(* enqueues their refreshes, the page polls for the rows it waits for and     *)
(* swaps them in, and when none is left it says so, once. The library's cards *)
(* collect what they wait for from the document, as strings; the issues of a  *)
(* volume or an arc get it from the server and from paging, as numbers.       *)
(*                                                                         *)
(* Left out: how a refresh waits, retries and is enqueued once (Revalidate),  *)
(* the HTML of a row, queue positions, which rows a page holds (Listing).     *)
(***************************************************************************)
EXTENDS Naturals, FiniteSets

CONSTANTS
    Entities,       \* volumes of the library, or issues of a volume or arc
    Polls,          \* poll requests in flight; the timer does not wait for one
    MaxAttempts,    \* polls without progress before the page gives up
    MaxErrors       \* bound on requests and jobs that fail

ASSUME HydrationAssumption == MaxAttempts \in Nat \ {0} /\ MaxErrors \in Nat

VARIABLES
    page,           \* "cards" or "issues", for good
    depth,          \* [Entities -> Depths]: what cv_volumes or cv_issues holds
    job,            \* entities with a refresh under way
    shown,          \* [Entities -> {"hidden", "stale", "fresh"}]
    pending,        \* pendingIds
    polling,        \* there is a timer, _arPollHandle
    attempts,       \* _arPollAttempts
    fired,          \* _arCompleteFired
    poll,           \* [Polls -> PollStates]
    errors          \* used up of the bound

hydrationVars == <<page, depth, job, shown, pending, polling, attempts, fired, poll, errors>>

Depths == {"stub", "bulk", "full"}
Ids == {"number", "string"} \X Entities
PollStates == [pc : {"none", "asked", "answered"}, ids : SUBSET Entities]
NoPoll == [pc |-> "none", ids |-> {}]

\* What the server takes for hydrated: any row that was fetched, in bulk too.
Hydrated(e) == depth[e] # "stub"

HydrationInit ==
    /\ page \in {"cards", "issues"}
    /\ depth \in [Entities -> IF page = "cards" THEN {"stub", "full"} ELSE Depths]
    /\ job = {}
    /\ shown = [e \in Entities |-> "hidden"]
    /\ pending = {} /\ polling = FALSE /\ attempts = 0 /\ fired = FALSE
    /\ poll = [p \in Polls |-> NoPoll]
    /\ errors = 0

Appear(S) ==
    shown' = [e \in Entities |-> IF e \notin S THEN shown[e]
                                 ELSE IF Hydrated(e) THEN "fresh" ELSE "stale"]

\* _arStartPolling starts the count of attempts anew; with a timer it is left.
Polling(waiting) ==
    /\ polling' = waiting
    /\ attempts' = IF waiting /\ ~polling THEN 0 ELSE attempts

(* ---- the page and its paging ---- *)

\* Mutant: only the cards that come in are looked at.
ScanPendingMutant(S) == {"string"} \X {e \in S : shown'[e] = "stale"}

\* The cards S come in; whatever is stale in the document is waited for.
ScanPending(S) == {"string"} \X {e \in Entities : shown'[e] = "stale"}

\* library_index and library_fragment render cards and enqueue their stubs;
\* then scanPending, which looks at every card in the document.
ShowCards(S) ==
    /\ page = "cards"
    /\ \A e \in S : shown[e] = "hidden"
    /\ Appear(S)
    /\ job' = job \cup {e \in S : ~Hydrated(e)}
    /\ pending' = ScanPending(S)
    /\ Polling(pending' # {})
    /\ UNCHANGED <<page, depth, fired, poll, errors>>

\* What an endpoint that is sent issues enqueues: all but the full ones, also those
\* that have no row yet.
NeedsFetch(S) == {e \in S : depth[e] # "full"}

\* volume_page and arc_page: the window's issues that are not full are enqueued
\* and handed to the page.
OpenIssues(S) ==
    /\ page = "issues"
    /\ \A e \in Entities : shown[e] = "hidden"
    /\ Appear(S)
    /\ job' = job \cup NeedsFetch(S)
    /\ pending' = {"number"} \X NeedsFetch(S)
    /\ Polling(pending' # {})
    /\ UNCHANGED <<page, depth, fired, poll, errors>>

\* loadMore and its like: hydrateRange posts the new rows and waits for all of
\* them; the post can be lost.
RevealIssues(S, lost) ==
    /\ page = "issues"
    /\ \E e \in Entities : shown[e] # "hidden"
    /\ \A e \in S : shown[e] = "hidden"
    /\ Appear(S)
    /\ IF lost THEN errors < MaxErrors /\ errors' = errors + 1 /\ UNCHANGED job
       ELSE job' = job \cup NeedsFetch(S) /\ UNCHANGED errors
    /\ pending' = pending \cup ({"number"} \X S)
    /\ fired' = FALSE
    /\ Polling(TRUE)
    /\ UNCHANGED <<page, depth, poll>>

(* ---- the jobs ---- *)

\* A refresh ends: the row is full, or ComicVine refused.
EndJob(e) ==
    /\ e \in job
    /\ job' = job \ {e}
    /\ \/ depth' = [depth EXCEPT ![e] = "full"] /\ UNCHANGED errors
       \/ errors < MaxErrors /\ errors' = errors + 1 /\ UNCHANGED depth
    /\ UNCHANGED <<page, shown, pending, polling, attempts, fired, poll>>

\* The bulk walk over a volume's issues ends.
BulkHydrate ==
    /\ page = "issues"
    /\ \E e \in Entities : depth[e] = "stub"
    /\ depth' = [e \in Entities |-> IF depth[e] = "stub" THEN "bulk" ELSE depth[e]]
    /\ UNCHANGED <<page, job, shown, pending, polling, attempts, fired, poll, errors>>

(* ---- the poller ---- *)

Patience == attempts < MaxAttempts

\* Mutant: giving up counts as complete.
PollMutant(p) ==
    /\ polling
    /\ poll[p].pc = "none"
    /\ attempts' = attempts + 1
    /\ polling' = (pending # {} /\ Patience)
    /\ fired' = (fired \/ ~polling')
    /\ poll' = IF polling' THEN [poll EXCEPT ![p] = [pc |-> "asked",
                                                     ids |-> {id[2] : id \in pending}]]
               ELSE poll
    /\ UNCHANGED <<page, depth, job, shown, pending, errors>>

\* _arPollOnce up to its request: nothing to wait for, no patience left, or ask.
Poll(p) ==
    /\ polling
    /\ poll[p].pc = "none"
    /\ attempts' = attempts + 1
    /\ polling' = (pending # {} /\ Patience)
    /\ fired' = (fired \/ pending = {})
    /\ poll' = IF polling' THEN [poll EXCEPT ![p] = [pc |-> "asked",
                                                     ids |-> {id[2] : id \in pending}]]
               ELSE poll
    /\ UNCHANGED <<page, depth, job, shown, pending, errors>>

\* library_hydration, volume_issues_hydration, arc_issues_hydration.
AnswerPoll(p) ==
    /\ poll[p].pc = "asked"
    /\ poll' = [poll EXCEPT ![p] = [pc |-> "answered", ids |-> {e \in @.ids : Hydrated(e)}]]
    /\ UNCHANGED <<page, depth, job, shown, pending, polling, attempts, fired, errors>>

\* Mutant: an answer without a row counts as progress.
AttemptsAfterMutant(ids) == 0

\* Only rows that came in restore the patience.
AttemptsAfter(ids) == IF ids # {} THEN 0 ELSE attempts

\* The answer: rows are swapped, ids deleted as strings, patience restored.
ReceivePoll(p) ==
    /\ poll[p].pc = "answered"
    /\ poll' = [poll EXCEPT ![p] = NoPoll]
    /\ shown' = [e \in Entities |-> IF e \in poll[p].ids THEN "fresh" ELSE shown[e]]
    /\ pending' = pending \ ({"string"} \X poll[p].ids)
    /\ attempts' = AttemptsAfter(poll[p].ids)
    /\ polling' = (polling /\ pending' # {})
    /\ fired' = (fired \/ pending' = {})
    /\ UNCHANGED <<page, depth, job, errors>>

LosePoll(p) ==
    /\ poll[p].pc # "none"
    /\ errors < MaxErrors
    /\ errors' = errors + 1
    /\ poll' = [poll EXCEPT ![p] = NoPoll]
    /\ UNCHANGED <<page, depth, job, shown, pending, polling, attempts, fired>>

PollStep(p) == AnswerPoll(p) \/ ReceivePoll(p)

HydrationNext ==
    \/ \E S \in SUBSET Entities \ {{}} :
          ShowCards(S) \/ OpenIssues(S) \/ \E lost \in BOOLEAN : RevealIssues(S, lost)
    \/ \E e \in Entities : EndJob(e)
    \/ BulkHydrate
    \/ \E p \in Polls : Poll(p) \/ PollStep(p) \/ LosePoll(p)

HydrationSpec == HydrationInit /\ [][HydrationNext]_hydrationVars

\* The timer ticks, requests are answered, workers run.
HydrationFairness ==
    /\ WF_hydrationVars(\E p \in Polls : Poll(p))
    /\ \A p \in Polls : WF_hydrationVars(PollStep(p))
    /\ \A e \in Entities : WF_hydrationVars(EndJob(e))

(* ---- properties ---- *)

HydrationTypes ==
    /\ page \in {"cards", "issues"}
    /\ depth \in [Entities -> Depths]
    /\ job \subseteq Entities
    /\ shown \in [Entities -> {"hidden", "stale", "fresh"}]
    /\ pending \subseteq Ids
    /\ polling \in BOOLEAN /\ fired \in BOOLEAN
    /\ attempts \in 0..MaxAttempts + 1
    /\ poll \in [Polls -> PollStates]
    /\ errors \in 0..MaxErrors

\* The library says it is complete only when every card on show is, although
\* more cards come in while polls are under way and polls overtake each other.
CompleteIsTrue ==
    [][(page = "cards" /\ ~fired /\ fired')
          => \A e \in Entities : shown'[e] # "stale"]_hydrationVars

\* The library does not poll for ever: with every answer the cards it waits for
\* get fewer, and without one its patience runs out.
PollingEnds == (page = "cards") => []<>~polling

\* The page stopped asking before it had everything.
GaveUp == ~polling /\ pending # {}

\* A stale card whose refresh ends well while the page polls is swapped in, unless
\* the page gives up first: none is left behind by a poll that says it is complete.
CardsComeIn ==
    \A e \in Entities :
        (page = "cards" /\ shown[e] = "stale" /\ depth[e] = "full" /\ polling)
            ~> (shown[e] = "fresh" \/ GaveUp)

\* "Fired by setupAutoRefresh once every pending issue in the visible window has
\* been hydrated and swapped in."
IssuesComplete ==
    (page = "issues" /\ polling /\ \A e \in Entities : shown[e] # "stale") ~> fired

=============================================================================
