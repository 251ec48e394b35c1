----------------------------- MODULE Revalidate ------------------------------
(***************************************************************************)
(* Background refreshes of one ComicVine entity. A refresh has a job id      *)
(* made from the entity, so that asking twice is asking once; a refresh     *)
(* that is rate-limited leaves a delayed copy under another id and a marker  *)
(* that stops new ones. enqueue_revalidate asks Redis five things in a row    *)
(* (marker, job, status, delete, enqueue) and other callers and the workers   *)
(* act in between.                                                         *)
(*                                                                         *)
(* RQ is modelled from how the code uses it: an id is pushed on a lane even   *)
(* if it is there; an id whose record is gone is skipped; a worker writes the  *)
(* record of the job it ran, whatever became of it; records expire.          *)
(*                                                                         *)
(* Left out: the order of a lane, what a refresh stores (CvCache).           *)
(***************************************************************************)
EXTENDS Naturals

CONSTANTS
    Callers,        \* page renders, polls, match jobs
    Lanes,          \* the queues default and interactive, a worker each
    MaxAsks,        \* bound on calls
    MaxCooldowns,   \* bound on rate limits met
    MaxCuts         \* bound on processes that die

ASSUME RevalidateAssumption == {MaxAsks, MaxCooldowns, MaxCuts} \subseteq Nat

VARIABLES
    hash,           \* status of the job with the deterministic id
    origin,         \* the lane it was enqueued on
    lane,           \* [Lanes -> Nat]: how often the id is on the lane
    retry,          \* [Lanes -> [waiting, queued : Nat]]: delayed copies
    marker,         \* the marker is set
    runner,         \* [Lanes -> RunnerStates]: the worker of the lane
    call,           \* [Callers -> CallStates]
    asks, cooldowns, cuts,  \* used up of the bounds
    wanted,         \* history: someone counts on a refresh that has not begun
    behind,         \* history: callers that were overtaken since they looked
    doubled,        \* history: one of them has deleted or enqueued a job
    lapsed,         \* history: the marker ended before the copy it stands for
    hurt            \* history: the record of a queued job was overwritten or cut

queueVars == <<hash, origin, lane, retry, marker>>
revalidateVars == <<queueVars, runner, call, asks, cooldowns, cuts, wanted, behind,
                    doubled, lapsed, hurt>>

Statuses == {"none", "queued", "started", "terminal"}
RunnerStates == [what : {"refresh", "copy"}, pc : {"idle", "run", "put", "mark", "done"}]
CallStates == [pc : {"idle", "fetch", "status", "delete", "put"}, on : Lanes,
               front : BOOLEAN, from : Lanes]

\* Nobody has asked for the entity yet, or one refresh of it is queued.
RevalidateInit ==
    /\ hash \in {"none", "queued"} /\ origin \in Lanes
    /\ lane = [q \in Lanes |-> IF hash = "queued" /\ q = origin THEN 1 ELSE 0]
    /\ retry = [q \in Lanes |-> [waiting |-> 0, queued |-> 0]]
    /\ marker = FALSE
    /\ runner = [q \in Lanes |-> [what |-> "refresh", pc |-> "idle"]]
    /\ call \in [Callers -> {[pc |-> "idle", on |-> origin, front |-> FALSE, from |-> origin]}]
    /\ asks = 0 /\ cooldowns = 0 /\ cuts = 0
    /\ wanted = (hash = "queued") /\ behind = {} /\ doubled = FALSE
    /\ lapsed = FALSE /\ hurt = FALSE

(* ---- enqueue_revalidate ---- *)

\* Callers in the middle of a call, c apart.
Others(c) == {d \in Callers \ {c} : call[d].pc # "idle"}

Step(c, pc) == call' = [call EXCEPT ![c].pc = pc]

\* A delayed copy has yet to begin.
CopyWaits == \E q \in Lanes : retry[q].waiting + retry[q].queued > 0

\* Is a retry under way already? Then there is nothing to do; nor is there in
\* the minute after it has begun. front is want_at_front: always for volume_issues.
CheckMarker(c, q, front) ==
    /\ call[c].pc = "idle"
    /\ asks < MaxAsks
    /\ asks' = asks + 1
    /\ IF marker
         THEN wanted' = (wanted \/ CopyWaits) /\ UNCHANGED call
         ELSE /\ call' = [call EXCEPT ![c] = [@ EXCEPT !.pc = "fetch", !.on = q, !.front = front]]
              /\ UNCHANGED wanted
    /\ behind' = behind \ {c}
    /\ UNCHANGED <<queueVars, runner, cooldowns, cuts, doubled, lapsed, hurt>>

\* Job.fetch, which also tells the lane that delete will look at.
FetchJob(c) ==
    /\ call[c].pc = "fetch"
    /\ call' = [call EXCEPT ![c] = [@ EXCEPT !.pc = IF hash = "none" THEN "put" ELSE "status",
                                             !.from = origin]]
    /\ UNCHANGED <<queueVars, runner, asks, cooldowns, cuts, wanted, behind, doubled, lapsed, hurt>>

\* get_status: leave a job in flight alone, unless it is to be promoted.
ReadStatus(c) ==
    /\ call[c].pc = "status"
    /\ LET leave == hash = "started" \/ (hash = "queued" /\ ~call[c].front)
       IN  /\ Step(c, IF leave THEN "idle" ELSE "delete")
           /\ wanted' = (wanted \/ (leave /\ hash = "queued"))
    /\ UNCHANGED <<queueVars, runner, asks, cooldowns, cuts, behind, doubled, lapsed, hurt>>

\* Mutant: the lane is left alone.
LessNoneMutant(n) == n

\* LREM of one occurrence, if there is one.
LessOne(n) == IF n > 0 THEN n - 1 ELSE 0

\* existing.delete: one occurrence off the lane it was fetched from, and the record.
DeleteExisting(c) ==
    /\ call[c].pc = "delete"
    /\ lane' = [lane EXCEPT ![call[c].from] = LessOne(@)]
    /\ hash' = "none"
    /\ Step(c, "put")
    /\ doubled' = (doubled \/ c \in behind)
    /\ behind' = behind \cup Others(c)
    /\ UNCHANGED <<origin, retry, marker, runner, asks, cooldowns, cuts, wanted, lapsed, hurt>>

\* queue.enqueue with the deterministic id.
EnqueueRefresh(c) ==
    /\ call[c].pc = "put"
    /\ lane' = [lane EXCEPT ![call[c].on] = @ + 1]
    /\ hash' = "queued" /\ origin' = call[c].on
    /\ Step(c, "idle")
    /\ wanted' = TRUE
    /\ doubled' = (doubled \/ c \in behind)
    /\ behind' = behind \cup Others(c)
    /\ UNCHANGED <<retry, marker, runner, asks, cooldowns, cuts, lapsed, hurt>>

\* The web process or the match job dies in the middle of a call.
CutShort(c) ==
    /\ call[c].pc # "idle"
    /\ cuts < MaxCuts
    /\ cuts' = cuts + 1
    /\ Step(c, "idle")
    /\ hurt' = (hurt \/ call[c].pc = "put")
    /\ UNCHANGED <<queueVars, runner, asks, cooldowns, wanted, behind, doubled, lapsed>>

(* ---- revalidate_cv_entity_job ---- *)

Overtaken == behind' = behind \cup {d \in Callers : call[d].pc # "idle"}

\* The worker takes the id off its lane; without a record there is no job.
Take(q) ==
    /\ runner[q].pc = "idle"
    /\ lane[q] > 0
    /\ lane' = [lane EXCEPT ![q] = @ - 1]
    /\ IF hash = "none"
         THEN UNCHANGED <<hash, runner, wanted>>
         ELSE /\ hash' = "started"
              /\ runner' = [runner EXCEPT ![q] = [what |-> "refresh", pc |-> "run"]]
              /\ wanted' = FALSE
    /\ Overtaken
    /\ UNCHANGED <<origin, retry, marker, call, asks, cooldowns, cuts, doubled, lapsed, hurt>>

\* The same for a delayed copy, whose id is its own.
TakeCopy(q) ==
    /\ runner[q].pc = "idle"
    /\ retry[q].queued > 0
    /\ retry' = [retry EXCEPT ![q].queued = @ - 1]
    /\ runner' = [runner EXCEPT ![q] = [what |-> "copy", pc |-> "run"]]
    /\ wanted' = FALSE
    /\ UNCHANGED <<hash, origin, lane, marker, call, asks, cooldowns, cuts, behind, doubled,
                   lapsed, hurt>>

Runs(q, pc) == runner' = [runner EXCEPT ![q].pc = pc]

\* The entity is fetched and stored, or ComicVine answers with another error,
\* which leaves the row as it is until the next read asks again.
Refresh(q) ==
    /\ runner[q].pc = "run"
    /\ Runs(q, "done")
    /\ UNCHANGED <<queueVars, call, asks, cooldowns, cuts, wanted, behind, doubled, lapsed, hurt>>

\* ComicVine limits the rate.
Limit(q) ==
    /\ runner[q].pc = "run"
    /\ cooldowns < MaxCooldowns
    /\ cooldowns' = cooldowns + 1
    /\ Runs(q, "put")
    /\ wanted' = TRUE
    /\ UNCHANGED <<queueVars, call, asks, cuts, behind, doubled, lapsed, hurt>>

\* Mutant: the error of enqueue_in is swallowed.
PutCopyMutant(q) ==
    /\ runner[q].pc = "put"
    /\ Runs(q, "mark")
    /\ UNCHANGED <<queueVars, call, asks, cooldowns, cuts, wanted, behind, doubled, lapsed, hurt>>

\* _reschedule_revalidate: enqueue_in, on the lane the job came from ...
PutCopy(q) ==
    /\ runner[q].pc = "put"
    /\ retry' = [retry EXCEPT ![q].waiting = @ + 1]
    /\ Runs(q, "mark")
    /\ UNCHANGED <<hash, origin, lane, marker, call, asks, cooldowns, cuts, wanted, behind,
                   doubled, lapsed, hurt>>

\* ... and then the marker.
SetMarker(q) ==
    /\ runner[q].pc = "mark"
    /\ marker' = TRUE
    /\ Runs(q, "done")
    /\ Overtaken
    /\ UNCHANGED <<hash, origin, lane, retry, call, asks, cooldowns, cuts, wanted, doubled,
                   lapsed, hurt>>

\* The job returns: RQ writes its record, as finished, under its id.
Return(q) ==
    /\ runner[q].pc = "done"
    /\ Runs(q, "idle")
    /\ IF runner[q].what = "refresh"
         THEN /\ hash' = "terminal" /\ origin' = q
              /\ hurt' = (hurt \/ hash = "queued")
              /\ Overtaken
         ELSE UNCHANGED <<hash, origin, hurt, behind>>
    /\ UNCHANGED <<lane, retry, marker, call, asks, cooldowns, cuts, wanted, doubled, lapsed>>

\* The worker dies: the job ends as failed, in whatever it was doing.
Crash(q) ==
    /\ runner[q].pc # "idle"
    /\ cuts < MaxCuts
    /\ cuts' = cuts + 1
    /\ Runs(q, "idle")
    /\ IF runner[q].what = "refresh"
         THEN hash' = "terminal" /\ origin' = q /\ Overtaken
         ELSE UNCHANGED <<hash, origin, behind>>
    /\ hurt' = TRUE
    /\ UNCHANGED <<lane, retry, marker, call, asks, cooldowns, wanted, doubled, lapsed>>

(* ---- time ---- *)

\* The delay of a copy is over.
Fire(q) ==
    /\ retry[q].waiting > 0
    /\ retry' = [retry EXCEPT ![q] = [waiting |-> @.waiting - 1, queued |-> @.queued + 1]]
    /\ UNCHANGED <<hash, origin, lane, marker, runner, call, asks, cooldowns, cuts, wanted,
                   behind, doubled, lapsed, hurt>>

\* A copy of the refresh has yet to end.
CopyPending ==
    CopyWaits \/ \E q \in Lanes : runner[q].what = "copy" /\ runner[q].pc # "idle"

\* The marker expires a minute after the copy was due, whether or not a worker
\* has come to it.
Lapse ==
    /\ marker
    /\ \A q \in Lanes : retry[q].waiting = 0
    /\ marker' = FALSE
    /\ lapsed' = (lapsed \/ CopyPending)
    /\ Overtaken
    /\ UNCHANGED <<hash, origin, lane, retry, runner, call, asks, cooldowns, cuts, wanted,
                   doubled, hurt>>

\* RQ keeps the record of a job that ended for a while only.
ExpireRecord ==
    /\ hash = "terminal"
    /\ hash' = "none"
    /\ UNCHANGED <<origin, lane, retry, marker, runner, call, asks, cooldowns, cuts, wanted,
                   behind, doubled, lapsed, hurt>>

RevalidateNext ==
    \/ \E c \in Callers :
          \/ \E q \in Lanes, front \in BOOLEAN : CheckMarker(c, q, front)
          \/ FetchJob(c) \/ ReadStatus(c) \/ DeleteExisting(c) \/ EnqueueRefresh(c)
          \/ CutShort(c)
    \/ \E q \in Lanes :
          \/ Take(q) \/ TakeCopy(q) \/ Refresh(q) \/ Limit(q) \/ PutCopy(q)
          \/ SetMarker(q) \/ Return(q) \/ Crash(q) \/ Fire(q)
    \/ Lapse \/ ExpireRecord

RevalidateSpec == RevalidateInit /\ [][RevalidateNext]_revalidateVars

(* ---- properties ---- *)

RevalidateTypes ==
    /\ hash \in Statuses /\ origin \in Lanes
    /\ lane \in [Lanes -> Nat]
    /\ retry \in [Lanes -> [waiting : Nat, queued : Nat]]
    /\ marker \in BOOLEAN
    /\ runner \in [Lanes -> RunnerStates]
    /\ call \in [Callers -> CallStates]
    /\ asks \in 0..MaxAsks /\ cooldowns \in 0..MaxCooldowns /\ cuts \in 0..MaxCuts
    /\ wanted \in BOOLEAN /\ behind \subseteq Callers /\ doubled \in BOOLEAN
    /\ lapsed \in BOOLEAN /\ hurt \in BOOLEAN

\* The places where a refresh can be, as pairs so that they can be told apart.
Refreshes ==
    {<<"lane", q>> : q \in {p \in Lanes : lane[p] > 0}}
      \cup {<<"copy", q>> : q \in {p \in Lanes : retry[p].waiting + retry[p].queued > 0}}
      \cup {<<"runner", q>> : q \in {p \in Lanes : runner[p].pc \in {"run", "put"}}}

\* As long as no caller enqueues on what it read before the queue moved on, and
\* no marker ends before its copy, one refresh of the entity is under way at
\* most: callers on both lanes, promotions, rate limits and retries included.
OneRefresh ==
    (~doubled /\ ~lapsed /\ ~hurt) =>
        /\ \A q \in Lanes : lane[q] < 2 /\ retry[q].waiting + retry[q].queued < 2
        /\ \A x, y \in Refreshes : x = y

\* A refresh somebody counts on can still happen.
InHand ==
    \/ CopyWaits
    \/ \E q \in Lanes : \/ lane[q] > 0 /\ hash # "none"
                        \/ runner[q].pc \in {"run", "put"}
    \/ \E c \in Callers : call[c].pc = "put"

\* The dedupe drops no request: whoever was told that a refresh is in flight
\* already was told the truth, or another caller is about to enqueue it. This
\* holds in every interleaving of callers; a worker that writes its record over
\* a queued one, or a process that dies, can break it.
NoRequestLost == (wanted /\ ~hurt) => InHand

\* "Worst case is one duplicate, not a stuck enqueue": what the comment in
\* enqueue_revalidate says of races with the worker. No process dies here.
NeverStuck == (wanted /\ cuts = 0) => InHand

=============================================================================
