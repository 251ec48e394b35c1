----------------------------- MODULE MatchQueue ------------------------------
(***************************************************************************)
(* The life of match jobs: who enqueues them, how a worker holds,          *)
(* postpones, fails or finishes one, and what the failed-jobs page does.    *)
(*                                                                         *)
(* A job puts a delayed copy of itself into Redis when there is no         *)
(* ComicVine key or ComicVine limits the rate. That call can fail, or      *)
(* succeed and lose its answer; a worker can die at any place. What RQ      *)
(* does is modelled from how the code uses it.                             *)
(*                                                                         *)
(* Left out: what a match decides (FileMatches), how long delays last       *)
(* (Pacer), excluded files, the order of a queue (any queued job can be      *)
(* the next), revalidation jobs (Revalidate).                              *)
(***************************************************************************)
EXTENDS Naturals, FiniteSets

CONSTANTS
    Files,          \* rows of the table files
    Jobs,           \* RQ job ids; one whose job is gone is used again
    Workers,        \* worker processes
    Admins,         \* requests of the failed-jobs page
    Retries,        \* _RESCHEDULE_REDIS_RETRIES
    MaxFaults,      \* bound on Redis errors, deaths and exceptions
    MaxLimits,      \* bound on rate limits met
    MaxPasses,      \* bound on Match all passes
    Null

ASSUME MatchQueueAssumption ==
    /\ IsFiniteSet(Jobs)
    /\ Retries \in Nat \ {0}
    /\ MaxFaults \in Nat /\ MaxLimits \in Nat /\ MaxPasses \in Nat
    /\ Null \notin Files /\ Null \notin Jobs

VARIABLES
    row,            \* [Files -> Rows]: the row in file_matches
    place,          \* [Jobs -> Places]: where RQ keeps the job
    of,             \* [Jobs -> Files \cup {Null}]: its argument
    worker,         \* [Workers -> WorkerStates]
    configured,     \* is_cv_configured
    pass,           \* files a Match all pass has still to enqueue
    admin,          \* [Admins -> AdminStates]
    scanned,        \* history: files the scanner enqueued a job for
    submitted,      \* history: files a job was ever enqueued for
    owed,           \* history, [Files -> Nat]: see JobsAccounted
    faults, limits, passes  \* used up of the bounds

vars == <<row, place, of, worker, configured, pass, admin, scanned, submitted, owed,
          faults, limits, passes>>

counters == <<faults, limits, passes>>

Rows == {"none", "open", "closed"}
Places == {"free", "queued", "scheduled", "started", "failed"}
WorkerStates == [job : Jobs \cup {Null}, pc : {"idle", "run", "put", "done"},
                 tries : 0..Retries]
AdminStates == [op : {"none", "requeue", "clear"}, todo : SUBSET Jobs]

Idle == [job |-> Null, pc |-> "idle", tries |-> 0]

(* ---- the queue ---- *)

\* A worker is at job j, whatever became of its record in Redis.
Held(j) == \E w \in Workers : worker[w].job = j

Free(j) == place[j] = "free" /\ ~Held(j)

\* Queue.enqueue and Queue.enqueue_in: a new job for file f. Which id it gets
\* does not matter.
Put(f, where) ==
    LET j == CHOOSE i \in Jobs : Free(i)
    IN  /\ \E i \in Jobs : Free(i)
        /\ place' = [place EXCEPT ![j] = where]
        /\ of' = [of EXCEPT ![j] = f]

Init ==
    /\ row = [f \in Files |-> "none"]
    /\ place = [j \in Jobs |-> "free"]
    /\ of = [j \in Jobs |-> Null]
    /\ worker = [w \in Workers |-> Idle]
    /\ configured \in BOOLEAN
    /\ pass = {}
    /\ admin = [a \in Admins |-> [op |-> "none", todo |-> {}]]
    /\ scanned = {} /\ submitted = {}
    /\ owed = [f \in Files |-> 0]
    /\ faults = 0 /\ limits = 0 /\ passes = 0

(* ---- who enqueues ---- *)

\* enqueue_match_file, called once by the scanner for a file it has committed;
\* Match all may have been there before.
EnqueueMatchFile(f) ==
    /\ f \notin scanned
    /\ Put(f, "queued")
    /\ scanned' = scanned \cup {f}
    /\ submitted' = submitted \cup {f}
    /\ owed' = [owed EXCEPT ![f] = @ + 1]
    /\ UNCHANGED <<row, worker, configured, pass, admin, counters>>

\* enqueue_match_all_unmatched_async lists the stored files without a row or with
\* one worth trying again, whatever jobs they have.
ListUnmatched(stored) ==
    /\ passes < MaxPasses
    /\ pass = {}
    /\ submitted \subseteq stored
    /\ pass' = {f \in stored : row[f] \in {"none", "open"}}
    /\ passes' = passes + 1
    /\ UNCHANGED <<row, place, of, worker, configured, admin, scanned, submitted, owed,
                   faults, limits>>

\* Its loop enqueues them one at a time.
EnqueueUnmatched(f) ==
    /\ f \in pass
    /\ Put(f, "queued")
    /\ pass' = pass \ {f}
    /\ submitted' = submitted \cup {f}
    /\ owed' = [owed EXCEPT ![f] = @ + 1]
    /\ UNCHANGED <<row, worker, configured, admin, scanned, counters>>

\* The request is cancelled, or Redis refuses: the rest is not enqueued.
AbandonPass ==
    /\ pass # {}
    /\ faults < MaxFaults
    /\ faults' = faults + 1
    /\ pass' = {}
    /\ UNCHANGED <<row, place, of, worker, configured, admin, scanned, submitted, owed,
                   limits, passes>>

\* The admin saves a key. There is no way to remove one.
SaveKey ==
    /\ ~configured
    /\ configured' = TRUE
    /\ UNCHANGED <<row, place, of, worker, pass, admin, scanned, submitted, owed, counters>>

(* ---- a worker at a job ---- *)

\* A worker takes a queued job.
Start(w, j) ==
    /\ worker[w].pc = "idle"
    /\ place[j] = "queued"
    /\ ~Held(j)
    /\ place' = [place EXCEPT ![j] = "started"]
    /\ worker' = [worker EXCEPT ![w] = [job |-> j, pc |-> "run", tries |-> 0]]
    /\ UNCHANGED <<row, of, configured, pass, admin, scanned, submitted, owed, counters>>

Goto(w, pc) == worker' = [worker EXCEPT ![w].pc = pc]

\* Mutant: jobs are put off although there is a key.
HoldMutant(w) ==
    /\ worker[w].pc = "run"
    /\ Goto(w, "put")
    /\ UNCHANGED <<row, place, of, configured, pass, admin, scanned, submitted, owed, counters>>

\* No key is configured: the job is to be put off.
Hold(w) ==
    /\ worker[w].pc = "run"
    /\ ~configured
    /\ Goto(w, "put")
    /\ UNCHANGED <<row, place, of, configured, pass, admin, scanned, submitted, owed, counters>>

\* The matcher runs to its end; its verdict is committed.
RunMatcher(w, verdict) ==
    /\ worker[w].pc = "run"
    /\ configured
    /\ row' = [row EXCEPT ![of[worker[w].job]] = verdict]
    /\ Goto(w, "done")
    /\ UNCHANGED <<place, of, configured, pass, admin, scanned, submitted, owed, counters>>

\* ComicVine limits the rate: ComicVineRateLimitError reaches the job.
RateLimited(w) ==
    /\ worker[w].pc = "run"
    /\ configured
    /\ limits < MaxLimits
    /\ limits' = limits + 1
    /\ Goto(w, "put")
    /\ UNCHANGED <<row, place, of, configured, pass, admin, scanned, submitted, owed,
                   faults, passes>>

\* The job fails: RQ files it, whether or not an admin deleted it meanwhile.
FailJob(w) ==
    /\ place' = [place EXCEPT ![worker[w].job] = "failed"]
    /\ worker' = [worker EXCEPT ![w] = Idle]

\* The matcher raises anything else, or the job exceeds MATCH_JOB_TIMEOUT.
Raise(w) ==
    /\ worker[w].pc = "run"
    /\ faults < MaxFaults
    /\ faults' = faults + 1
    /\ FailJob(w)
    /\ UNCHANGED <<row, of, configured, pass, admin, scanned, submitted, owed, limits, passes>>

\* The loop of _reschedule_match goes on.
AttemptsLeft(w) == worker[w].tries < Retries

\* Mutant: the loop goes on after an attempt that worked.
RescheduleMutant(w) ==
    /\ worker[w].pc = "put"
    /\ AttemptsLeft(w)
    /\ Put(of[worker[w].job], "scheduled")
    /\ UNCHANGED <<row, worker, configured, pass, admin, scanned, submitted, owed, counters>>

\* _reschedule_match: enqueue_in works.
Reschedule(w) ==
    /\ worker[w].pc = "put"
    /\ AttemptsLeft(w)
    /\ Put(of[worker[w].job], "scheduled")
    /\ Goto(w, "done")
    /\ UNCHANGED <<row, configured, pass, admin, scanned, submitted, owed, counters>>

\* _reschedule_match: an attempt raises; the copy may be there all the same.
AttemptFails(w) ==
    /\ worker[w].pc = "put"
    /\ AttemptsLeft(w)
    /\ faults < MaxFaults
    /\ faults' = faults + 1
    /\ worker' = [worker EXCEPT ![w].tries = @ + 1]
    /\ \/ UNCHANGED <<place, of, owed>>
       \/ LET f == of[worker[w].job]
          IN  /\ Put(f, "scheduled")
              /\ owed' = [owed EXCEPT ![f] = @ + 1]
    /\ UNCHANGED <<row, configured, pass, admin, scanned, submitted, limits, passes>>

\* Mutant: the last exception is swallowed.
RescheduleFailsMutant(w) ==
    /\ worker[w].pc = "put"
    /\ ~AttemptsLeft(w)
    /\ Goto(w, "done")
    /\ UNCHANGED <<row, place, of, configured, pass, admin, scanned, submitted, owed, counters>>

\* _reschedule_match: the last attempt failed too, the exception goes on.
RescheduleFails(w) ==
    /\ worker[w].pc = "put"
    /\ ~AttemptsLeft(w)
    /\ FailJob(w)
    /\ UNCHANGED <<row, of, configured, pass, admin, scanned, submitted, owed, counters>>

\* The job returns and RQ files it as finished.
Finish(w) ==
    /\ worker[w].pc = "done"
    /\ place' = [place EXCEPT ![worker[w].job] = "free"]
    /\ of' = [of EXCEPT ![worker[w].job] = Null]
    /\ worker' = [worker EXCEPT ![w] = Idle]
    /\ UNCHANGED <<row, configured, pass, admin, scanned, submitted, owed, counters>>

\* The worker is killed; its job is left in the started registry. A job that
\* has put off itself, or is done, is owed another run all the same.
Die(w) ==
    /\ worker[w].pc # "idle"
    /\ faults < MaxFaults
    /\ faults' = faults + 1
    /\ worker' = [worker EXCEPT ![w] = Idle]
    /\ owed' = IF worker[w].pc = "done"
                 THEN [owed EXCEPT ![of[worker[w].job]] = @ + 1] ELSE owed
    /\ place' = [place EXCEPT ![worker[w].job] = "started"]
    /\ UNCHANGED <<row, of, configured, pass, admin, scanned, submitted, limits, passes>>

\* Another worker cleans the started registry: the job counts as failed.
Abandon(j) ==
    /\ place[j] = "started"
    /\ ~Held(j)
    /\ place' = [place EXCEPT ![j] = "failed"]
    /\ UNCHANGED <<row, of, worker, configured, pass, admin, scanned, submitted, owed, counters>>

\* The delay of a job is over: RQ's scheduler queues it.
Promote(j) ==
    /\ place[j] = "scheduled"
    /\ place' = [place EXCEPT ![j] = "queued"]
    /\ UNCHANGED <<row, of, worker, configured, pass, admin, scanned, submitted, owed, counters>>

(* ---- the failed-jobs page ---- *)

\* A request reads the registry: one job, those of a class, or all of them.
ListFailed(a, op, S) ==
    /\ admin[a].op = "none"
    /\ S # {}
    /\ \A j \in S : place[j] = "failed"
    /\ admin' = [admin EXCEPT ![a] = [op |-> op, todo |-> S]]
    /\ UNCHANGED <<row, place, of, worker, configured, pass, scanned, submitted, owed, counters>>

\* registry.requeue: only what is still in the registry is queued.
Requeue(a, j) ==
    /\ admin[a].op = "requeue"
    /\ j \in admin[a].todo
    /\ admin' = [admin EXCEPT ![a].todo = @ \ {j}]
    /\ place' = IF place[j] = "failed" THEN [place EXCEPT ![j] = "queued"] ELSE place
    /\ UNCHANGED <<row, of, worker, configured, pass, scanned, submitted, owed, counters>>

\* Job.fetch and job.delete: what is deleted is the job, wherever it is now.
DeleteJob(a, j) ==
    /\ admin[a].op = "clear"
    /\ j \in admin[a].todo
    /\ admin' = [admin EXCEPT ![a].todo = @ \ {j}]
    /\ place' = [place EXCEPT ![j] = "free"]
    /\ of' = IF Held(j) THEN of ELSE [of EXCEPT ![j] = Null]
    /\ UNCHANGED <<row, worker, configured, pass, scanned, submitted, owed, counters>>

\* The response; also a request that is cut short.
Answer(a) ==
    /\ admin[a].op # "none"
    /\ admin' = [admin EXCEPT ![a] = [op |-> "none", todo |-> {}]]
    /\ UNCHANGED <<row, place, of, worker, configured, pass, scanned, submitted, owed, counters>>

(* ---- the specification ---- *)

WorkerStep(w) ==
    \/ Hold(w)
    \/ \E v \in {"open", "closed"} : RunMatcher(w, v)
    \/ RateLimited(w) \/ Raise(w)
    \/ Reschedule(w) \/ AttemptFails(w) \/ RescheduleFails(w)
    \/ Finish(w) \/ Die(w)

\* All but the two that depend on which files are stored.
QueueStep ==
    \/ \E f \in Files : EnqueueUnmatched(f)
    \/ AbandonPass \/ SaveKey
    \/ \E w \in Workers : WorkerStep(w) \/ \E j \in Jobs : Start(w, j)
    \/ \E j \in Jobs : Abandon(j) \/ Promote(j)
    \/ \E a \in Admins :
          \/ \E op \in {"requeue", "clear"}, S \in SUBSET Jobs : ListFailed(a, op, S)
          \/ \E j \in Jobs : Requeue(a, j) \/ DeleteJob(a, j)
          \/ Answer(a)

\* Files are stored elsewhere (Scanner); Pipeline says which.
Next ==
    \/ \E f \in Files : EnqueueMatchFile(f)
    \/ \E stored \in SUBSET Files : ListUnmatched(stored)
    \/ QueueStep

Spec == Init /\ [][Next]_vars

\* Workers run, delays end, registries are cleaned. A queue is served in
\* order, so a job in it has its turn although others come and go (SF).
Fairness ==
    /\ \A w \in Workers : WF_vars(WorkerStep(w))
    /\ \A j \in Jobs : /\ SF_vars(\E w \in Workers : Start(w, j))
                       /\ WF_vars(Abandon(j) \/ Promote(j))

FairSpec == Spec /\ Fairness

(* ---- properties ---- *)

TypeOK ==
    /\ row \in [Files -> Rows]
    /\ place \in [Jobs -> Places]
    /\ of \in [Jobs -> Files \cup {Null}]
    /\ worker \in [Workers -> WorkerStates]
    /\ configured \in BOOLEAN
    /\ pass \subseteq Files
    /\ admin \in [Admins -> AdminStates]
    /\ scanned \subseteq Files /\ submitted \subseteq Files
    /\ owed \in [Files -> Nat]
    /\ faults \in 0..MaxFaults /\ limits \in 0..MaxLimits /\ passes \in 0..MaxPasses

\* A worker has done all that job j asks for, and is about to say so.
Done(j) == \E w \in Workers : worker[w].job = j /\ worker[w].pc = "done"

\* The file has a job that will run, is running or was left by a dead worker.
Live(f) ==
    \E j \in Jobs : /\ of[j] = f
                    /\ Held(j) \/ place[j] \in {"queued", "scheduled", "started"}
                    /\ ~Done(j)

Listed(f) == \E j \in Jobs : of[j] = f /\ place[j] = "failed"

Clearing == \E a \in Admins : admin[a].op = "clear"

\* What AtLeastOnce calls the fate of a file.
Fate(f) ==
    CASE row[f] # "none"  -> "judged"
      [] row[f] = "none" /\ Live(f) -> "pending"
      [] row[f] = "none" /\ ~Live(f) /\ Listed(f) -> "listed"
      [] row[f] = "none" /\ ~Live(f) /\ ~Listed(f) /\ f \in submitted -> "dropped"
      [] OTHER -> "unknown"

Abstract == INSTANCE AtLeastOnce WITH
    fate <- [f \in Files |-> Fate(f)],
    clearing <- Clearing

\* A file that was handed in is judged, pending or listed as failed whatever
\* workers and Redis do; only an admin's clearing lets go of it.
NoFileForgotten == Abstract!Spec

\* Putting off a job neither multiplies nor splits it: the jobs a file has are
\* accounted for by the calls that enqueued one, the answers Redis lost and
\* the workers that died with a job that had already done its work.
JobsAccounted ==
    \A f \in Files :
        Cardinality({j \in Jobs : /\ of[j] = f
                                  /\ place[j] # "free" \/ Held(j)
                                  /\ ~Done(j)})
            <= owed[f]

\* Once there is a key, no file stays pending for ever: its job is not put off
\* without end nor stuck in a registry nobody looks at.
Settles == \A f \in Files : (configured /\ Live(f)) ~> (row[f] # "none" \/ ~Live(f))

=============================================================================
