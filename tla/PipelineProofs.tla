---------------------------- MODULE PipelineProofs ----------------------------
(***************************************************************************)
(* Proofs about the match queue, alone and fed by the scanner.              *)
(*                                                                         *)
(* The match queue implements AtLeastOnce for any number of files, jobs,     *)
(* workers and admins: every step of it gives at most one file another fate,  *)
(* and one that AtLeastOnce allows. The pipeline implements each of its two    *)
(* components, so their invariants hold in it; with what links their states     *)
(* they show that it implements Intake.                                     *)
(***************************************************************************)
EXTENDS Pipeline, FiniteSetTheorems, TLAPS

(* ---- the inductive invariant ---- *)

\* Whatever job is on record or at a worker is one of a file that was handed in.
Argued == \A j \in Jobs : place[j] # "free" \/ Held(j) => of[j] \in submitted

\* A worker without a job is idle, and only one.
Busy == \A w \in Workers : worker[w].pc = "idle" <=> worker[w].job = Null

\* No job is run twice at a time.
Exclusive == \A v, w \in Workers : worker[v].job # Null /\ worker[v].job = worker[w].job => v = w

\* What a worker is at is in the started registry, or was deleted there.
Started == \A j \in Jobs : Held(j) => place[j] \in {"started", "free"}

QueueInv == TypeOK /\ Argued /\ Busy /\ Exclusive /\ Started

(* ---- fates ---- *)

LiveJob(j) == (Held(j) \/ place[j] \in {"queued", "scheduled", "started"}) /\ ~Done(j)

LEMMA LiveFile == ASSUME NEW f \in Files
                  PROVE  Live(f) <=> \E j \in Jobs : of[j] = f /\ LiveJob(j)
BY DEF Live, LiveJob

LEMMA Fates ==
    ASSUME NEW f \in Files
    PROVE  /\ row[f] # "none" => Fate(f) = "judged"
           /\ row[f] = "none" /\ Live(f) => Fate(f) = "pending"
           /\ row[f] = "none" /\ ~Live(f) /\ Listed(f) => Fate(f) = "listed"
           /\ row[f] = "none" /\ ~Live(f) /\ ~Listed(f) /\ f \in submitted => Fate(f) = "dropped"
           /\ row[f] = "none" /\ ~Live(f) /\ ~Listed(f) /\ f \notin submitted => Fate(f) = "unknown"
BY DEF Fate

LEMMA FatesNext ==
    ASSUME NEW f \in Files
    PROVE  /\ row'[f] # "none" => Fate(f)' = "judged"
           /\ row'[f] = "none" /\ Live(f)' => Fate(f)' = "pending"
           /\ row'[f] = "none" /\ ~Live(f)' /\ Listed(f)' => Fate(f)' = "listed"
           /\ row'[f] = "none" /\ ~Live(f)' /\ ~Listed(f)' /\ f \in submitted' => Fate(f)' = "dropped"
           /\ row'[f] = "none" /\ ~Live(f)' /\ ~Listed(f)' /\ f \notin submitted' => Fate(f)' = "unknown"
BY DEF Fate

\* What AtLeastOnce lets become of a file in a step.
Passes(f) ==
    \/ Fate(f)' = Fate(f)
    \/ Fate(f) \in {"unknown", "listed", "dropped"} /\ Fate(f)' = "pending"
    \/ Fate(f) = "pending" /\ Fate(f)' \in {"judged", "listed"}
    \/ Clearing /\ Fate(f) \in {"pending", "listed"} /\ Fate(f)' = "dropped"

\* A step in the life of one file is a step of AtLeastOnce ...
LEMMA OneFile ==
    ASSUME NEW f \in Files, Passes(f), Clearing' <=> Clearing,
           \A g \in Files \ {f} : Fate(g)' = Fate(g)
    PROVE  [Abstract!Next]_(Abstract!vars)
<1> DEFINE fates == [g \in Files |-> Fate(g)]
<1>1. Clearing' = Clearing
  BY DEF Clearing
<1>2. fates' = [fates EXCEPT ![f] = Fate(f)']
  OBVIOUS
<1>3. CASE Fate(f)' = Fate(f)
  <2>1. fates' = fates
    BY <1>3
  <2> QED
    BY <1>1, <2>1 DEF Abstract!vars
<1>4. CASE Fate(f) \in {"unknown", "listed", "dropped"} /\ Fate(f)' = "pending"
  <2>1. Abstract!Submit(f)
    BY <1>1, <1>2, <1>4 DEF Abstract!Submit
  <2> QED
    BY <2>1 DEF Abstract!Next
<1>5. CASE Fate(f) = "pending" /\ Fate(f)' = "judged"
  <2>1. Abstract!Judge(f)
    BY <1>1, <1>2, <1>5 DEF Abstract!Judge
  <2> QED
    BY <2>1 DEF Abstract!Next
<1>6. CASE Fate(f) = "pending" /\ Fate(f)' = "listed"
  <2>1. Abstract!GiveUp(f)
    BY <1>1, <1>2, <1>6 DEF Abstract!GiveUp
  <2> QED
    BY <2>1 DEF Abstract!Next
<1>7. CASE Clearing /\ Fate(f) \in {"pending", "listed"} /\ Fate(f)' = "dropped"
  <2>1. Abstract!Drop(f)
    BY <1>1, <1>2, <1>7 DEF Abstract!Drop
  <2> QED
    BY <2>1 DEF Abstract!Next
<1> QED
  BY <1>3, <1>4, <1>5, <1>6, <1>7 DEF Passes

\* ... and so is one that changes the fate of none.
LEMMA NoFile ==
    ASSUME \A g \in Files : Fate(g)' = Fate(g)
    PROVE  [Abstract!Next]_(Abstract!vars)
<1> DEFINE fates == [g \in Files |-> Fate(g)]
<1>1. fates' = fates
  OBVIOUS
<1>2. CASE Clearing' = Clearing
  BY <1>1, <1>2 DEF Abstract!vars
<1>3. CASE Clearing' # Clearing
  <2>1. Clearing' = ~Clearing
    BY <1>3 DEF Clearing
  <2>2. Abstract!Clear
    BY <1>1, <2>1 DEF Abstract!Clear
  <2> QED
    BY <2>2 DEF Abstract!Next
<1> QED
  BY <1>2, <1>3

(* ---- what a step leaves alone ---- *)

Same(j) == /\ of'[j] = of[j] /\ place'[j] = place[j]
           /\ LiveJob(j)' <=> LiveJob(j)

\* Before and after the step, job j matters to no file but f.
Concerns(j, f) ==
    /\ LiveJob(j) \/ place[j] = "failed" => of[j] = f
    /\ LiveJob(j)' \/ place'[j] = "failed" => of'[j] = f

\* A step that touches only jobs of f leaves the fates of other files alone.
LEMMA Elsewhere ==
    ASSUME NEW f \in Files,
           \A j \in Jobs : Same(j) \/ Concerns(j, f),
           \A g \in Files \ {f} : row'[g] = row[g] /\ (g \in submitted' <=> g \in submitted)
    PROVE  \A g \in Files \ {f} : Fate(g)' = Fate(g)
<1> SUFFICES ASSUME NEW g \in Files \ {f} PROVE Fate(g)' = Fate(g)
  OBVIOUS
<1>1. Live(g)' <=> Live(g)
  <2>1. \A j \in Jobs : of[j] = g /\ LiveJob(j) => of'[j] = g /\ LiveJob(j)'
    BY DEF Same, Concerns
  <2>2. \A j \in Jobs : of'[j] = g /\ LiveJob(j)' => of[j] = g /\ LiveJob(j)
    BY DEF Same, Concerns
  <2>3. Live(g)' <=> \E j \in Jobs : of'[j] = g /\ LiveJob(j)'
    BY DEF Live, LiveJob
  <2> QED
    BY <2>1, <2>2, <2>3, LiveFile
<1>2. Listed(g)' <=> Listed(g)
  <2>1. \A j \in Jobs : of[j] = g /\ place[j] = "failed" => of'[j] = g /\ place'[j] = "failed"
    BY DEF Same, Concerns
  <2>2. \A j \in Jobs : of'[j] = g /\ place'[j] = "failed" => of[j] = g /\ place[j] = "failed"
    BY DEF Same, Concerns
  <2> QED
    BY <2>1, <2>2 DEF Listed
<1> QED
  BY <1>1, <1>2, Fates, FatesNext

\* A step that changes nothing a fate depends on.
LEMMA Nowhere ==
    ASSUME \A j \in Jobs : Same(j), UNCHANGED <<row, submitted>>
    PROVE  \A g \in Files : Fate(g)' = Fate(g)
<1> SUFFICES ASSUME NEW g \in Files PROVE Fate(g)' = Fate(g)
  OBVIOUS
<1>1. Live(g)' <=> Live(g)
  <2>1. Live(g)' <=> \E j \in Jobs : of'[j] = g /\ LiveJob(j)'
    BY DEF Live, LiveJob
  <2> QED
    BY <2>1, LiveFile DEF Same
<1>2. Listed(g)' <=> Listed(g)
  BY DEF Listed, Same
<1> QED
  BY <1>1, <1>2, Fates, FatesNext

\* Put takes one free job and gives it to its file.
LEMMA Puts ==
    ASSUME TypeOK, NEW f \in Files, NEW where \in Places, Put(f, where)
    PROVE  \E j \in Jobs : /\ Free(j)
                           /\ place' = [place EXCEPT ![j] = where]
                           /\ of' = [of EXCEPT ![j] = f]
                           /\ place' \in [Jobs -> Places] /\ of' \in [Jobs -> Files \cup {Null}]
<1> DEFINE j == CHOOSE i \in Jobs : Free(i)
<1>1. j \in Jobs /\ Free(j)
  BY DEF Put
<1>2. place' = [place EXCEPT ![j] = where] /\ of' = [of EXCEPT ![j] = f]
  BY DEF Put
<1> QED
  BY <1>1, <1>2 DEF TypeOK

\* A worker that is not idle is at a job of a file that was handed in, alone.
LEMMA AtJob ==
    ASSUME QueueInv, NEW w \in Workers, worker[w].pc # "idle"
    PROVE  /\ worker[w].job \in Jobs /\ Held(worker[w].job)
           /\ of[worker[w].job] \in submitted /\ of[worker[w].job] \in Files
           /\ place[worker[w].job] \in {"started", "free"}
           /\ Done(worker[w].job) <=> worker[w].pc = "done"
           /\ \A v \in Workers \ {w} : worker[v].job # worker[w].job
<1>1. worker[w].job \in Jobs /\ worker[w].job # Null
  BY DEF QueueInv, Busy, TypeOK, WorkerStates
<1>2. Held(worker[w].job)
  BY DEF Held
<1>3. \A v \in Workers \ {w} : worker[v].job # worker[w].job
  BY <1>1 DEF QueueInv, Exclusive
<1>4. Done(worker[w].job) <=> worker[w].pc = "done"
  BY <1>3 DEF Done
<1>5. of[worker[w].job] \in submitted
  BY <1>1, <1>2 DEF QueueInv, Argued
<1>6. place[worker[w].job] \in {"started", "free"}
  BY <1>1, <1>2 DEF QueueInv, Started
<1> QED
  BY <1>1, <1>2, <1>3, <1>4, <1>5, <1>6 DEF QueueInv, TypeOK

\* A worker that goes on at the same job.
LEMMA GoesOn ==
    ASSUME QueueInv, NEW w \in Workers, worker[w].pc # "idle",
           NEW j \in Jobs, j = worker[w].job,
           NEW state \in WorkerStates, state.job = j, state.pc # "idle",
           worker' = [worker EXCEPT ![w] = state]
    PROVE  /\ worker' \in [Workers -> WorkerStates] /\ Busy' /\ Exclusive'
           /\ \A i \in Jobs : Held(i)' <=> Held(i)
           /\ \A i \in Jobs \ {j} : Done(i)' <=> Done(i)
           /\ Done(j)' <=> state.pc = "done"
<1>1. /\ worker'[w] = state /\ \A v \in Workers \ {w} : worker'[v] = worker[v]
      /\ worker' \in [Workers -> WorkerStates]
  BY DEF QueueInv, TypeOK
<1>2. \A v \in Workers : worker'[v].job = worker[v].job
  BY <1>1
<1>3. Exclusive'
  BY <1>2 DEF QueueInv, Exclusive
<1>4. Busy'
  BY <1>1, AtJob, MatchQueueAssumption DEF QueueInv, Busy
<1>5. \A i \in Jobs : Held(i)' <=> Held(i)
  BY <1>2 DEF Held
<1>6. \A i \in Jobs \ {j} : Done(i)' <=> Done(i)
  BY <1>1 DEF Done
<1>7. Done(j)' <=> state.pc = "done"
  BY <1>1, AtJob DEF Done
<1> QED
  BY <1>1, <1>3, <1>4, <1>5, <1>6, <1>7

\* A worker that lets go of its job.
LEMMA LetsGo ==
    ASSUME QueueInv, NEW w \in Workers, worker[w].pc # "idle",
           NEW j \in Jobs, j = worker[w].job,
           worker' = [worker EXCEPT ![w] = Idle]
    PROVE  /\ worker' \in [Workers -> WorkerStates] /\ Busy' /\ Exclusive'
           /\ \A i \in Jobs \ {j} : (Held(i)' <=> Held(i)) /\ (Done(i)' <=> Done(i))
           /\ ~Held(j)' /\ ~Done(j)'
<1>1. Idle \in WorkerStates /\ Idle.job = Null /\ Idle.pc = "idle"
  BY MatchQueueAssumption DEF Idle, WorkerStates
<1>2. /\ worker'[w] = Idle /\ \A v \in Workers \ {w} : worker'[v] = worker[v]
      /\ worker' \in [Workers -> WorkerStates]
  BY <1>1 DEF QueueInv, TypeOK
<1>3. Busy' /\ Exclusive'
  BY <1>1, <1>2 DEF QueueInv, Busy, Exclusive
<1>4. \A i \in Jobs \ {j} : (Held(i)' <=> Held(i)) /\ (Done(i)' <=> Done(i))
  BY <1>1, <1>2, MatchQueueAssumption DEF Held, Done
<1>5. ~Held(j)' /\ ~Done(j)'
  BY <1>1, <1>2, AtJob, MatchQueueAssumption DEF Held, Done
<1> QED
  BY <1>2, <1>3, <1>4, <1>5

\* Steps that leave the workers alone.
LEMMA WorkersKept ==
    ASSUME QueueInv, worker' = worker
    PROVE  /\ worker' \in [Workers -> WorkerStates] /\ Busy' /\ Exclusive'
           /\ \A j \in Jobs : (Held(j)' <=> Held(j)) /\ (Done(j)' <=> Done(j))
           /\ \A j \in Jobs : Done(j) => Held(j)
BY DEF QueueInv, TypeOK, Busy, Exclusive, Held, Done

(* ---- every step keeps the invariant and is a step of AtLeastOnce ---- *)

\* The variables that say nothing of a job.
RestTypes ==
    /\ configured \in BOOLEAN
    /\ pass \subseteq Files /\ scanned \subseteq Files
    /\ admin \in [Admins -> AdminStates]
    /\ owed \in [Files -> Nat]
    /\ faults \in 0..MaxFaults /\ limits \in 0..MaxLimits /\ passes \in 0..MaxPasses

\* What a step has to show: the rest of the types comes for all at once.
Keeps ==
    /\ row' \in [Files -> Rows] /\ place' \in [Jobs -> Places]
    /\ of' \in [Jobs -> Files \cup {Null}] /\ worker' \in [Workers -> WorkerStates]
    /\ submitted' \subseteq Files
    /\ Argued' /\ Busy' /\ Exclusive' /\ Started'
    /\ [Abstract!Next]_(Abstract!vars)

\* A job for f comes in; at most another one of f is done with.
LEMMA PutFates ==
    ASSUME QueueInv, NEW f \in Files, NEW where \in {"queued", "scheduled"}, Put(f, where),
           \A i \in Jobs : Held(i)' <=> Held(i),
           \A i \in Jobs : (Done(i)' <=> Done(i)) \/ of[i] = f,
           row' = row, submitted' = submitted \cup {f}
    PROVE  /\ place' \in [Jobs -> Places] /\ of' \in [Jobs -> Files \cup {Null}]
           /\ Argued' /\ Started'
           /\ Live(f)' /\ \A g \in Files \ {f} : Fate(g)' = Fate(g)
<1> USE DEF QueueInv
<1>1. where \in Places
  BY DEF Places
<1>2. PICK j \in Jobs : /\ Free(j)
                        /\ place' = [place EXCEPT ![j] = where]
                        /\ of' = [of EXCEPT ![j] = f]
                        /\ place' \in [Jobs -> Places] /\ of' \in [Jobs -> Files \cup {Null}]
  BY <1>1, Puts
<1>3. /\ place[j] = "free" /\ ~Held(j) /\ ~Done(j) /\ ~Held(j)' /\ ~Done(j)'
      /\ place'[j] = where /\ of'[j] = f
      /\ \A i \in Jobs \ {j} : place'[i] = place[i] /\ of'[i] = of[i]
  BY <1>2 DEF Free, TypeOK, Held, Done
<1>4. Argued' /\ Started'
  BY <1>2, <1>3 DEF Argued, Started
<1>5. ASSUME NEW i \in Jobs PROVE Same(i) \/ Concerns(i, f)
  <2>1. CASE i = j
    BY <1>3, <2>1 DEF Concerns, LiveJob
  <2>2. CASE i # j /\ (Done(i)' <=> Done(i))
    BY <1>3, <2>2 DEF Same, LiveJob
  <2>3. CASE i # j /\ of[i] = f
    BY <1>3, <2>3 DEF Concerns
  <2> QED
    BY <2>1, <2>2, <2>3
<1>6. \A g \in Files \ {f} : Fate(g)' = Fate(g)
  BY <1>5, Elsewhere
<1>7. Live(f)'
  BY <1>3 DEF Live
<1> QED
  BY <1>2, <1>4, <1>6, <1>7

LEMMA PutKeeps ==
    ASSUME QueueInv, NEW f \in Files, NEW where \in {"queued", "scheduled"}, Put(f, where),
           worker' \in [Workers -> WorkerStates], Busy', Exclusive',
           \A i \in Jobs : Held(i)' <=> Held(i),
           \A i \in Jobs : (Done(i)' <=> Done(i)) \/ of[i] = f,
           row' = row, submitted' = submitted \cup {f}, Clearing' <=> Clearing
    PROVE  Keeps
<1>1. /\ place' \in [Jobs -> Places] /\ of' \in [Jobs -> Files \cup {Null}]
      /\ Argued' /\ Started'
      /\ Live(f)' /\ \A g \in Files \ {f} : Fate(g)' = Fate(g)
  BY PutFates
<1>2. Passes(f)
  BY <1>1, Fates, FatesNext DEF Passes
<1>3. [Abstract!Next]_(Abstract!vars)
  BY <1>1, <1>2, OneFile
<1> QED
  BY <1>1, <1>3 DEF Keeps, QueueInv, TypeOK

\* Nothing happens that a fate depends on.
LEMMA QuietKeeps ==
    ASSUME QueueInv, worker' \in [Workers -> WorkerStates], Busy', Exclusive',
           \A i \in Jobs : (Held(i)' <=> Held(i)) /\ (Done(i)' <=> Done(i)),
           UNCHANGED <<row, place, of, submitted>>
    PROVE  Keeps
<1> USE DEF QueueInv
<1>1. \A i \in Jobs : Same(i)
  BY DEF Same, LiveJob
<1>2. Argued' /\ Started'
  BY DEF Argued, Started
<1>3. [Abstract!Next]_(Abstract!vars)
  BY <1>1, Nowhere, NoFile
<1> QED
  BY <1>2, <1>3 DEF Keeps, TypeOK

\* One job that no worker is at changes its place.
LEMMA PlaceKeeps ==
    ASSUME QueueInv, NEW j \in Jobs, ~Held(j), place[j] # "free",
           NEW where \in {"queued", "failed"}, place' = [place EXCEPT ![j] = where],
           UNCHANGED <<row, of, worker, submitted>>, Clearing' <=> Clearing
    PROVE  Keeps
<1> USE DEF QueueInv
<1>1. /\ \A i \in Jobs : (Held(i)' <=> Held(i)) /\ (Done(i)' <=> Done(i))
      /\ \A i \in Jobs : Done(i) => Held(i)
      /\ worker' \in [Workers -> WorkerStates] /\ Busy' /\ Exclusive'
  BY WorkersKept
<1>2. /\ place' \in [Jobs -> Places] /\ place'[j] = where
      /\ \A i \in Jobs \ {j} : place'[i] = place[i]
  BY DEF TypeOK, Places
<1>3. PICK f \in Files : f = of[j]
  BY DEF Argued, TypeOK
<1>4. Argued' /\ Started'
  BY <1>1, <1>2 DEF Argued, Started
<1>5. ASSUME NEW i \in Jobs PROVE Same(i) \/ Concerns(i, f)
  BY <1>1, <1>2, <1>3 DEF Same, Concerns, LiveJob
<1>6. \A g \in Files \ {f} : Fate(g)' = Fate(g)
  BY <1>5, Elsewhere
<1>7. Passes(f)
  <2>1. CASE where = "failed"
    <3>1. Listed(f)'
      BY <1>2, <1>3, <2>1 DEF Listed
    <3>2. CASE place[j] = "failed"
      <4>1. place' = place
        BY <2>1, <3>2 DEF TypeOK
      <4>2. Fate(f)' = Fate(f)
        BY <1>1, <4>1, Nowhere DEF Same, LiveJob
      <4> QED
        BY <4>2 DEF Passes
    <3>3. CASE place[j] # "failed"
      <4>1. Live(f)
        BY <1>1, <1>2, <1>3, <3>3 DEF Live, TypeOK, Places
      <4> QED
        BY <3>1, <4>1, Fates, FatesNext DEF Passes
    <3> QED
      BY <3>2, <3>3
  <2>2. CASE where # "failed"
    <3>1. Live(f)'
      BY <1>1, <1>2, <1>3, <2>2 DEF Live, Places
    <3> QED
      BY <3>1, Fates, FatesNext DEF Passes
  <2> QED
    BY <2>1, <2>2
<1>8. [Abstract!Next]_(Abstract!vars)
  BY <1>6, <1>7, OneFile
<1> QED
  BY <1>1, <1>2, <1>4, <1>8 DEF Keeps, TypeOK

\* An admin who is clearing deletes a job, wherever it is.
LEMMA DeleteKeeps ==
    ASSUME QueueInv, NEW j \in Jobs, Clearing, Clearing',
           place' = [place EXCEPT ![j] = "free"],
           of' = IF Held(j) THEN of ELSE [of EXCEPT ![j] = Null],
           UNCHANGED <<row, worker, submitted>>
    PROVE  Keeps
<1> USE DEF QueueInv
<1>1. /\ \A i \in Jobs : (Held(i)' <=> Held(i)) /\ (Done(i)' <=> Done(i))
      /\ \A i \in Jobs : Done(i) => Held(i)
      /\ worker' \in [Workers -> WorkerStates] /\ Busy' /\ Exclusive'
  BY WorkersKept
<1>2. /\ place' \in [Jobs -> Places] /\ place'[j] = "free"
      /\ \A i \in Jobs \ {j} : place'[i] = place[i]
  BY DEF TypeOK, Places
<1>3. /\ of' \in [Jobs -> Files \cup {Null}]
      /\ \A i \in Jobs \ {j} : of'[i] = of[i]
      /\ Held(j) => of'[j] = of[j]
  BY DEF TypeOK
<1>4. Argued' /\ Started'
  BY <1>1, <1>2, <1>3 DEF Argued, Started
<1>5. CASE Held(j)
  <2>1. \A i \in Jobs : LiveJob(i)' <=> LiveJob(i)
    BY <1>1, <1>2, <1>5 DEF LiveJob
  <2>2. \A i \in Jobs : of'[i] = of[i]
    BY <1>3, <1>5
  <2>3. place[j] # "failed" /\ place'[j] # "failed"
    BY <1>2, <1>5 DEF Started
  <2>4. \A g \in Files : (Live(g)' <=> Live(g)) /\ (Listed(g)' <=> Listed(g))
    <3> SUFFICES ASSUME NEW g \in Files
                 PROVE  (Live(g)' <=> Live(g)) /\ (Listed(g)' <=> Listed(g))
      OBVIOUS
    <3>1. Live(g)' <=> \E i \in Jobs : of'[i] = g /\ LiveJob(i)'
      BY DEF Live, LiveJob
    <3>2. Live(g)' <=> Live(g)
      BY <2>1, <2>2, <3>1, LiveFile
    <3>3. Listed(g)' <=> Listed(g)
      BY <1>2, <2>2, <2>3 DEF Listed
    <3> QED
      BY <3>2, <3>3
  <2>5. \A g \in Files : Fate(g)' = Fate(g)
    BY <2>4, Fates, FatesNext
  <2>6. [Abstract!Next]_(Abstract!vars)
    BY <2>5, NoFile
  <2> QED
    BY <1>1, <1>2, <1>3, <1>4, <2>6 DEF Keeps, TypeOK
<1>6. CASE ~Held(j) /\ place[j] # "free"
  <2>1. PICK f \in Files : f = of[j] /\ f \in submitted
    BY <1>6 DEF Argued, TypeOK
  <2>2. ASSUME NEW i \in Jobs PROVE Same(i) \/ Concerns(i, f)
    BY <1>1, <1>2, <1>3, <1>6, <2>1 DEF Same, Concerns, LiveJob
  <2>3. \A g \in Files \ {f} : Fate(g)' = Fate(g)
    BY <2>2, Elsewhere
  <2>4. LiveJob(j) \/ place[j] = "failed"
    BY <1>1, <1>2, <1>6 DEF LiveJob, TypeOK, Places
  <2>5. Live(f) \/ Listed(f)
    BY <2>1, <2>4, LiveFile DEF Listed
  <2>6. Live(f)' => Live(f)
    <3>1. Live(f)' <=> \E i \in Jobs : of'[i] = f /\ LiveJob(i)'
      BY DEF Live, LiveJob
    <3>2. \A i \in Jobs \ {j} : LiveJob(i)' <=> LiveJob(i)
      BY <1>1, <1>2 DEF LiveJob
    <3>3. ~LiveJob(j)'
      BY <1>1, <1>2, <1>6 DEF LiveJob
    <3> QED
      BY <1>3, <3>1, <3>2, <3>3, LiveFile
  <2>7. Passes(f)
    <3>1. CASE row[f] # "none"
      BY <3>1, Fates, FatesNext DEF Passes
    <3>2. CASE row[f] = "none" /\ Live(f)
      BY <2>1, <3>2, Fates, FatesNext DEF Passes
    <3>3. CASE row[f] = "none" /\ ~Live(f)
      <4>1. Fate(f) = "listed"
        BY <2>5, <3>3, Fates
      <4> QED
        BY <2>1, <2>6, <3>3, <4>1, FatesNext DEF Passes
    <3> QED
      BY <3>1, <3>2, <3>3
  <2>8. [Abstract!Next]_(Abstract!vars)
    BY <2>3, <2>7, OneFile
  <2> QED
    BY <1>1, <1>2, <1>3, <1>4, <2>8 DEF Keeps, TypeOK
<1>7. CASE ~Held(j) /\ place[j] = "free"
  <2>1. ASSUME NEW g \in Files PROVE Fate(g)' = Fate(g)
    <3>1. Live(g)' <=> Live(g)
      <4>1. Live(g)' <=> \E i \in Jobs : of'[i] = g /\ LiveJob(i)'
        BY DEF Live, LiveJob
      <4>2. \A i \in Jobs \ {j} : LiveJob(i)' <=> LiveJob(i)
        BY <1>1, <1>2 DEF LiveJob
      <4>3. ~LiveJob(j)' /\ ~LiveJob(j)
        BY <1>1, <1>2, <1>7 DEF LiveJob
      <4> QED
        BY <1>3, <4>1, <4>2, <4>3, LiveFile
    <3>2. Listed(g)' <=> Listed(g)
      BY <1>2, <1>3, <1>7 DEF Listed
    <3> QED
      BY <3>1, <3>2, Fates, FatesNext
  <2>2. [Abstract!Next]_(Abstract!vars)
    BY <2>1, NoFile
  <2> QED
    BY <1>1, <1>2, <1>3, <1>4, <2>2 DEF Keeps, TypeOK
<1> QED
  BY <1>5, <1>6, <1>7

\* A worker takes a job.
LEMMA StartKeeps ==
    ASSUME QueueInv, NEW w \in Workers, NEW j \in Jobs, Start(w, j)
    PROVE  Keeps
<1> USE DEF QueueInv
<1> DEFINE state == [job |-> j, pc |-> "run", tries |-> 0]
<1>1. /\ worker[w].pc = "idle" /\ worker[w].job = Null /\ place[j] = "queued" /\ ~Held(j)
      /\ place' = [place EXCEPT ![j] = "started"] /\ worker' = [worker EXCEPT ![w] = state]
      /\ UNCHANGED <<row, of, submitted, admin>>
  BY DEF Start, Busy
<1>2. state \in WorkerStates
  BY MatchQueueAssumption DEF WorkerStates
<1>3. /\ worker' \in [Workers -> WorkerStates] /\ worker'[w] = state
      /\ \A v \in Workers \ {w} : worker'[v] = worker[v] /\ worker[v].job # j
  BY <1>1, <1>2 DEF TypeOK, Held
<1>4. /\ place' \in [Jobs -> Places] /\ place'[j] = "started"
      /\ \A i \in Jobs \ {j} : place'[i] = place[i]
  BY <1>1 DEF TypeOK, Places
<1>5. Busy' /\ Exclusive'
  BY <1>3, MatchQueueAssumption DEF Busy, Exclusive
<1>6. \A i \in Jobs \ {j} : (Held(i)' <=> Held(i)) /\ (Done(i)' <=> Done(i))
  BY <1>1, <1>3, MatchQueueAssumption DEF Held, Done
<1>7. ~Done(j) /\ ~Done(j)'
  BY <1>1, <1>3 DEF Held, Done
<1>8. Argued' /\ Started'
  BY <1>1, <1>4, <1>6 DEF Argued, Started
<1>9. ASSUME NEW g \in Files PROVE Fate(g)' = Fate(g)
  <2>1. \A i \in Jobs : LiveJob(i)' <=> LiveJob(i)
    BY <1>1, <1>4, <1>6, <1>7 DEF LiveJob
  <2>2. Live(g)' <=> \E i \in Jobs : of'[i] = g /\ LiveJob(i)'
    BY DEF Live, LiveJob
  <2>3. Live(g)' <=> Live(g)
    BY <1>1, <2>1, <2>2, LiveFile
  <2>4. Listed(g)' <=> Listed(g)
    BY <1>1, <1>4 DEF Listed
  <2> QED
    BY <1>1, <2>3, <2>4, Fates, FatesNext
<1>10. [Abstract!Next]_(Abstract!vars)
  BY <1>9, NoFile
<1> QED
  BY <1>1, <1>3, <1>4, <1>5, <1>8, <1>10 DEF Keeps, TypeOK

\* A worker that is told where to go on.
LEMMA Goes ==
    ASSUME QueueInv, NEW w \in Workers, worker[w].pc # "idle",
           NEW to \in {"run", "put", "done"}, Goto(w, to)
    PROVE  \E state \in WorkerStates : /\ state.job = worker[w].job /\ state.pc = to
                                       /\ worker' = [worker EXCEPT ![w] = state]
<1> DEFINE state == [worker[w] EXCEPT !.pc = to]
<1>1. worker[w] \in WorkerStates
  BY DEF QueueInv, TypeOK
<1>2. state \in WorkerStates /\ state.job = worker[w].job /\ state.pc = to
  BY <1>1 DEF WorkerStates
<1>3. worker' = [worker EXCEPT ![w] = state]
  BY DEF Goto
<1> QED
  BY <1>2, <1>3

\* The matcher's verdict is committed.
LEMMA RunKeeps ==
    ASSUME QueueInv, NEW w \in Workers, NEW verdict \in {"open", "closed"}, RunMatcher(w, verdict)
    PROVE  Keeps
<1> USE DEF QueueInv
<1>1. worker[w].pc = "run" /\ worker[w].pc # "idle" /\ Goto(w, "done")
  BY DEF RunMatcher
<1>2. PICK j \in Jobs : j = worker[w].job
  BY <1>1, AtJob
<1>3. PICK f \in Files : f = of[j]
  BY <1>1, <1>2, AtJob
<1>4. /\ row' = [row EXCEPT ![f] = verdict]
      /\ UNCHANGED <<place, of, submitted, admin>>
  BY <1>2, <1>3 DEF RunMatcher
<1>5. PICK state \in WorkerStates : /\ state.job = j /\ state.pc = "done"
                                    /\ worker' = [worker EXCEPT ![w] = state]
  BY <1>1, <1>2, Goes
<1>6. /\ worker' \in [Workers -> WorkerStates] /\ Busy' /\ Exclusive'
      /\ \A i \in Jobs : Held(i)' <=> Held(i)
      /\ \A i \in Jobs \ {j} : Done(i)' <=> Done(i)
  BY <1>1, <1>2, <1>5, GoesOn
<1>7. Argued' /\ Started'
  BY <1>4, <1>6 DEF Argued, Started
<1>8. /\ row' \in [Files -> Rows] /\ row'[f] # "none"
      /\ \A g \in Files \ {f} : row'[g] = row[g]
  BY <1>4 DEF TypeOK, Rows
<1>9. ASSUME NEW i \in Jobs PROVE Same(i) \/ Concerns(i, f)
  BY <1>3, <1>4, <1>6 DEF Same, Concerns, LiveJob
<1>10. \A g \in Files \ {f} : Fate(g)' = Fate(g)
  BY <1>4, <1>8, <1>9, Elsewhere
<1>11. Live(f)
  BY <1>1, <1>2, <1>3, AtJob DEF Live
<1>12. Passes(f)
  BY <1>8, <1>11, Fates, FatesNext DEF Passes
<1>13. Clearing' <=> Clearing
  BY <1>4 DEF Clearing
<1>14. [Abstract!Next]_(Abstract!vars)
  BY <1>10, <1>12, <1>13, OneFile
<1> QED
  BY <1>4, <1>6, <1>7, <1>8, <1>14 DEF Keeps, TypeOK

\* A worker lets go of its job, which is on record somewhere or gone: failed,
\* done with, or left behind.
LEMMA LeaveKeeps ==
    ASSUME QueueInv, NEW w \in Workers, worker[w].pc # "idle",
           NEW j \in Jobs, j = worker[w].job,
           worker' = [worker EXCEPT ![w] = Idle], UNCHANGED <<row, submitted, admin>>,
           \/ /\ place' = [place EXCEPT ![j] = "failed"] /\ of' = of
              /\ worker[w].pc # "done"
           \/ /\ place' = [place EXCEPT ![j] = "free"] /\ of' = [of EXCEPT ![j] = Null]
              /\ worker[w].pc = "done"
           \/ /\ place' = [place EXCEPT ![j] = "started"] /\ of' = of
    PROVE  Keeps
<1> USE DEF QueueInv
<1>1. /\ worker' \in [Workers -> WorkerStates] /\ Busy' /\ Exclusive'
      /\ \A i \in Jobs \ {j} : (Held(i)' <=> Held(i)) /\ (Done(i)' <=> Done(i))
      /\ ~Held(j)' /\ ~Done(j)'
  BY LetsGo
<1>2. /\ Held(j) /\ place[j] \in {"started", "free"} /\ (Done(j) <=> worker[w].pc = "done")
      /\ of[j] \in submitted /\ of[j] \in Files
  BY AtJob
<1>3. PICK f \in Files : f = of[j]
  BY <1>2
<1>4. /\ place' \in [Jobs -> Places]
      /\ \A i \in Jobs \ {j} : place'[i] = place[i] /\ of'[i] = of[i]
      /\ of' \in [Jobs -> Files \cup {Null}]
      /\ place'[j] # "free" => of'[j] = f
      /\ place'[j] \in {"failed", "free", "started"}
      /\ place'[j] = "free" => worker[w].pc = "done"
      /\ place'[j] = "failed" => worker[w].pc # "done"
  BY <1>3 DEF TypeOK, Places
<1>5. Argued' /\ Started'
  BY <1>1, <1>2, <1>3, <1>4 DEF Argued, Started
<1>6. ASSUME NEW i \in Jobs PROVE Same(i) \/ Concerns(i, f)
  BY <1>1, <1>2, <1>3, <1>4 DEF Same, Concerns, LiveJob
<1>7. \A g \in Files \ {f} : Fate(g)' = Fate(g)
  BY <1>6, Elsewhere
<1>8. Passes(f)
  <2>1. \A i \in Jobs \ {j} : Same(i)
    BY <1>1, <1>4 DEF Same, LiveJob
  <2>2. Live(f)' <=> \E i \in Jobs : of'[i] = f /\ LiveJob(i)'
    BY DEF Live, LiveJob
  <2>3. CASE place'[j] = "failed"
    <3>1. Live(f) /\ Listed(f)'
      BY <1>2, <1>3, <1>4, <2>3 DEF Live, Listed
    <3> QED
      BY <3>1, Fates, FatesNext DEF Passes
  <2>4. CASE place'[j] = "started"
    <3>1. LiveJob(j)' /\ of'[j] = f
      BY <1>1, <1>4, <2>4 DEF LiveJob
    <3>2. Live(f)'
      BY <2>2, <3>1
    <3> QED
      BY <3>2, Fates, FatesNext DEF Passes
  <2>5. CASE place'[j] = "free"
    <3>1. ~LiveJob(j) /\ ~LiveJob(j)' /\ place[j] # "failed"
      BY <1>1, <1>2, <1>4, <2>5 DEF LiveJob
    <3>2. Live(f)' <=> Live(f)
      BY <2>1, <2>2, <3>1, LiveFile DEF Same
    <3>3. Listed(f)' <=> Listed(f)
      BY <2>1, <2>5, <3>1 DEF Same, Listed
    <3>4. Fate(f)' = Fate(f)
      BY <3>2, <3>3, Fates, FatesNext
    <3> QED
      BY <3>4 DEF Passes
  <2> QED
    BY <1>4, <2>3, <2>4, <2>5
<1>9. Clearing' <=> Clearing
  BY DEF Clearing
<1>10. [Abstract!Next]_(Abstract!vars)
  BY <1>7, <1>8, <1>9, OneFile
<1> QED
  BY <1>1, <1>4, <1>5, <1>10 DEF Keeps, TypeOK

\* Everything a worker does at a job.
LEMMA WorkerKeeps ==
    ASSUME QueueInv, NEW w \in Workers, WorkerStep(w)
    PROVE  Keeps
<1> USE DEF QueueInv
<1>1. worker[w].pc # "idle"
  BY DEF WorkerStep, Hold, RunMatcher, RateLimited, Raise, Reschedule, AttemptFails,
         RescheduleFails, Finish, Die
<1>2. PICK j \in Jobs : j = worker[w].job
  BY <1>1, AtJob
<1>3. PICK f \in Files : f = of[j]
  BY <1>1, <1>2, AtJob
<1>4. ASSUME NEW to \in {"put"}, Goto(w, to), worker[w].pc = "run",
             UNCHANGED <<row, place, of, submitted>>
      PROVE  Keeps
  <2>1. PICK state \in WorkerStates : /\ state.job = j /\ state.pc = to
                                      /\ worker' = [worker EXCEPT ![w] = state]
    BY <1>1, <1>2, <1>4, Goes
  <2>2. /\ worker' \in [Workers -> WorkerStates] /\ Busy' /\ Exclusive'
        /\ \A i \in Jobs : Held(i)' <=> Held(i)
        /\ \A i \in Jobs \ {j} : Done(i)' <=> Done(i)
        /\ Done(j)' <=> FALSE
    BY <1>1, <1>2, <1>4, <2>1, GoesOn
  <2>3. ~Done(j)
    BY <1>1, <1>2, <1>4, AtJob
  <2> QED
    BY <1>4, <2>2, <2>3, QuietKeeps
<1>5. CASE Hold(w)
  BY <1>4, <1>5 DEF Hold
<1>6. CASE RateLimited(w)
  BY <1>4, <1>6 DEF RateLimited
<1>7. CASE \E v \in {"open", "closed"} : RunMatcher(w, v)
  BY <1>7, RunKeeps
<1>8. CASE Raise(w)
  BY <1>1, <1>2, <1>8, LeaveKeeps DEF Raise, FailJob
<1>9. CASE RescheduleFails(w)
  BY <1>1, <1>2, <1>9, LeaveKeeps DEF RescheduleFails, FailJob
<1>10. CASE Finish(w)
  BY <1>1, <1>2, <1>10, LeaveKeeps DEF Finish
<1>11. CASE Die(w)
  BY <1>1, <1>2, <1>11, LeaveKeeps DEF Die
<1>12. CASE Reschedule(w)
  <2>1. Put(f, "scheduled") /\ Goto(w, "done") /\ UNCHANGED <<row, submitted, admin>>
    BY <1>2, <1>3, <1>12 DEF Reschedule
  <2>2. PICK state \in WorkerStates : /\ state.job = j /\ state.pc = "done"
                                      /\ worker' = [worker EXCEPT ![w] = state]
    BY <1>1, <1>2, <2>1, Goes
  <2>3. /\ worker' \in [Workers -> WorkerStates] /\ Busy' /\ Exclusive'
        /\ \A i \in Jobs : Held(i)' <=> Held(i)
        /\ \A i \in Jobs \ {j} : Done(i)' <=> Done(i)
    BY <1>1, <1>2, <2>2, GoesOn
  <2>4. \A i \in Jobs : (Done(i)' <=> Done(i)) \/ of[i] = f
    BY <1>3, <2>3
  <2>5. submitted' = submitted \cup {f}
    BY <1>1, <1>2, <1>3, <2>1, AtJob
  <2>6. Clearing' <=> Clearing
    BY <2>1 DEF Clearing
  <2> QED
    BY <2>1, <2>3, <2>4, <2>5, <2>6, PutKeeps
<1>13. CASE AttemptFails(w)
  <2> DEFINE state == [worker[w] EXCEPT !.tries = @ + 1]
  <2>1. worker[w].pc = "put" /\ worker' = [worker EXCEPT ![w] = state]
    BY <1>13 DEF AttemptFails
  <2>2. worker[w] \in WorkerStates
    BY DEF TypeOK
  <2>3. worker[w].tries < Retries /\ worker[w].tries \in 0..Retries
    BY <1>13, <2>2 DEF AttemptFails, AttemptsLeft, WorkerStates
  <2>4. worker[w].tries + 1 \in 0..Retries
    BY <2>3, MatchQueueAssumption
  <2>5. state \in WorkerStates /\ state.job = j /\ state.pc = "put"
    BY <1>2, <2>1, <2>2, <2>4 DEF WorkerStates
  <2>6. /\ worker' \in [Workers -> WorkerStates] /\ Busy' /\ Exclusive'
        /\ \A i \in Jobs : Held(i)' <=> Held(i)
        /\ \A i \in Jobs \ {j} : Done(i)' <=> Done(i)
        /\ Done(j)' <=> FALSE
    BY <1>1, <1>2, <2>1, <2>5, GoesOn
  <2>7. ~Done(j)
    BY <1>1, <1>2, <2>1, AtJob
  <2>8. UNCHANGED <<row, submitted, admin>>
    BY <1>13 DEF AttemptFails
  <2>9. CASE UNCHANGED <<place, of>>
    BY <2>6, <2>7, <2>8, <2>9, QuietKeeps
  <2>10. CASE Put(f, "scheduled")
    <3>1. submitted' = submitted \cup {f}
      BY <1>1, <1>2, <1>3, <2>8, AtJob
    <3>2. Clearing' <=> Clearing
      BY <2>8 DEF Clearing
    <3> QED
      BY <2>6, <2>7, <2>8, <2>10, <3>1, <3>2, PutKeeps
  <2> QED
    BY <1>2, <1>3, <1>13, <2>9, <2>10 DEF AttemptFails
<1> QED
  BY <1>5, <1>6, <1>7, <1>8, <1>9, <1>10, <1>11, <1>12, <1>13 DEF WorkerStep

LEMMA RestTyped ==
    ASSUME QueueInv, [Next]_vars
    PROVE  RestTypes'
<1> USE DEF QueueInv, TypeOK, RestTypes
<1>1. ASSUME NEW f \in Files, EnqueueMatchFile(f) PROVE RestTypes'
  BY <1>1 DEF EnqueueMatchFile, counters
<1>2. ASSUME NEW f \in Files, EnqueueUnmatched(f) PROVE RestTypes'
  BY <1>2 DEF EnqueueUnmatched, counters
<1>3. ASSUME NEW stored \in SUBSET Files, ListUnmatched(stored) PROVE RestTypes'
  <2>1. passes' \in 0..MaxPasses
    BY <1>3, MatchQueueAssumption DEF ListUnmatched
  <2> QED
    BY <1>3, <2>1 DEF ListUnmatched
<1>4. ASSUME faults < MaxFaults, faults' = faults + 1 PROVE faults' \in 0..MaxFaults
  BY <1>4, MatchQueueAssumption
<1>5. CASE AbandonPass
  BY <1>4, <1>5 DEF AbandonPass
<1>6. CASE SaveKey
  BY <1>6 DEF SaveKey, counters
<1>7. ASSUME NEW w \in Workers, WorkerStep(w) PROVE RestTypes'
  <2>1. CASE Hold(w) \/ (\E v \in {"open", "closed"} : RunMatcher(w, v)) \/ Reschedule(w)
             \/ RescheduleFails(w) \/ Finish(w)
    BY <2>1 DEF Hold, RunMatcher, Reschedule, RescheduleFails, Finish, counters
  <2>2. CASE RateLimited(w)
    <3>1. limits' \in 0..MaxLimits
      BY <2>2, MatchQueueAssumption DEF RateLimited
    <3> QED
      BY <2>2, <3>1 DEF RateLimited
  <2>3. CASE Raise(w)
    BY <1>4, <2>3 DEF Raise
  <2>4. CASE AttemptFails(w)
    BY <1>4, <2>4 DEF AttemptFails
  <2>5. CASE Die(w)
    <3>1. owed' \in [Files -> Nat]
      <4>1. CASE worker[w].pc = "done"
        <5>1. of[worker[w].job] \in Files
          BY <4>1, AtJob
        <5>2. owed' = [owed EXCEPT ![of[worker[w].job]] = @ + 1]
          BY <2>5, <4>1 DEF Die
        <5> QED
          BY <5>1, <5>2
      <4>2. CASE worker[w].pc # "done"
        BY <2>5, <4>2 DEF Die
      <4> QED
        BY <4>1, <4>2
    <3> QED
      BY <1>4, <2>5, <3>1 DEF Die
  <2> QED
    BY <1>7, <2>1, <2>2, <2>3, <2>4, <2>5 DEF WorkerStep
<1>8. ASSUME NEW w \in Workers, NEW j \in Jobs, Start(w, j) PROVE RestTypes'
  BY <1>8 DEF Start, counters
<1>9. ASSUME NEW j \in Jobs, Abandon(j) \/ Promote(j) PROVE RestTypes'
  BY <1>9 DEF Abandon, Promote, counters
<1>10. ASSUME NEW a \in Admins, NEW op \in {"requeue", "clear"}, NEW S \in SUBSET Jobs,
              ListFailed(a, op, S)
       PROVE  RestTypes'
  <2>1. [op |-> op, todo |-> S] \in AdminStates
    BY DEF AdminStates
  <2> QED
    BY <1>10, <2>1 DEF ListFailed, counters
<1>11. ASSUME NEW a \in Admins, NEW j \in Jobs, Requeue(a, j) \/ DeleteJob(a, j)
       PROVE  RestTypes'
  <2>1. admin[a] \in AdminStates
    OBVIOUS
  <2>2. [admin[a] EXCEPT !.todo = @ \ {j}] \in AdminStates
    BY <2>1 DEF AdminStates
  <2>3. admin' = [admin EXCEPT ![a] = [admin[a] EXCEPT !.todo = @ \ {j}]]
    BY <1>11 DEF Requeue, DeleteJob
  <2>4. admin' \in [Admins -> AdminStates]
    BY <2>2, <2>3
  <2>5. UNCHANGED <<configured, pass, scanned, owed, faults, limits, passes>>
    BY <1>11 DEF Requeue, DeleteJob, counters
  <2> QED
    BY <2>4, <2>5
<1>12. ASSUME NEW a \in Admins, Answer(a) PROVE RestTypes'
  <2>1. [op |-> "none", todo |-> {}] \in AdminStates
    BY DEF AdminStates
  <2> QED
    BY <1>12, <2>1 DEF Answer, counters
<1>13. CASE UNCHANGED vars
  BY <1>13 DEF vars
<1> QED
  BY <1>1, <1>2, <1>3, <1>5, <1>6, <1>7, <1>8, <1>9, <1>10, <1>11, <1>12, <1>13 DEF Next, QueueStep

LEMMA NextKeeps ==
    ASSUME QueueInv, [Next]_vars
    PROVE  Keeps
<1> USE DEF QueueInv
<1>1. ASSUME worker' = worker
      PROVE  /\ worker' \in [Workers -> WorkerStates] /\ Busy' /\ Exclusive'
             /\ \A j \in Jobs : (Held(j)' <=> Held(j)) /\ (Done(j)' <=> Done(j))
  BY <1>1, WorkersKept
<1>2. ASSUME NEW f \in Files, EnqueueMatchFile(f) \/ EnqueueUnmatched(f) PROVE Keeps
  <2>1. /\ Put(f, "queued") /\ submitted' = submitted \cup {f}
        /\ UNCHANGED <<row, worker, admin>>
    BY <1>2 DEF EnqueueMatchFile, EnqueueUnmatched
  <2>2. Clearing' <=> Clearing
    BY <2>1 DEF Clearing
  <2> QED
    BY <1>1, <2>1, <2>2, PutKeeps
<1>3. ASSUME UNCHANGED <<row, place, of, submitted, worker>> PROVE Keeps
  BY <1>1, <1>3, QuietKeeps
<1>4. CASE (\E stored \in SUBSET Files : ListUnmatched(stored)) \/ AbandonPass \/ SaveKey \/ UNCHANGED vars
  BY <1>3, <1>4 DEF ListUnmatched, AbandonPass, SaveKey, vars
<1>5. ASSUME NEW j \in Jobs, Abandon(j) \/ Promote(j) PROVE Keeps
  <2>1. Clearing' <=> Clearing
    BY <1>5 DEF Abandon, Promote, Clearing
  <2>2. ~Held(j)
    BY <1>5 DEF Abandon, Promote, Started
  <2>3. CASE Abandon(j)
    BY <2>1, <2>2, <2>3, PlaceKeeps DEF Abandon
  <2>4. CASE Promote(j)
    BY <2>1, <2>2, <2>4, PlaceKeeps DEF Promote
  <2> QED
    BY <1>5, <2>3, <2>4
<1>6. ASSUME NEW a \in Admins, NEW op \in {"requeue", "clear"}, NEW S \in SUBSET Jobs,
             ListFailed(a, op, S)
      PROVE  Keeps
  BY <1>3, <1>6 DEF ListFailed
<1>7. ASSUME NEW a \in Admins, Answer(a) PROVE Keeps
  BY <1>3, <1>7 DEF Answer
<1>8. ASSUME NEW a \in Admins, NEW j \in Jobs, Requeue(a, j) PROVE Keeps
  <2>1. /\ UNCHANGED <<row, of, worker, submitted>>
        /\ admin' = [admin EXCEPT ![a].todo = @ \ {j}]
    BY <1>8 DEF Requeue
  <2>2. CASE place[j] = "failed"
    <3>1. ~Held(j)
      BY <2>2 DEF Started
    <3>2. \A b \in Admins : admin'[b].op = admin[b].op
      BY <2>1 DEF TypeOK, AdminStates
    <3>3. Clearing' <=> Clearing
      BY <3>2 DEF Clearing
    <3> QED
      BY <1>8, <2>1, <2>2, <3>1, <3>3, PlaceKeeps DEF Requeue
  <2>3. CASE place[j] # "failed"
    BY <1>3, <1>8, <2>1, <2>3 DEF Requeue
  <2> QED
    BY <2>2, <2>3
<1>9. ASSUME NEW a \in Admins, NEW j \in Jobs, DeleteJob(a, j) PROVE Keeps
  <2>1. Clearing
    BY <1>9 DEF DeleteJob, Clearing
  <2>2. admin'[a].op = "clear"
    BY <1>9 DEF DeleteJob, TypeOK, AdminStates
  <2>3. Clearing'
    BY <2>2 DEF Clearing
  <2> QED
    BY <1>9, <2>1, <2>3, DeleteKeeps DEF DeleteJob
<1> QED
  BY <1>2, <1>4, <1>5, <1>6, <1>7, <1>8, <1>9, WorkerKeeps, StartKeeps DEF Next, QueueStep

(* ---- how many jobs a file has ---- *)

\* A job that has not done its work.
OnRecord(j) == (place[j] # "free" \/ Held(j)) /\ ~Done(j)

JobsOf(f) == {j \in Jobs : of[j] = f /\ OnRecord(j)}

LEMMA Accounted == JobsAccounted <=> \A f \in Files : Cardinality(JobsOf(f)) <= owed[f]
BY DEF JobsAccounted, JobsOf, OnRecord

LEMMA AccountedNext ==
    JobsAccounted' <=> \A f \in Files : Cardinality(JobsOf(f)') <= owed'[f]
BY DEF JobsAccounted, JobsOf, OnRecord

\* Job i is not new on record.
NotNew(i) == OnRecord(i)' => OnRecord(i) /\ of'[i] = of[i]

LEMMA JobsFinite ==
    ASSUME NEW S \in SUBSET Jobs, NEW j \in Jobs
    PROVE  /\ IsFiniteSet(S) /\ Cardinality(S) \in Nat
           /\ Cardinality(S \cup {j}) <= Cardinality(S) + 1
           /\ j \in S => Cardinality(S \ {j}) = Cardinality(S) - 1
           /\ \A T \in SUBSET S : Cardinality(T) <= Cardinality(S)
<1>1. IsFiniteSet(S)
  BY FS_Subset, MatchQueueAssumption
<1>2. Cardinality(S) \in Nat
  BY <1>1, FS_CardinalityType
<1>3. Cardinality(S \cup {j}) <= Cardinality(S) + 1
  BY <1>1, <1>2, FS_AddElement
<1>4. j \in S => Cardinality(S \ {j}) = Cardinality(S) - 1
  BY <1>1, <1>2, FS_RemoveElement
<1>5. \A T \in SUBSET S : Cardinality(T) <= Cardinality(S)
  BY <1>1, FS_Subset
<1> QED
  BY <1>1, <1>2, <1>3, <1>4, <1>5

\* A step after which no job is new on record.
LEMMA NoneNew ==
    ASSUME TypeOK, JobsAccounted, \A i \in Jobs : NotNew(i), owed' = owed
    PROVE  JobsAccounted'
<1> SUFFICES ASSUME NEW f \in Files PROVE Cardinality(JobsOf(f)') <= owed'[f]
  BY AccountedNext
<1>1. JobsOf(f)' \subseteq JobsOf(f) /\ JobsOf(f) \subseteq Jobs
  BY DEF JobsOf, NotNew
<1>2. Cardinality(JobsOf(f)) <= owed[f]
  BY Accounted
<1>3. CASE Jobs = {}
  BY <1>1, <1>2, <1>3
<1>4. CASE Jobs # {}
  <2>1. PICK j \in Jobs : TRUE
    BY <1>4
  <2>2. Cardinality(JobsOf(f)') <= Cardinality(JobsOf(f))
    BY <1>1, <2>1, JobsFinite
  <2>3. Cardinality(JobsOf(f)') \in Nat /\ Cardinality(JobsOf(f)) \in Nat /\ owed[f] \in Nat
    BY <1>1, <2>1, JobsFinite DEF TypeOK
  <2> QED
    BY <1>2, <2>2, <2>3
<1> QED
  BY <1>3, <1>4

\* One job of f comes on record, and is owed.
LEMMA OneOwed ==
    ASSUME TypeOK, JobsAccounted, NEW f \in Files, NEW j \in Jobs, of'[j] = f,
           \A i \in Jobs \ {j} : NotNew(i), owed' = [owed EXCEPT ![f] = @ + 1]
    PROVE  JobsAccounted'
<1> SUFFICES ASSUME NEW g \in Files PROVE Cardinality(JobsOf(g)') <= owed'[g]
  BY AccountedNext
<1>1. JobsOf(g) \subseteq Jobs /\ Cardinality(JobsOf(g)) <= owed[g]
  BY Accounted DEF JobsOf
<1>2. CASE g = f
  <2>1. JobsOf(g)' \subseteq JobsOf(g) \cup {j}
    BY DEF JobsOf, NotNew
  <2>2. JobsOf(g) \cup {j} \subseteq Jobs
    BY <1>1
  <2>3. Cardinality(JobsOf(g)') <= Cardinality(JobsOf(g) \cup {j})
    BY <2>1, <2>2, JobsFinite
  <2>4. /\ Cardinality(JobsOf(g) \cup {j}) <= Cardinality(JobsOf(g)) + 1
        /\ Cardinality(JobsOf(g)) \in Nat /\ Cardinality(JobsOf(g) \cup {j}) \in Nat
    BY <1>1, <2>2, JobsFinite
  <2>5. Cardinality(JobsOf(g)') \in Nat
    BY <2>1, <2>2, JobsFinite
  <2>6. owed'[g] = owed[g] + 1 /\ owed[g] \in Nat
    BY <1>2 DEF TypeOK
  <2> QED
    BY <1>1, <2>3, <2>4, <2>5, <2>6
<1>3. CASE g # f
  <2>1. JobsOf(g)' \subseteq JobsOf(g)
    BY <1>3 DEF JobsOf, NotNew
  <2>2. Cardinality(JobsOf(g)') <= Cardinality(JobsOf(g))
    BY <1>1, <2>1, JobsFinite
  <2>3. Cardinality(JobsOf(g)') \in Nat /\ Cardinality(JobsOf(g)) \in Nat
    BY <1>1, <2>1, JobsFinite
  <2>4. owed'[g] = owed[g] /\ owed[g] \in Nat
    BY <1>3 DEF TypeOK
  <2> QED
    BY <1>1, <2>2, <2>3, <2>4
<1> QED
  BY <1>2, <1>3

\* One job of f comes on record as another one of f is done with.
LEMMA OneForOne ==
    ASSUME TypeOK, JobsAccounted, NEW f \in Files, NEW i \in Jobs, NEW j \in Jobs, of'[j] = f,
           of[i] = f, OnRecord(i), ~OnRecord(i)',
           \A k \in Jobs \ {j} : NotNew(k), owed' = owed
    PROVE  JobsAccounted'
<1> SUFFICES ASSUME NEW g \in Files PROVE Cardinality(JobsOf(g)') <= owed'[g]
  BY AccountedNext
<1>1. /\ JobsOf(g) \subseteq Jobs /\ Cardinality(JobsOf(g)) <= owed[g]
      /\ owed'[g] = owed[g] /\ owed[g] \in Nat
  BY Accounted DEF JobsOf, TypeOK
<1>2. CASE g = f
  <2> DEFINE rest == JobsOf(g) \ {i}
  <2>1. JobsOf(g)' \subseteq rest \cup {j}
    BY DEF JobsOf, NotNew
  <2>2. rest \subseteq Jobs /\ rest \cup {j} \subseteq Jobs
    BY <1>1
  <2>3. i \in JobsOf(g)
    BY <1>2 DEF JobsOf
  <2>4. /\ Cardinality(rest) = Cardinality(JobsOf(g)) - 1 /\ Cardinality(JobsOf(g)) \in Nat
    BY <1>1, <2>3, JobsFinite
  <2>5. /\ Cardinality(rest \cup {j}) <= Cardinality(rest) + 1
        /\ Cardinality(rest \cup {j}) \in Nat /\ Cardinality(rest) \in Nat
    BY <2>2, JobsFinite
  <2>6. Cardinality(JobsOf(g)') <= Cardinality(rest \cup {j}) /\ Cardinality(JobsOf(g)') \in Nat
    BY <2>1, <2>2, JobsFinite
  <2> HIDE DEF rest
  <2> QED
    BY <1>1, <2>4, <2>5, <2>6
<1>3. CASE g # f
  <2>1. JobsOf(g)' \subseteq JobsOf(g)
    BY <1>3 DEF JobsOf, NotNew
  <2>2. Cardinality(JobsOf(g)') <= Cardinality(JobsOf(g))
    BY <1>1, <2>1, JobsFinite
  <2>3. Cardinality(JobsOf(g)') \in Nat /\ Cardinality(JobsOf(g)) \in Nat
    BY <1>1, <2>1, JobsFinite
  <2> QED
    BY <1>1, <2>2, <2>3
<1> QED
  BY <1>2, <1>3

\* Put brings one job on record.
LEMMA PutCounts ==
    ASSUME QueueInv, NEW f \in Files, NEW where \in {"queued", "scheduled"}, Put(f, where),
           \A i \in Jobs : Held(i)' <=> Held(i),
           \A i \in Jobs : Done(i) => Done(i)'
    PROVE  \E j \in Jobs : /\ of'[j] = f /\ ~Held(j) /\ \A i \in Jobs \ {j} : NotNew(i)
                           /\ \A i \in Jobs \ {j} : of'[i] = of[i]
<1>1. PICK j \in Jobs : /\ Free(j)
                        /\ place' = [place EXCEPT ![j] = where]
                        /\ of' = [of EXCEPT ![j] = f]
  BY Puts DEF QueueInv, Places
<1>2. /\ ~Held(j) /\ of'[j] = f
      /\ \A i \in Jobs \ {j} : place'[i] = place[i] /\ of'[i] = of[i]
  BY <1>1 DEF Free, QueueInv, TypeOK
<1> QED
  BY <1>2 DEF NotNew, OnRecord

\* A worker that leaves its job leaves no new one.
LEMMA LeaveCounts ==
    ASSUME QueueInv, NEW w \in Workers, worker[w].pc # "idle",
           NEW j \in Jobs, j = worker[w].job, worker' = [worker EXCEPT ![w] = Idle],
           \A i \in Jobs \ {j} : place'[i] = place[i] /\ of'[i] = of[i]
    PROVE  /\ \A i \in Jobs \ {j} : NotNew(i)
           /\ worker[w].pc # "done" /\ of'[j] = of[j] => NotNew(j)
           /\ place'[j] = "free" => NotNew(j)
<1>1. /\ \A i \in Jobs \ {j} : (Held(i)' <=> Held(i)) /\ (Done(i)' <=> Done(i))
      /\ ~Held(j)' /\ ~Done(j)'
  BY LetsGo
<1>2. Held(j) /\ (Done(j) <=> worker[w].pc = "done")
  BY AtJob
<1> QED
  BY <1>1, <1>2 DEF NotNew, OnRecord

LEMMA WorkerCounts ==
    ASSUME QueueInv, JobsAccounted, NEW w \in Workers, WorkerStep(w)
    PROVE  JobsAccounted'
<1> USE DEF QueueInv
<1>1. worker[w].pc # "idle"
  BY DEF WorkerStep, Hold, RunMatcher, RateLimited, Raise, Reschedule, AttemptFails,
         RescheduleFails, Finish, Die
<1>2. PICK j \in Jobs : j = worker[w].job
  BY <1>1, AtJob
<1>3. PICK f \in Files : f = of[j]
  BY <1>1, <1>2, AtJob
<1>4. Held(j) /\ (Done(j) <=> worker[w].pc = "done") /\ place[j] # "failed"
  BY <1>1, <1>2, AtJob
<1>5. ASSUME NEW to \in {"put", "done"}, Goto(w, to), worker[w].pc # "done"
      PROVE  /\ \A i \in Jobs : Held(i)' <=> Held(i)
             /\ \A i \in Jobs : Done(i) => Done(i)'
             /\ Done(j)' <=> to = "done"
  <2>1. PICK state \in WorkerStates : /\ state.job = j /\ state.pc = to
                                      /\ worker' = [worker EXCEPT ![w] = state]
    BY <1>1, <1>2, <1>5, Goes
  <2> QED
    BY <1>1, <1>2, <1>4, <1>5, <2>1, GoesOn
<1>6. CASE Hold(w) \/ RateLimited(w) \/ \E v \in {"open", "closed"} : RunMatcher(w, v)
  <2>1. /\ \E to \in {"put", "done"} : Goto(w, to)
        /\ worker[w].pc # "done" /\ UNCHANGED <<place, of, owed>>
    BY <1>6 DEF Hold, RateLimited, RunMatcher
  <2>2. \A i \in Jobs : NotNew(i)
    BY <1>5, <2>1 DEF NotNew, OnRecord
  <2> QED
    BY <2>1, <2>2, NoneNew
<1>7. CASE Raise(w) \/ RescheduleFails(w)
  <2>1. /\ place' = [place EXCEPT ![j] = "failed"] /\ worker' = [worker EXCEPT ![w] = Idle]
        /\ worker[w].pc # "done" /\ UNCHANGED <<of, owed>>
    BY <1>2, <1>7 DEF Raise, RescheduleFails, FailJob, counters
  <2>2. \A i \in Jobs : NotNew(i)
    BY <1>1, <1>2, <2>1, LeaveCounts DEF TypeOK
  <2> QED
    BY <2>1, <2>2, NoneNew
<1>8. CASE Finish(w)
  <2>1. /\ place' = [place EXCEPT ![j] = "free"] /\ of' = [of EXCEPT ![j] = Null]
        /\ worker' = [worker EXCEPT ![w] = Idle] /\ owed' = owed
    BY <1>2, <1>8 DEF Finish
  <2>2. \A i \in Jobs : NotNew(i)
    BY <1>1, <1>2, <2>1, LeaveCounts DEF TypeOK
  <2> QED
    BY <2>1, <2>2, NoneNew
<1>9. CASE Die(w)
  <2>1. /\ place' = [place EXCEPT ![j] = "started"] /\ of' = of
        /\ worker' = [worker EXCEPT ![w] = Idle]
        /\ owed' = IF worker[w].pc = "done" THEN [owed EXCEPT ![f] = @ + 1] ELSE owed
    BY <1>2, <1>3, <1>9 DEF Die
  <2>2. \A i \in Jobs \ {j} : NotNew(i)
    BY <1>1, <1>2, <2>1, LeaveCounts DEF TypeOK
  <2>3. CASE worker[w].pc = "done"
    BY <1>3, <2>1, <2>2, <2>3, OneOwed
  <2>4. CASE worker[w].pc # "done"
    <3>1. NotNew(j)
      BY <1>1, <1>2, <2>1, <2>4, LeaveCounts DEF TypeOK
    <3> QED
      BY <2>1, <2>2, <2>4, <3>1, NoneNew
  <2> QED
    BY <2>3, <2>4
<1>10. CASE Reschedule(w)
  <2>1. Put(f, "scheduled") /\ Goto(w, "done") /\ owed' = owed /\ worker[w].pc # "done"
    BY <1>2, <1>3, <1>10 DEF Reschedule, counters
  <2>2. PICK k \in Jobs : /\ of'[k] = f /\ ~Held(k) /\ \A i \in Jobs \ {k} : NotNew(i)
                          /\ \A i \in Jobs \ {k} : of'[i] = of[i]
    BY <1>5, <2>1, PutCounts
  <2>3. OnRecord(j) /\ ~OnRecord(j)'
    BY <1>4, <1>5, <2>1 DEF OnRecord
  <2> QED
    BY <1>3, <2>1, <2>2, <2>3, OneForOne
<1>11. CASE AttemptFails(w)
  <2> DEFINE state == [worker[w] EXCEPT !.tries = @ + 1]
  <2>1. /\ worker[w].pc = "put" /\ worker' = [worker EXCEPT ![w] = state]
        /\ worker[w] \in WorkerStates
    BY <1>11 DEF AttemptFails, TypeOK
  <2>2. worker[w].tries + 1 \in 0..Retries
    BY <1>11, <2>1, MatchQueueAssumption DEF AttemptFails, AttemptsLeft, WorkerStates
  <2>3. state \in WorkerStates /\ state.job = j /\ state.pc = "put"
    BY <1>2, <2>1, <2>2 DEF WorkerStates
  <2>4. /\ \A i \in Jobs : Held(i)' <=> Held(i)
        /\ \A i \in Jobs : Done(i) => Done(i)'
    BY <1>1, <1>2, <1>4, <2>1, <2>3, GoesOn
  <2>5. CASE UNCHANGED <<place, of, owed>>
    <3>1. \A i \in Jobs : NotNew(i)
      BY <2>4, <2>5 DEF NotNew, OnRecord
    <3> QED
      BY <2>5, <3>1, NoneNew
  <2>6. CASE Put(f, "scheduled") /\ owed' = [owed EXCEPT ![f] = @ + 1]
    BY <2>4, <2>6, PutCounts, OneOwed
  <2> QED
    BY <1>2, <1>3, <1>11, <2>5, <2>6 DEF AttemptFails
<1> QED
  BY <1>6, <1>7, <1>8, <1>9, <1>10, <1>11 DEF WorkerStep

LEMMA NextCounts ==
    ASSUME QueueInv, JobsAccounted, [Next]_vars
    PROVE  JobsAccounted'
<1> USE DEF QueueInv
<1>1. ASSUME worker' = worker
      PROVE  \A j \in Jobs : (Held(j)' <=> Held(j)) /\ (Done(j)' <=> Done(j))
  BY <1>1, WorkersKept
<1>2. ASSUME NEW f \in Files, EnqueueMatchFile(f) \/ EnqueueUnmatched(f) PROVE JobsAccounted'
  <2>1. Put(f, "queued") /\ worker' = worker /\ owed' = [owed EXCEPT ![f] = @ + 1]
    BY <1>2 DEF EnqueueMatchFile, EnqueueUnmatched
  <2>2. PICK j \in Jobs : of'[j] = f /\ \A i \in Jobs \ {j} : NotNew(i)
    BY <1>1, <2>1, PutCounts
  <2> QED
    BY <2>1, <2>2, OneOwed
<1>3. ASSUME NEW j \in Jobs, worker' = worker, owed' = owed, of' = of, place[j] # "free",
             \A i \in Jobs \ {j} : place'[i] = place[i]
      PROVE  JobsAccounted'
  <2>1. \A i \in Jobs : NotNew(i)
    BY <1>1, <1>3 DEF NotNew, OnRecord
  <2> QED
    BY <1>3, <2>1, NoneNew
<1>4. ASSUME UNCHANGED <<place, of, worker, owed>> PROVE JobsAccounted'
  <2>1. \A i \in Jobs : NotNew(i)
    BY <1>1, <1>4 DEF NotNew, OnRecord
  <2> QED
    BY <1>4, <2>1, NoneNew
<1>5. CASE (\E stored \in SUBSET Files : ListUnmatched(stored)) \/ AbandonPass \/ SaveKey \/ UNCHANGED vars
  BY <1>4, <1>5 DEF ListUnmatched, AbandonPass, SaveKey, vars
<1>6. ASSUME NEW w \in Workers, NEW j \in Jobs, Start(w, j) PROVE JobsAccounted'
  <2>1. /\ worker[w].pc = "idle" /\ worker[w].job = Null /\ place[j] = "queued" /\ ~Held(j)
        /\ place' = [place EXCEPT ![j] = "started"]
        /\ worker' = [worker EXCEPT ![w] = [job |-> j, pc |-> "run", tries |-> 0]]
        /\ UNCHANGED <<of, owed>>
    BY <1>6 DEF Start, Busy
  <2>2. \A i \in Jobs \ {j} : (Held(i)' <=> Held(i)) /\ (Done(i)' <=> Done(i))
    BY <2>1, MatchQueueAssumption DEF TypeOK, Held, Done
  <2>3. ~Done(j)
    BY <2>1 DEF Held, Done
  <2>4. \A i \in Jobs : NotNew(i)
    BY <2>1, <2>2, <2>3 DEF NotNew, OnRecord, TypeOK
  <2> QED
    BY <2>1, <2>4, NoneNew
<1>7. ASSUME NEW j \in Jobs, Abandon(j) \/ Promote(j) PROVE JobsAccounted'
  BY <1>3, <1>7 DEF Abandon, Promote, counters, TypeOK
<1>8. ASSUME NEW a \in Admins, NEW j \in Jobs, Requeue(a, j) PROVE JobsAccounted'
  <2>1. CASE place[j] = "failed"
    BY <1>3, <1>8, <2>1 DEF Requeue, TypeOK
  <2>2. CASE place[j] # "failed"
    BY <1>4, <1>8, <2>2 DEF Requeue
  <2> QED
    BY <2>1, <2>2
<1>9. ASSUME NEW a \in Admins, NEW j \in Jobs, DeleteJob(a, j) PROVE JobsAccounted'
  <2>1. /\ place' = [place EXCEPT ![j] = "free"] /\ UNCHANGED <<worker, owed>>
        /\ of' = IF Held(j) THEN of ELSE [of EXCEPT ![j] = Null]
    BY <1>9 DEF DeleteJob
  <2>2. \A i \in Jobs : NotNew(i)
    BY <1>1, <2>1 DEF NotNew, OnRecord, TypeOK
  <2> QED
    BY <2>1, <2>2, NoneNew
<1>10. ASSUME NEW a \in Admins,
              Answer(a) \/ \E op \in {"requeue", "clear"}, S \in SUBSET Jobs : ListFailed(a, op, S)
       PROVE  JobsAccounted'
  BY <1>4, <1>10 DEF Answer, ListFailed
<1> QED
  BY <1>2, <1>5, <1>6, <1>7, <1>8, <1>9, <1>10, WorkerCounts DEF Next, QueueStep

(* ---- the theorems ---- *)

LEMMA InitKeeps == Init => QueueInv /\ Abstract!Init
<1> SUFFICES ASSUME Init PROVE QueueInv /\ Abstract!Init
  OBVIOUS
<1>1. \A w \in Workers : worker[w] = Idle /\ Idle.job = Null /\ Idle.pc = "idle"
  BY DEF Init, Idle
<1>2. Idle \in WorkerStates /\ [op |-> "none", todo |-> {}] \in AdminStates
  BY MatchQueueAssumption DEF Idle, WorkerStates, AdminStates
<1>3. 0 \in 0..MaxFaults /\ 0 \in 0..MaxLimits /\ 0 \in 0..MaxPasses /\ 0 \in Nat
  BY MatchQueueAssumption
<1>4. TypeOK
  BY <1>2, <1>3 DEF Init, TypeOK, Rows, Places
<1>5. \A j \in Jobs : ~Held(j) /\ ~Done(j) /\ place[j] = "free"
  BY <1>1, MatchQueueAssumption DEF Held, Done, Init
<1>6. Argued /\ Busy /\ Exclusive /\ Started
  BY <1>1, <1>5 DEF Argued, Busy, Exclusive, Started
<1>7. ASSUME NEW f \in Files PROVE Fate(f) = "unknown"
  <2>1. ~Live(f) /\ ~Listed(f)
    BY <1>5 DEF Live, Listed
  <2> QED
    BY <2>1, Fates DEF Init
<1>8. ~Clearing
  BY DEF Init, Clearing
<1>9. Clearing = FALSE
  BY <1>8 DEF Clearing
<1> QED
  BY <1>4, <1>6, <1>7, <1>9 DEF QueueInv, Abstract!Init

\* The inductive invariant holds whatever the constants are.
THEOREM QueueInvariance == Spec => []QueueInv
<1>1. QueueInv /\ [Next]_vars => QueueInv'
  BY NextKeeps, RestTyped DEF QueueInv, Keeps, RestTypes, TypeOK
<1> QED
  BY <1>1, InitKeeps, PTL DEF Spec

\* Rows, jobs, workers and requests keep their types.
THEOREM QueueTypes == Spec => []TypeOK
<1>1. QueueInv => TypeOK
  BY DEF QueueInv
<1> QED
  BY <1>1, QueueInvariance, PTL

\* Whatever workers, Redis and admins do, in any order and number, a file that was
\* handed in is judged, waits for a job or is listed as failed, and is let go of
\* only while an admin clears: the queue implements AtLeastOnce.
THEOREM NothingForgotten == Spec => NoFileForgotten
<1>1. QueueInv /\ [Next]_vars => [Abstract!Next]_(Abstract!vars)
  BY NextKeeps DEF Keeps
<1> QED
  BY <1>1, InitKeeps, QueueInvariance, PTL DEF Spec, NoFileForgotten, Abstract!Spec

\* Putting a job off neither multiplies nor splits it: a file has no more jobs than
\* it is owed, for any number of workers, retries and faults.
THEOREM NoJobMultiplied == Spec => []JobsAccounted
<1>1. Init => JobsAccounted
  <2> SUFFICES ASSUME Init, NEW f \in Files PROVE Cardinality(JobsOf(f)) <= owed[f]
    BY Accounted
  <2>1. \A j \in Jobs : ~OnRecord(j)
    BY MatchQueueAssumption DEF Init, OnRecord, Held, Idle
  <2>2. JobsOf(f) = {}
    BY <2>1 DEF JobsOf
  <2> QED
    BY <2>2, FS_EmptySet DEF Init
<1>2. QueueInv /\ JobsAccounted /\ [Next]_vars => JobsAccounted'
  BY NextCounts
<1> QED
  BY <1>1, <1>2, QueueInvariance, PTL DEF Spec

(* ---- the scanner in the pipeline ---- *)

\* The scanner of the pipeline is the one of ScannerProofs ...
S == INSTANCE ScannerProofs WITH
    Contents <- Files, configured <- libraries, enqueued <- scanned,
    MaxFaults <- MaxScanFaults, faults <- scanFaults

\* ... step by step.
LEMMA SameScanner ==
    /\ Scan!Init <=> S!Init
    /\ [Scan!Next]_(Scan!vars) <=> [S!Next]_(S!vars)
    /\ Scan!Enqueue <=> S!Enqueue
BY DEF Scan!Init, S!Init, Scan!Next, S!Next, Scan!StartScan, S!StartScan, Scan!ScanStep,
       S!ScanStep, Scan!WalkStep, S!WalkStep, Scan!OpenLibrary, S!OpenLibrary,
       Scan!ListDirectory, S!ListDirectory, Scan!Visit, S!Visit, Scan!Hash, S!Hash, Scan!Store,
       S!Store, Scan!StoreFile, S!StoreFile, Scan!RefuseFile, S!RefuseFile,
       Scan!AbortAtMalformed, S!AbortAtMalformed, Scan!EndScan, S!EndScan, Scan!NextFile,
       S!NextFile, Scan!Enqueue, S!Enqueue, Scan!Reconcile, S!Reconcile, Scan!Moved, S!Moved,
       Scan!MovedTo, S!MovedTo, Scan!RowsOf, S!RowsOf, Scan!Stale, S!Stale, Scan!Current,
       S!Current, Scan!Under, S!Under, Scan!OnDisk, S!OnDisk, Scan!Readable, S!Readable,
       Scan!Stat, S!Stat, Scan!Unchanged, S!Unchanged, Scan!Attach, S!Attach, Scan!ReadError,
       S!ReadError, Scan!Kill, S!Kill, Scan!Fault, S!Fault, Scan!Environment, S!Environment,
       Scan!Write, S!Write, Scan!Remove, S!Remove, Scan!Move, S!Move, Scan!Mount, S!Mount,
       Scan!Configure, S!Configure, Scan!Change, S!Change, Scan!world, S!world, Scan!tables,
       S!tables, Scan!walk, S!walk, Scan!step, S!step, Scan!notes, S!notes, Scan!bounds,
       S!bounds, Scan!vars, S!vars

\* What workers, Redis and admins do, the scanner's calls aside: they hand in only what
\* a pass lists ...
LEMMA QueueOutline ==
    ASSUME QueueStep
    PROVE  /\ scanned' = scanned /\ pass' \subseteq pass
           /\ submitted \subseteq submitted' /\ submitted' \subseteq submitted \union pass
           /\ row' = row \/ \E w \in Workers, v \in {"open", "closed"} : RunMatcher(w, v)
<1>1. ASSUME NEW w \in Workers, NEW v \in {"open", "closed"}, RunMatcher(w, v)
      PROVE  UNCHANGED <<scanned, pass, submitted>>
  BY <1>1 DEF RunMatcher
<1>2. ASSUME NEW f \in Files, EnqueueUnmatched(f)
      PROVE  /\ f \in pass /\ pass' = pass \ {f} /\ submitted' = submitted \union {f}
             /\ UNCHANGED <<row, scanned>>
  BY <1>2 DEF EnqueueUnmatched
<1>3. CASE AbandonPass \/ SaveKey
  BY <1>3 DEF AbandonPass, SaveKey
<1>4. ASSUME NEW w \in Workers,
             \/ Hold(w) \/ RateLimited(w) \/ Raise(w) \/ Reschedule(w) \/ AttemptFails(w)
             \/ RescheduleFails(w) \/ Finish(w) \/ Die(w) \/ \E j \in Jobs : Start(w, j)
      PROVE  UNCHANGED <<row, scanned, pass, submitted>>
  BY <1>4 DEF Hold, RateLimited, Raise, Reschedule, AttemptFails, RescheduleFails, Finish, Die,
              Start
<1>5. ASSUME NEW j \in Jobs, Abandon(j) \/ Promote(j) PROVE UNCHANGED <<row, scanned, pass, submitted>>
  BY <1>5 DEF Abandon, Promote
<1>6. ASSUME NEW a \in Admins,
             \/ \E op \in {"requeue", "clear"}, T \in SUBSET Jobs : ListFailed(a, op, T)
             \/ \E j \in Jobs : Requeue(a, j) \/ DeleteJob(a, j)
             \/ Answer(a)
      PROVE  UNCHANGED <<row, scanned, pass, submitted>>
  BY <1>6 DEF ListFailed, Requeue, DeleteJob, Answer
<1> QED
  BY <1>1, <1>2, <1>3, <1>4, <1>5, <1>6 DEF QueueStep, WorkerStep

\* ... and give a row only to what was handed in.
LEMMA RowsOutline ==
    ASSUME QueueInv, QueueStep
    PROVE  \A f \in Files : row'[f] # "none" => row[f] # "none" \/ f \in submitted
<1>1. CASE row' = row
  BY <1>1
<1>2. ASSUME NEW w \in Workers, NEW v \in {"open", "closed"}, RunMatcher(w, v)
      PROVE  \A f \in Files : row'[f] # "none" => row[f] # "none" \/ f \in submitted
  <2>1. of[worker[w].job] \in submitted
    BY <1>2, AtJob DEF RunMatcher
  <2>2. row' = [row EXCEPT ![of[worker[w].job]] = v]
    BY <1>2 DEF RunMatcher
  <2> QED
    BY <2>1, <2>2 DEF QueueInv, TypeOK
<1> QED
  BY <1>1, <1>2, QueueOutline

(* ---- the pipeline is its two components ---- *)

\* Every step of the pipeline is one of the scanner, or it does not notice; and one of the
\* match queue, if what is in the scanner's hand is a file.
LEMMA StepScans ==
    ASSUME [PipelineNext]_pipelineVars
    PROVE  [S!Next]_(S!vars)
<1>1. CASE Scanning
  BY <1>1, SameScanner DEF Scanning, Scan!Next, Scan!ScanStep
<1>2. CASE HandIn
  BY <1>2, SameScanner DEF HandIn, Scan!Next, Scan!ScanStep
<1>3. CASE MatchAll \/ Queueing \/ UNCHANGED pipelineVars
  <2>1. UNCHANGED scanVars /\ scanned' = scanned
    BY <1>3, QueueOutline DEF MatchAll, ListUnmatched, Queueing, pipelineVars, vars
  <2> QED
    BY <2>1 DEF scanVars, S!vars, S!world, S!tables, S!walk, S!step, S!notes, S!bounds
<1> QED
  BY <1>1, <1>2, <1>3 DEF PipelineNext

LEMMA StepQueues ==
    ASSUME S!IInv, [PipelineNext]_pipelineVars
    PROVE  [Next]_vars
<1>1. CASE HandIn
  <2>1. pc = "enqueue"
    BY <1>1 DEF HandIn, Scan!Enqueue
  <2>2. sha \in Files
    BY <2>1 DEF S!IInv, S!OneJobPerFile, S!Unmatched
  <2> QED
    BY <1>1, <2>2 DEF HandIn, Next
<1>2. CASE MatchAll
  BY <1>2 DEF MatchAll, Next, Stored
<1>3. CASE Scanning \/ Queueing \/ UNCHANGED pipelineVars
  BY <1>3 DEF Scanning, Queueing, Next, pipelineVars
<1> QED
  BY <1>1, <1>2, <1>3 DEF PipelineNext


\* In the pipeline the scanner behaves as it does alone, whatever the match queue does ...
THEOREM ScannerInPipeline == PipelineSpec => Scan!Spec
<1>1. PipelineInit => Scan!Init
  BY DEF PipelineInit
<1>2. [PipelineNext]_pipelineVars => [Scan!Next]_(Scan!vars)
  BY StepScans, SameScanner
<1> QED
  BY <1>1, <1>2, PTL DEF PipelineSpec, Scan!Spec

\* ... so what is proved of it holds here.
THEOREM ScannerHolds == PipelineSpec => [](S!IInv)
<1>1. PipelineInit => S!Init
  BY SameScanner DEF PipelineInit
<1>2. [PipelineNext]_pipelineVars => [S!Next]_(S!vars)
  BY StepScans
<1>3. S!Spec => [](S!IInv)
  BY PipelineAssumption, S!Invariance
<1>4. PipelineSpec => S!Spec
  BY <1>1, <1>2, PTL DEF PipelineSpec, S!Spec
<1> QED
  BY <1>3, <1>4

\* The match queue behaves as it does alone, with files that come to be stored.
THEOREM QueueInPipeline == PipelineSpec => Spec
<1>1. S!IInv /\ [PipelineNext]_pipelineVars => [Next]_vars
  BY StepQueues
<1>2. PipelineInit => Init
  BY DEF PipelineInit
<1> QED
  BY <1>1, <1>2, ScannerHolds, PTL DEF PipelineSpec, Spec

\* So its promises hold however files come to be stored.
THEOREM QueuePromisesHold == PipelineSpec => NoFileForgotten /\ []JobsAccounted
BY QueueInPipeline, NothingForgotten, NoJobMultiplied, PTL

(* ---- what links the two ---- *)

LEMMA LinkedStep ==
    ASSUME QueueInv, S!IInv, Linked, [PipelineNext]_pipelineVars
    PROVE  Linked'
<1>1. Stored \subseteq Stored'
  <2>1. \A c \in Files : files[c] # None => files'[c] = files[c]
    BY StepScans, S!FilesGrow, PipelineAssumption DEF S!IInv
  <2> QED
    BY <2>1 DEF Stored
<1>2. CASE Scanning \/ UNCHANGED pipelineVars
  BY <1>1, <1>2 DEF Scanning, pipelineVars, vars, Linked
<1>3. CASE HandIn
  <2>1. /\ submitted' = submitted \union {sha} /\ scanned' = scanned \union {sha}
        /\ UNCHANGED <<row, pass>>
    BY <1>3 DEF HandIn, EnqueueMatchFile
  <2>2. sha \in Stored
    BY <1>3 DEF HandIn, Scan!Enqueue, S!IInv, S!OneJobPerFile, S!Unmatched, Stored
  <2> QED
    BY <1>1, <2>1, <2>2 DEF Linked
<1>4. CASE MatchAll
  BY <1>1, <1>4 DEF MatchAll, ListUnmatched, Linked
<1>5. CASE Queueing
  <2>1. QueueStep
    BY <1>5 DEF Queueing
  <2> QED
    BY <1>1, <2>1, QueueOutline, RowsOutline DEF Linked
<1> QED
  BY <1>2, <1>3, <1>4, <1>5 DEF PipelineNext

\* The two components' invariants and what links them.
PipelineInv == QueueInv /\ S!IInv /\ Linked

THEOREM PipelineInvariance == PipelineSpec => []PipelineInv
<1>1. PipelineInit => Linked
  BY DEF PipelineInit, Init, Linked
<1>2. QueueInv /\ S!IInv /\ Linked /\ [PipelineNext]_pipelineVars => Linked'
  BY LinkedStep
<1>3. PipelineSpec => []QueueInv
  BY QueueInPipeline, QueueInvariance
<1> QED
  BY <1>1, <1>2, <1>3, ScannerHolds, PTL DEF PipelineSpec, PipelineInv

(* ---- from the disk to a verdict ---- *)

\* A file has a fate from when it is first handed in.
LEMMA HandedIn ==
    ASSUME QueueInv, Linked, NEW f \in Files
    PROVE  Fate(f) = "unknown" <=> f \notin submitted
<1>1. Live(f) \/ Listed(f) => f \in submitted
  BY DEF Live, Listed, QueueInv, Argued
<1> QED
  BY <1>1, Fates DEF Linked

LEMMA HandedInNext ==
    ASSUME QueueInv', Linked', NEW f \in Files
    PROVE  Fate(f)' = "unknown" <=> f \notin submitted'
<1>1. Live(f)' \/ Listed(f)' => f \in submitted'
  BY DEF Live, Listed, QueueInv, Argued
<1>2. row'[f] # "none" => f \in submitted'
  BY DEF Linked
<1> QED
  BY <1>1, <1>2, FatesNext

\* Neither its fate nor its row in the table has changed.
LEMMA SameStage ==
    ASSUME NEW f \in Files, Fate(f)' = Fate(f), files'[f] = files[f]
    PROVE  Stage(f)' = Stage(f)
BY DEF Stage, Stored

\* The scanner's own steps store a file, fail, or are not noticed.
LEMMA ScanningTakes ==
    ASSUME PipelineInv, PipelineInv', [PipelineNext]_pipelineVars, UNCHANGED vars
    PROVE  [Take!Next]_(Take!vars)
<1> DEFINE stages == [f \in Files |-> Stage(f)]
<1>1. /\ QueueInv /\ S!TypeOK /\ S!StepInformed /\ Linked /\ Linked'
      /\ pc = "enqueue" => sha \in Files /\ files[sha] # None /\ sha \notin scanned
  BY DEF PipelineInv, S!IInv, S!OneJobPerFile, S!Unmatched
<1>2. /\ \A f \in Files : Fate(f)' = Fate(f)
      /\ Clearing' = Clearing
      /\ submitted' = submitted /\ scanned' = scanned
  <2>1. \A j \in Jobs : Same(j)
    BY DEF vars, Same, LiveJob, Held, Done
  <2> QED
    BY <2>1, Nowhere DEF vars, Clearing
<1>3. CASE /\ pc # "enqueue" /\ pc' = "enqueue"
           /\ sha' \in Files /\ files[sha'] = None /\ files'[sha'] # None
           /\ \A c \in Files \ {sha'} : files'[c] = files[c]
           /\ UNCHANGED scanFaults
  <2>1. PICK f \in Files : f = sha'
    BY <1>3
  <2>2. InHand = Null /\ InHand' = f
    BY <1>3, <2>1 DEF InHand
  <2>3. f \notin submitted
    BY <1>1, <1>3, <2>1 DEF Linked, Stored
  <2>4. Fate(f) = "unknown" /\ Fate(f)' = "unknown"
    BY <1>1, <1>2, <2>3, HandedIn
  <2>5. Stage(f) = "absent" /\ Stage(f)' = "new"
    BY <1>3, <2>1, <2>4 DEF Stage, Stored
  <2>6. \A g \in Files \ {f} : Stage(g)' = Stage(g)
    BY <1>2, <1>3, <2>1, SameStage
  <2>7. stages' = [stages EXCEPT ![f] = "new"]
    BY <2>5, <2>6
  <2>8. Take!Store(f)
    BY <1>2, <1>3, <2>2, <2>5, <2>7 DEF Take!Store
  <2> QED
    BY <2>8 DEF Take!Next
<1>4. ASSUME files' = files PROVE stages' = stages
  <2>1. \A g \in Files : Stage(g)' = Stage(g)
    BY <1>2, <1>4, SameStage
  <2> QED
    BY <2>1
<1>5. CASE S!Enqueue
  BY <1>1, <1>2, <1>5 DEF S!Enqueue
<1>6. CASE /\ UNCHANGED files /\ scanFaults' = scanFaults + 1
           /\ pc' = "enqueue" => pc = "enqueue" /\ sha' = sha
  <2>1. InHand' \in {InHand, Null}
    BY <1>6 DEF InHand
  <2>2. Take!Stumble
    BY <1>2, <1>4, <1>6, <2>1 DEF Take!Stumble
  <2> QED
    BY <2>2 DEF Take!Next
<1>7. CASE /\ UNCHANGED <<files, scanFaults>>
           /\ pc' = "enqueue" <=> pc = "enqueue"
           /\ pc = "enqueue" => sha' = sha
  <2>1. InHand' = InHand
    BY <1>7 DEF InHand
  <2> QED
    BY <1>2, <1>4, <1>7, <2>1 DEF Take!vars
<1>8. [S!Next]_(S!vars)
  BY StepScans
<1> QED
  BY <1>1, <1>3, <1>5, <1>6, <1>7, <1>8, PipelineAssumption, S!Outline

\* The scanner's call takes the file out of its hand.
LEMMA HandInTakes ==
    ASSUME PipelineInv, PipelineInv', HandIn
    PROVE  Take!HandIn
<1> DEFINE stages == [f \in Files |-> Stage(f)]
<1>1. /\ pc = "enqueue" /\ pc' # "enqueue" /\ UNCHANGED <<files, scanFaults>>
      /\ QueueInv /\ QueueInv' /\ Linked'
      /\ sha \in Files
  BY DEF PipelineInv, S!IInv, S!OneJobPerFile, S!Unmatched, HandIn, Scan!Enqueue, Scan!NextFile,
         Scan!bounds
<1>2. PICK f \in Files : f = sha
  BY <1>1
<1>3. /\ Put(f, "queued") /\ submitted' = submitted \union {f}
      /\ UNCHANGED <<row, worker, admin>>
  BY <1>2 DEF HandIn, EnqueueMatchFile
<1>4. InHand = f /\ InHand' = Null /\ f # Null /\ Clearing' = Clearing
  BY <1>1, <1>2, <1>3, MatchQueueAssumption DEF InHand, Clearing
<1>5. Live(f)' /\ \A g \in Files \ {f} : Fate(g)' = Fate(g)
  BY <1>1, <1>3, WorkersKept, PutFates
<1>6. \A g \in Files \ {f} : Stage(g)' = Stage(g)
  BY <1>1, <1>5, SameStage
<1>7. Stage(f)' = IF Stage(f) = "judged" THEN "judged" ELSE "pending"
  <2>1. CASE row[f] # "none"
    <3>1. Fate(f) = "judged" /\ Fate(f)' = "judged"
      BY <1>3, <2>1, Fates, FatesNext
    <3> QED
      BY <3>1 DEF Stage
  <2>2. CASE row[f] = "none"
    <3>1. Fate(f) # "judged" /\ Fate(f)' = "pending"
      BY <1>3, <1>5, <2>2, Fates, FatesNext
    <3> QED
      BY <3>1 DEF Stage
  <2> QED
    BY <2>1, <2>2
<1>8. stages' = [stages EXCEPT ![f] = IF @ = "judged" THEN "judged" ELSE "pending"]
  BY <1>6, <1>7
<1> QED
  BY <1>1, <1>4, <1>8 DEF Take!HandIn

\* A pass, a worker or an admin does to a stored file what AtLeastOnce allows.
LEMMA QueueingTakes ==
    ASSUME PipelineInv, PipelineInv', [PipelineNext]_pipelineVars, UNCHANGED scanVars
    PROVE  [Take!Next]_(Take!vars)
<1> DEFINE stages == [f \in Files |-> Stage(f)]
           fates == [f \in Files |-> Fate(f)]
<1>1. QueueInv /\ QueueInv' /\ S!IInv /\ Linked /\ Linked'
  BY DEF PipelineInv
<1>2. UNCHANGED <<files, pc, sha, scanFaults>> /\ InHand' = InHand
  BY DEF scanVars, InHand
<1>3. ASSUME NEW f \in Files, NEW to, fates' = [fates EXCEPT ![f] = to], to # "unknown"
      PROVE  /\ stages' = [stages EXCEPT ![f] = to]
             /\ Fate(f) # "unknown" => Stage(f) = Fate(f)
             /\ Fate(f) = "unknown" => Stage(f) = "new"
  <2>1. /\ \A g \in Files \ {f} : fates'[g] = fates[g]
        /\ fates'[f] = to
    BY <1>3
  <2>2. Fate(f)' = to /\ \A g \in Files \ {f} : Fate(g)' = Fate(g)
    BY <2>1
  <2>3. Stage(f)' = to
    BY <1>3, <2>2 DEF Stage
  <2>4. \A g \in Files \ {f} : Stage(g)' = Stage(g)
    BY <1>2, <2>2, SameStage
  <2>5. f \in Stored
    BY <1>1, <1>2, <1>3, <2>2, HandedInNext DEF Linked, Stored
  <2> QED
    BY <2>3, <2>4, <2>5 DEF Stage
<1>4. [Abstract!Next]_(Abstract!vars)
  BY <1>1, StepQueues, NextKeeps DEF Keeps
<1>5. ASSUME NEW f \in Files, Abstract!Submit(f) PROVE Take!Submit(f)
  <2>1. fates' = [fates EXCEPT ![f] = "pending"] /\ Clearing' = Clearing
    BY <1>5 DEF Abstract!Submit
  <2>2. Fate(f) \in {"unknown", "listed", "dropped"}
    BY <1>5 DEF Abstract!Submit
  <2>3. /\ stages' = [stages EXCEPT ![f] = "pending"]
        /\ Stage(f) \in {"new", "listed", "dropped"}
    BY <1>3, <2>1, <2>2
  <2> QED
    BY <1>2, <2>1, <2>3 DEF Take!Submit
<1>6. ASSUME NEW f \in Files, Abstract!Judge(f) PROVE Take!Judge(f)
  <2>1. /\ fates' = [fates EXCEPT ![f] = "judged"] /\ Clearing' = Clearing
        /\ Fate(f) = "pending"
    BY <1>6 DEF Abstract!Judge
  <2>2. stages' = [stages EXCEPT ![f] = "judged"] /\ Stage(f) = "pending"
    BY <1>3, <2>1
  <2> QED
    BY <1>2, <2>1, <2>2 DEF Take!Judge
<1>7. ASSUME NEW f \in Files, Abstract!GiveUp(f) PROVE Take!GiveUp(f)
  <2>1. /\ fates' = [fates EXCEPT ![f] = "listed"] /\ Clearing' = Clearing
        /\ Fate(f) = "pending"
    BY <1>7 DEF Abstract!GiveUp
  <2>2. stages' = [stages EXCEPT ![f] = "listed"] /\ Stage(f) = "pending"
    BY <1>3, <2>1
  <2> QED
    BY <1>2, <2>1, <2>2 DEF Take!GiveUp
<1>8. ASSUME NEW f \in Files, Abstract!Drop(f) PROVE Take!Drop(f)
  <2>1. /\ fates' = [fates EXCEPT ![f] = "dropped"] /\ Clearing' = Clearing
        /\ Fate(f) \in {"pending", "listed"} /\ Clearing
    BY <1>8 DEF Abstract!Drop
  <2>2. stages' = [stages EXCEPT ![f] = "dropped"] /\ Stage(f) \in {"pending", "listed"}
    BY <1>3, <2>1
  <2> QED
    BY <1>2, <2>1, <2>2 DEF Take!Drop
<1>9. ASSUME fates' = fates PROVE stages' = stages
  <2>1. \A g \in Files : fates'[g] = fates[g]
    BY <1>9
  <2>2. \A g \in Files : Stage(g)' = Stage(g)
    BY <1>2, <2>1, SameStage
  <2> QED
    BY <2>2
<1>10. CASE Abstract!Clear
  <2>1. fates' = fates /\ Clearing' = ~Clearing
    BY <1>10 DEF Abstract!Clear
  <2>2. Take!Clear
    BY <1>2, <1>9, <2>1 DEF Take!Clear
  <2> QED
    BY <2>2 DEF Take!Next
<1>11. CASE UNCHANGED Abstract!vars
  <2>1. fates' = fates /\ Clearing' = Clearing
    BY <1>11 DEF Abstract!vars
  <2> QED
    BY <1>2, <1>9, <2>1 DEF Take!vars
<1> QED
  BY <1>4, <1>5, <1>6, <1>7, <1>8, <1>10, <1>11 DEF Abstract!Next, Take!Next

\* Whatever scans, passes, workers and admins do at the same time, each file goes the
\* way Intake lays down, and only a killed scan leaves one that is not handed in.
THEOREM StoredFilesHandedIn == PipelineSpec => StoredIsHandedIn
<1>1. PipelineInit => Take!Init
  <2> SUFFICES ASSUME PipelineInit PROVE Take!Init
    OBVIOUS
  <2>1. Init /\ Scan!Init
    BY DEF PipelineInit
  <2>2. ASSUME NEW f \in Files PROVE Stage(f) = "absent"
    <3>1. Abstract!Init
      BY <2>1, InitKeeps
    <3>2. [g \in Files |-> Fate(g)][f] = "unknown"
      BY <3>1 DEF Abstract!Init
    <3>3. files[f] = None
      BY <2>1 DEF Scan!Init
    <3> QED
      BY <3>2, <3>3 DEF Stage, Stored
  <2>3. InHand = Null /\ scanFaults = 0
    BY <2>1 DEF Scan!Init, InHand
  <2>4. Clearing = FALSE
    BY <2>1, InitKeeps DEF Abstract!Init
  <2> QED
    BY <2>2, <2>3, <2>4 DEF Take!Init
<1>2. PipelineInv /\ PipelineInv' /\ [PipelineNext]_pipelineVars => [Take!Next]_(Take!vars)
  <2> SUFFICES ASSUME PipelineInv, PipelineInv', [PipelineNext]_pipelineVars
               PROVE  [Take!Next]_(Take!vars)
    OBVIOUS
  <2>1. CASE HandIn
    BY <2>1, HandInTakes DEF Take!Next
  <2>2. CASE Scanning \/ UNCHANGED pipelineVars
    BY <2>2, ScanningTakes DEF Scanning, pipelineVars
  <2>3. CASE MatchAll \/ Queueing
    BY <2>3, QueueingTakes DEF MatchAll, Queueing
  <2> QED
    BY <2>1, <2>2, <2>3 DEF PipelineNext
<1> QED
  BY <1>1, <1>2, PipelineInvariance, PTL DEF PipelineSpec, StoredIsHandedIn, Take!Spec

\* No job outruns the commit of its file, whoever enqueued it.
THEOREM NoJobWithoutFile == PipelineSpec => []JobsHaveFiles
<1>1. PipelineInv => JobsHaveFiles
  BY DEF PipelineInv, QueueInv, Argued, Linked, JobsHaveFiles
<1> QED
  BY <1>1, PipelineInvariance, PTL

\* Of what was stored, no more files are lost to the queue than scans failed.
THEOREM LostToFaults == PipelineSpec => []FewLost
<1>1. PipelineInv => FewLost
  <2> SUFFICES ASSUME PipelineInv PROVE FewLost
    OBVIOUS
  <2> DEFINE lost == {f \in Files : Lost(f)}
             hand == IF pc = "enqueue" THEN {sha} ELSE {}
  <2>1. /\ S!OneJobPerFile /\ IsFiniteSet(S!Unmatched) /\ S!TypeOK /\ Linked
    BY DEF PipelineInv, S!IInv, S!IsFiniteSet, IsFiniteSet
  <2>2. hand \subseteq S!Unmatched
    BY <2>1 DEF S!OneJobPerFile
  <2>3. lost \subseteq S!Unmatched \ hand
    BY <2>1 DEF Lost, Stored, S!Unmatched, Linked, InHand
  <2>4. IsFiniteSet(S!Unmatched \ hand)
    BY <2>1, FS_Difference
  <2>5. Cardinality(lost) <= Cardinality(S!Unmatched \ hand)
    BY <2>3, <2>4, FS_Subset
  <2>6. Cardinality(S!Unmatched \ hand)
            = Cardinality(S!Unmatched) - (IF pc = "enqueue" THEN 1 ELSE 0)
    <3>1. CASE pc = "enqueue"
      <4>1. sha \in S!Unmatched /\ hand = {sha}
        BY <2>2, <3>1
      <4> QED
        BY <2>1, <3>1, <4>1, FS_RemoveElement
    <3>2. CASE pc # "enqueue"
      <4>1. S!Unmatched \ hand = S!Unmatched
        BY <3>2
      <4>2. Cardinality(S!Unmatched) \in Nat
        BY <2>1, FS_CardinalityType
      <4> QED
        BY <3>2, <4>1, <4>2
    <3> QED
      BY <3>1, <3>2
  <2>7. Cardinality(S!Unmatched) <= scanFaults + (IF pc = "enqueue" THEN 1 ELSE 0)
    BY <2>1 DEF S!OneJobPerFile, S!Cardinality, Cardinality
  <2>8. /\ Cardinality(lost) \in Nat /\ Cardinality(S!Unmatched) \in Nat
        /\ scanFaults \in Nat
    <3>1. IsFiniteSet(lost)
      BY <2>3, <2>4, FS_Subset
    <3> QED
      BY <2>1, <3>1, FS_CardinalityType, PipelineAssumption DEF S!TypeOK
  <2>9. FewLost <=> Cardinality(lost) <= scanFaults
    BY DEF FewLost
  <2> QED
    BY <2>5, <2>6, <2>7, <2>8, <2>9
<1> QED
  BY <1>1, PipelineInvariance, PTL

\* A whole scan of a quiet library hands in all it can read: what a file of it is still
\* without a fate for is a scan that failed.
THEOREM ScannedFilesHandedIn == PipelineSpec => []ScannedIsHandedIn
<1>1. PipelineInv /\ S!ScanFaithful /\ FewLost => ScannedIsHandedIn
  <2> SUFFICES ASSUME PipelineInv, S!ScanFaithful, FewLost, pc = "done", touched = {},
                      NEW p \in S!Under(walked) \ failed, S!Readable(p)
               PROVE  /\ S!Current(p)
                      /\ \/ Fate(loc[p].file) # "unknown"
                         \/ Lost(loc[p].file) /\ scanFaults > 0
    BY DEF ScannedIsHandedIn, Scan!Under, S!Under, Scan!Readable, S!Readable, Scan!OnDisk,
           S!OnDisk, Scan!Current, S!Current
  <2>1. /\ QueueInv /\ Linked /\ S!TypeOK /\ S!LocationsHaveFiles
        /\ IsFiniteSet(S!Unmatched)
    BY DEF PipelineInv, S!IInv, S!IsFiniteSet, IsFiniteSet
  <2>2. p \in Paths /\ S!Current(p)
    BY DEF S!ScanFaithful, S!Faithful, S!Under
  <2>3. PICK f \in Files : f = loc[p].file /\ f \in Stored
    BY <2>1, <2>2 DEF S!Current, S!TypeOK, S!LocationsHaveFiles, Stored
  <2>4. CASE f \in submitted
    BY <2>1, <2>2, <2>3, <2>4, HandedIn
  <2>5. CASE f \notin submitted
    <3> DEFINE lost == {g \in Files : Lost(g)}
    <3>1. f \in lost
      BY <2>3, <2>5, MatchQueueAssumption DEF Lost, InHand
    <3>2. lost \subseteq S!Unmatched
      BY <2>1 DEF Lost, Stored, S!Unmatched, Linked
    <3>3. IsFiniteSet(lost)
      BY <2>1, <3>2, FS_Subset
    <3>4. Cardinality(lost) # 0 /\ Cardinality(lost) \in Nat
      BY <3>1, <3>3, FS_EmptySet, FS_CardinalityType
    <3>5. scanFaults > 0
      BY <2>1, <3>4, PipelineAssumption DEF FewLost, S!TypeOK
    <3> QED
      BY <2>2, <2>3, <3>1, <3>5
  <2> QED
    BY <2>4, <2>5
<1>2. PipelineSpec => S!Spec
  <2>1. PipelineInit => S!Init
    BY SameScanner DEF PipelineInit
  <2>2. [PipelineNext]_pipelineVars => [S!Next]_(S!vars)
    BY StepScans
  <2> QED
    BY <2>1, <2>2, PTL DEF PipelineSpec, S!Spec
<1>3. S!Spec => [](S!ScanFaithful)
  BY PipelineAssumption, S!WholeScanFaithful
<1> QED
  BY <1>1, <1>2, <1>3, PipelineInvariance, LostToFaults, PTL

====
