----------------------------- MODULE PagesProofs ------------------------------
(***************************************************************************)
(* What the runs say of the pages and of the refreshes they ask for, for any   *)
(* number of callers, lanes, volumes, rows and polls.                          *)
(***************************************************************************)
EXTENDS Revalidate, Hydration, VolumePage, Listing, FiniteOrders, SequenceTheorems, TLAPS

(* ---- refreshes: what a step touches ---- *)

CallPcs == {"idle", "fetch", "status", "delete", "put"}
RunnerPcs == {"idle", "run", "put", "mark", "done"}
Copies(q) == retry[q].waiting + retry[q].queued

LEMMA PartsTyped ==
    ASSUME RevalidateTypes
    PROVE  /\ \A c \in Callers : call[c] \in CallStates
           /\ \A q \in Lanes : runner[q] \in RunnerStates
           /\ \A q \in Lanes : retry[q] \in [waiting : Nat, queued : Nat]
           /\ \A q \in Lanes : lane[q] \in Nat /\ Copies(q) \in Nat
<1>1. \A q \in Lanes : retry[q] \in [waiting : Nat, queued : Nat]
  BY DEF RevalidateTypes
<1> QED
  BY <1>1 DEF RevalidateTypes, Copies

LEMMA CallGoes ==
    ASSUME RevalidateTypes, NEW c \in Callers, NEW s \in CallStates,
           call' = [call EXCEPT ![c] = s]
    PROVE  /\ call' \in [Callers -> CallStates]
           /\ call'[c] = s
           /\ \A d \in Callers \ {c} : call'[d] = call[d]
BY DEF RevalidateTypes

LEMMA CallSteps ==
    ASSUME RevalidateTypes, NEW c \in Callers, NEW pc \in CallPcs, Step(c, pc)
    PROVE  /\ call' \in [Callers -> CallStates]
           /\ call'[c].pc = pc
           /\ call'[c].from = call[c].from
           /\ \A d \in Callers \ {c} : call'[d] = call[d]
<1>1. call[c] \in CallStates
  BY PartsTyped
<1>2. [call[c] EXCEPT !.pc = pc] \in CallStates
  BY <1>1 DEF CallStates, CallPcs
<1>3. call' = [call EXCEPT ![c] = [call[c] EXCEPT !.pc = pc]]
  BY DEF Step
<1> QED
  BY <1>1, <1>2, <1>3, CallGoes DEF CallStates

LEMMA RunnerGoes ==
    ASSUME RevalidateTypes, NEW q \in Lanes, NEW s \in RunnerStates,
           runner' = [runner EXCEPT ![q] = s]
    PROVE  /\ runner' \in [Lanes -> RunnerStates]
           /\ runner'[q] = s
           /\ \A p \in Lanes \ {q} : runner'[p] = runner[p]
BY DEF RevalidateTypes

LEMMA RunnerSteps ==
    ASSUME RevalidateTypes, NEW q \in Lanes, NEW pc \in RunnerPcs, Runs(q, pc)
    PROVE  /\ runner' \in [Lanes -> RunnerStates]
           /\ runner'[q].pc = pc
           /\ runner'[q].what = runner[q].what
           /\ \A p \in Lanes \ {q} : runner'[p] = runner[p]
<1>1. runner[q] \in RunnerStates
  BY PartsTyped
<1>2. [runner[q] EXCEPT !.pc = pc] \in RunnerStates
  BY <1>1 DEF RunnerStates, RunnerPcs
<1>3. runner' = [runner EXCEPT ![q] = [runner[q] EXCEPT !.pc = pc]]
  BY DEF Runs
<1> QED
  BY <1>1, <1>2, <1>3, RunnerGoes DEF RunnerStates

\* A copy is put off (by 1), becomes due (0) or is taken (-1).
LEMMA RetryGoes ==
    ASSUME RevalidateTypes, NEW q \in Lanes, NEW s \in [waiting : Nat, queued : Nat],
           retry' = [retry EXCEPT ![q] = s]
    PROVE  /\ retry' \in [Lanes -> [waiting : Nat, queued : Nat]]
           /\ Copies(q)' = s.waiting + s.queued
           /\ \A p \in Lanes \ {q} : Copies(p)' = Copies(p)
BY DEF RevalidateTypes, Copies

LEMMA RetryMoves ==
    ASSUME RevalidateTypes, NEW q \in Lanes
    PROVE  /\ PutCopy(q) => /\ retry' \in [Lanes -> [waiting : Nat, queued : Nat]]
                            /\ Copies(q)' = Copies(q) + 1
                            /\ \A p \in Lanes \ {q} : Copies(p)' = Copies(p)
           /\ Fire(q) => /\ retry' \in [Lanes -> [waiting : Nat, queued : Nat]]
                         /\ \A p \in Lanes : Copies(p)' = Copies(p)
           /\ TakeCopy(q) => /\ retry' \in [Lanes -> [waiting : Nat, queued : Nat]]
                             /\ Copies(q) > 0 /\ Copies(q)' = Copies(q) - 1
                             /\ \A p \in Lanes \ {q} : Copies(p)' = Copies(p)
<1>1. retry[q] \in [waiting : Nat, queued : Nat]
  BY PartsTyped
<1>2. ASSUME PutCopy(q)
      PROVE  /\ retry' \in [Lanes -> [waiting : Nat, queued : Nat]]
             /\ Copies(q)' = Copies(q) + 1
             /\ \A p \in Lanes \ {q} : Copies(p)' = Copies(p)
  <2> DEFINE s == [retry[q] EXCEPT !.waiting = retry[q].waiting + 1]
  <2>1. /\ s \in [waiting : Nat, queued : Nat]
        /\ s.waiting = retry[q].waiting + 1 /\ s.queued = retry[q].queued
    BY <1>1
  <2>2. retry' = [retry EXCEPT ![q] = s]
    BY <1>2 DEF PutCopy
  <2> HIDE DEF s
  <2>3. /\ retry' \in [Lanes -> [waiting : Nat, queued : Nat]]
        /\ Copies(q)' = s.waiting + s.queued
        /\ \A p \in Lanes \ {q} : Copies(p)' = Copies(p)
    BY <2>1, <2>2, RetryGoes
  <2> QED
    BY <1>1, <2>1, <2>3 DEF Copies
<1>3. ASSUME Fire(q)
      PROVE  /\ retry' \in [Lanes -> [waiting : Nat, queued : Nat]]
             /\ \A p \in Lanes : Copies(p)' = Copies(p)
  <2> DEFINE s == [waiting |-> retry[q].waiting - 1, queued |-> retry[q].queued + 1]
  <2>1. /\ s \in [waiting : Nat, queued : Nat]
        /\ s.waiting = retry[q].waiting - 1 /\ s.queued = retry[q].queued + 1
    BY <1>1, <1>3 DEF Fire
  <2>2. retry' = [retry EXCEPT ![q] = s]
    BY <1>3 DEF Fire
  <2> HIDE DEF s
  <2>3. /\ retry' \in [Lanes -> [waiting : Nat, queued : Nat]]
        /\ Copies(q)' = s.waiting + s.queued
        /\ \A p \in Lanes \ {q} : Copies(p)' = Copies(p)
    BY <2>1, <2>2, RetryGoes
  <2> QED
    BY <1>1, <2>1, <2>3 DEF Copies
<1>4. ASSUME TakeCopy(q)
      PROVE  /\ retry' \in [Lanes -> [waiting : Nat, queued : Nat]]
             /\ Copies(q) > 0 /\ Copies(q)' = Copies(q) - 1
             /\ \A p \in Lanes \ {q} : Copies(p)' = Copies(p)
  <2> DEFINE s == [retry[q] EXCEPT !.queued = retry[q].queued - 1]
  <2>1. /\ s \in [waiting : Nat, queued : Nat] /\ retry[q].queued > 0
        /\ s.waiting = retry[q].waiting /\ s.queued = retry[q].queued - 1
    BY <1>1, <1>4 DEF TakeCopy
  <2>2. retry' = [retry EXCEPT ![q] = s]
    BY <1>4 DEF TakeCopy
  <2> HIDE DEF s
  <2>3. /\ retry' \in [Lanes -> [waiting : Nat, queued : Nat]]
        /\ Copies(q)' = s.waiting + s.queued
        /\ \A p \in Lanes \ {q} : Copies(p)' = Copies(p)
    BY <2>1, <2>2, RetryGoes
  <2> QED
    BY <1>1, <2>1, <2>3 DEF Copies
<1> QED
  BY <1>2, <1>3, <1>4

(* ---- refreshes: types ---- *)

\* Every step of a refresh keeps the types: no lane and no delayed copy is counted
\* below zero.
LEMMA RevalidateTypeStep ==
    ASSUME RevalidateTypes, [RevalidateNext]_revalidateVars
    PROVE  RevalidateTypes'
<1> USE RevalidateAssumption
<1>0. /\ lane \in [Lanes -> Nat] /\ hash \in Statuses /\ origin \in Lanes
      /\ asks \in 0..MaxAsks /\ cooldowns \in 0..MaxCooldowns /\ cuts \in 0..MaxCuts
      /\ \A c \in Callers : call[c] \in CallStates
      /\ \A c \in Callers : call[c].from \in Lanes
  BY PartsTyped DEF RevalidateTypes, CallStates
<1>1. CASE UNCHANGED revalidateVars
  BY <1>1 DEF revalidateVars, queueVars, RevalidateTypes
<1>2. ASSUME NEW c \in Callers, NEW q \in Lanes, NEW front \in BOOLEAN, CheckMarker(c, q, front)
      PROVE  RevalidateTypes'
  <2>1. [call[c] EXCEPT !.pc = "fetch", !.on = q, !.front = front] \in CallStates
    BY <1>0 DEF CallStates
  <2>2. call' \in [Callers -> CallStates]
    BY <1>2, <2>1, CallGoes DEF CheckMarker, RevalidateTypes
  <2> QED
    BY <1>2, <1>0, <2>2 DEF CheckMarker, queueVars, RevalidateTypes, CopyWaits
<1>3. ASSUME NEW c \in Callers, FetchJob(c) PROVE RevalidateTypes'
  <2> DEFINE pc == IF hash = "none" THEN "put" ELSE "status"
  <2>1. [call[c] EXCEPT !.pc = pc, !.from = origin] \in CallStates
    BY <1>0 DEF CallStates
  <2>2. call' \in [Callers -> CallStates]
    BY <1>3, <2>1, CallGoes DEF FetchJob
  <2> QED
    BY <1>3, <2>2 DEF FetchJob, queueVars, RevalidateTypes
<1>4. ASSUME NEW c \in Callers, NEW pc \in CallPcs, Step(c, pc),
             ReadStatus(c) \/ CutShort(c)
      PROVE  RevalidateTypes'
  <2>1. call' \in [Callers -> CallStates]
    BY <1>4, CallSteps
  <2>2. wanted' \in BOOLEAN /\ hurt' \in BOOLEAN
    BY <1>4, Zenon DEF ReadStatus, CutShort, RevalidateTypes
  <2>3. cuts' \in 0..MaxCuts
    BY <1>4, <1>0 DEF ReadStatus, CutShort
  <2> QED
    BY <1>4, <2>1, <2>2, <2>3, Zenon DEF ReadStatus, CutShort, queueVars, RevalidateTypes
<1>5. ASSUME NEW c \in Callers, NEW pc \in CallPcs, Step(c, pc),
             DeleteExisting(c) \/ EnqueueRefresh(c)
      PROVE  RevalidateTypes'
  <2>1. /\ call' \in [Callers -> CallStates]
        /\ Others(c) \subseteq Callers
        /\ call[c].on \in Lanes
        /\ \A n \in Nat : LessOne(n) \in Nat
    BY <1>5, <1>0, CallSteps DEF CallStates, LessOne, Others
  <2>2. wanted' \in BOOLEAN /\ doubled' \in BOOLEAN
    BY <1>5, Zenon DEF DeleteExisting, EnqueueRefresh, RevalidateTypes
  <2>3. lane' \in [Lanes -> Nat] /\ hash' \in Statuses /\ origin' \in Lanes
    BY <1>5, <1>0, <2>1 DEF DeleteExisting, EnqueueRefresh, Statuses
  <2> QED
    BY <1>5, <2>1, <2>2, <2>3 DEF DeleteExisting, EnqueueRefresh, RevalidateTypes
<1>6. ASSUME NEW q \in Lanes, Take(q) PROVE RevalidateTypes'
  <2>1. [what |-> "refresh", pc |-> "run"] \in RunnerStates
    BY DEF RunnerStates
  <2>2. runner' \in [Lanes -> RunnerStates]
    BY <1>6, <2>1, RunnerGoes DEF Take, RevalidateTypes
  <2>3. lane' \in [Lanes -> Nat] /\ hash' \in Statuses /\ behind' \subseteq Callers
    BY <1>6, <1>0 DEF Take, Overtaken, Statuses, RevalidateTypes
  <2>4. wanted' \in BOOLEAN
    BY <1>6 DEF Take, RevalidateTypes
  <2> QED
    BY <1>6, <2>2, <2>3, <2>4 DEF Take, RevalidateTypes
<1>7. ASSUME NEW q \in Lanes, TakeCopy(q) PROVE RevalidateTypes'
  <2>1. [what |-> "copy", pc |-> "run"] \in RunnerStates
    BY DEF RunnerStates
  <2>2. runner' \in [Lanes -> RunnerStates]
    BY <1>7, <2>1, RunnerGoes DEF TakeCopy
  <2>3. retry' \in [Lanes -> [waiting : Nat, queued : Nat]]
    BY <1>7, RetryMoves
  <2> QED
    BY <1>7, <2>2, <2>3 DEF TakeCopy, RevalidateTypes
<1>8. ASSUME NEW q \in Lanes, NEW pc \in RunnerPcs, Runs(q, pc),
             Refresh(q) \/ Limit(q) \/ SetMarker(q) \/ Return(q) \/ Crash(q)
      PROVE  RevalidateTypes'
  <2>1. runner' \in [Lanes -> RunnerStates]
    BY <1>8, RunnerSteps
  <2>2. hash' \in Statuses /\ origin' \in Lanes /\ behind' \subseteq Callers
    BY <1>8, <1>0 DEF Refresh, Limit, SetMarker, Return, Crash, Overtaken, queueVars,
                      RevalidateTypes, Statuses
  <2>3. cooldowns' \in 0..MaxCooldowns /\ cuts' \in 0..MaxCuts
    BY <1>8, <1>0 DEF Refresh, Limit, SetMarker, Return, Crash
  <2>4. wanted' \in BOOLEAN /\ marker' \in BOOLEAN /\ hurt' \in BOOLEAN
    BY <1>8, Zenon DEF Refresh, Limit, SetMarker, Return, Crash, queueVars, RevalidateTypes
  <2> QED
    BY <1>8, <2>1, <2>2, <2>3, <2>4
       DEF Refresh, Limit, SetMarker, Return, Crash, queueVars, RevalidateTypes
<1>9. ASSUME NEW q \in Lanes, PutCopy(q) PROVE RevalidateTypes'
  <2>1. runner' \in [Lanes -> RunnerStates]
    BY <1>9, RunnerSteps DEF PutCopy, RunnerPcs
  <2>2. retry' \in [Lanes -> [waiting : Nat, queued : Nat]]
    BY <1>9, RetryMoves
  <2> QED
    BY <1>9, <2>1, <2>2 DEF PutCopy, RevalidateTypes
<1>10. ASSUME NEW q \in Lanes, Fire(q) PROVE RevalidateTypes'
  <2>1. retry' \in [Lanes -> [waiting : Nat, queued : Nat]]
    BY <1>10, RetryMoves
  <2> QED
    BY <1>10, <2>1 DEF Fire, RevalidateTypes
<1>11. CASE Lapse
  BY <1>11 DEF Lapse, Overtaken, CopyPending, CopyWaits, RevalidateTypes
<1>12. CASE ExpireRecord
  BY <1>12 DEF ExpireRecord, RevalidateTypes, Statuses
<1>13. ASSUME NEW c \in Callers
       PROVE  /\ ReadStatus(c) => \E pc \in CallPcs : Step(c, pc)
              /\ CutShort(c) \/ EnqueueRefresh(c) => Step(c, "idle")
              /\ DeleteExisting(c) => Step(c, "put")
              /\ {"idle", "put"} \subseteq CallPcs
  BY DEF ReadStatus, CutShort, EnqueueRefresh, DeleteExisting, CallPcs
<1>14. ASSUME NEW q \in Lanes
       PROVE  /\ Refresh(q) \/ SetMarker(q) => Runs(q, "done")
              /\ Limit(q) => Runs(q, "put")
              /\ Return(q) \/ Crash(q) => Runs(q, "idle")
              /\ {"idle", "put", "done"} \subseteq RunnerPcs
  BY DEF Refresh, SetMarker, Limit, Return, Crash, RunnerPcs
<1>15. ASSUME NEW c \in Callers,
              ReadStatus(c) \/ DeleteExisting(c) \/ EnqueueRefresh(c) \/ CutShort(c)
       PROVE  RevalidateTypes'
  BY <1>4, <1>5, <1>13, <1>15
<1>16. ASSUME NEW q \in Lanes,
              Refresh(q) \/ Limit(q) \/ SetMarker(q) \/ Return(q) \/ Crash(q)
       PROVE  RevalidateTypes'
  BY <1>8, <1>14, <1>16
<1> QED
  BY <1>1, <1>2, <1>3, <1>6, <1>7, <1>9, <1>10, <1>11, <1>12, <1>15, <1>16
     DEF RevalidateNext

LEMMA RevalidateStarts ==
    ASSUME RevalidateInit
    PROVE  RevalidateTypes
<1>1. /\ hash \in Statuses /\ origin \in Lanes
      /\ lane \in [Lanes -> Nat] /\ retry \in [Lanes -> [waiting : Nat, queued : Nat]]
  BY DEF RevalidateInit, Statuses
<1>2. runner \in [Lanes -> RunnerStates]
  BY DEF RevalidateInit, RunnerStates
<1>3. call \in [Callers -> CallStates]
  <2>1. [pc |-> "idle", on |-> origin, front |-> FALSE, from |-> origin] \in CallStates
    BY <1>1 DEF CallStates
  <2> QED
    BY <2>1 DEF RevalidateInit
<1>4. asks \in 0..MaxAsks /\ cooldowns \in 0..MaxCooldowns /\ cuts \in 0..MaxCuts
  BY RevalidateAssumption DEF RevalidateInit
<1>5. /\ marker \in BOOLEAN /\ wanted \in BOOLEAN /\ behind \subseteq Callers
      /\ doubled \in BOOLEAN /\ lapsed \in BOOLEAN /\ hurt \in BOOLEAN
  BY Zenon DEF RevalidateInit
<1> QED
  BY <1>1, <1>2, <1>3, <1>4, <1>5 DEF RevalidateTypes

\* Whatever callers, workers and clocks do, the state is one the code can be in.
THEOREM RevalidateTyped == RevalidateSpec => []RevalidateTypes
BY RevalidateStarts, RevalidateTypeStep, PTL DEF RevalidateSpec

(* ---- one refresh at a time ---- *)

\* Nothing has happened yet that OneRefresh excuses.
Clean == ~doubled /\ ~lapsed /\ ~hurt

Busy(q) == runner[q].pc # "idle"

\* A queued record stands for one place on its lane, and for nothing else.
LanesHoldOne ==
    /\ hash = "queued" =>
          /\ lane[origin] = 1 /\ \A q \in Lanes \ {origin} : lane[q] = 0
          /\ \A q \in Lanes : ~Busy(q) /\ Copies(q) = 0
    /\ hash # "queued" => \A q \in Lanes : lane[q] = 0

\* A worker that refreshes is alone, but for a copy it has put off itself; the record
\* of the id, or the marker, tells of it.
RunnersAlone ==
    \A q \in Lanes : Busy(q) =>
        /\ \A p \in Lanes \ {q} : ~Busy(p) /\ Copies(p) = 0
        /\ runner[q].pc \in {"run", "put"} => Copies(q) = 0
        /\ runner[q].what = "refresh" => hash = "started"
        /\ runner[q].what # "refresh" => marker

\* There is one copy, and it is marked or its worker is about to mark it.
CopiesMarked ==
    \A q \in Lanes : Copies(q) > 0 =>
        /\ Copies(q) = 1 /\ \A p \in Lanes \ {q} : Copies(p) = 0
        /\ marker \/ (runner[q].what = "refresh" /\ runner[q].pc = "mark")

\* What a caller has read is still so unless it was overtaken.
CallersKnow ==
    \A c \in Callers : (call[c].pc # "idle" /\ c \notin behind) =>
        /\ ~marker
        /\ call[c].pc \in {"status", "delete"} => call[c].from = origin
        /\ call[c].pc = "delete" => hash # "started"
        /\ call[c].pc = "put" => hash = "none"

OneAtATime == LanesHoldOne /\ RunnersAlone /\ CopiesMarked /\ CallersKnow

LEMMA CleanBefore ==
    ASSUME RevalidateTypes, [RevalidateNext]_revalidateVars, Clean'
    PROVE  Clean
<1> USE DEF Clean
<1>1. CASE UNCHANGED revalidateVars
  BY <1>1 DEF revalidateVars
<1>2. ASSUME NEW c \in Callers, NEW q \in Lanes, NEW front \in BOOLEAN, CheckMarker(c, q, front)
      PROVE  Clean
  BY <1>2 DEF CheckMarker
<1>3. ASSUME NEW c \in Callers, FetchJob(c) \/ ReadStatus(c) PROVE Clean
  BY <1>3 DEF FetchJob, ReadStatus
<1>4. ASSUME NEW c \in Callers, DeleteExisting(c) PROVE Clean
  BY <1>4 DEF DeleteExisting
<1>5. ASSUME NEW c \in Callers, EnqueueRefresh(c) PROVE Clean
  BY <1>5 DEF EnqueueRefresh
<1>6. ASSUME NEW c \in Callers, CutShort(c) PROVE Clean
  BY <1>6 DEF CutShort
<1>7. ASSUME NEW q \in Lanes,
             \/ Take(q) \/ TakeCopy(q) \/ Refresh(q) \/ Limit(q) \/ PutCopy(q)
             \/ SetMarker(q) \/ Crash(q) \/ Fire(q)
      PROVE  Clean
  BY <1>7 DEF Take, TakeCopy, Refresh, Limit, PutCopy, SetMarker, Crash, Fire
<1>8. ASSUME NEW q \in Lanes, Return(q) PROVE Clean
  <2>1. doubled' = doubled /\ lapsed' = lapsed /\ (hurt => hurt')
    BY <1>8 DEF Return
  <2> QED
    BY <2>1
<1>9. CASE Lapse
  <2>1. doubled' = doubled /\ (lapsed => lapsed') /\ hurt' = hurt
    BY <1>9 DEF Lapse
  <2> QED
    BY <2>1
<1>10. CASE ExpireRecord
  BY <1>10 DEF ExpireRecord
<1> QED
  BY <1>1, <1>2, <1>3, <1>4, <1>5, <1>6, <1>7, <1>8, <1>9, <1>10 DEF RevalidateNext

\* What the parts but the last say depends on the queue and its workers alone.
LEMMA QueueKept ==
    ASSUME LanesHoldOne, RunnersAlone, CopiesMarked, UNCHANGED <<queueVars, runner>>
    PROVE  LanesHoldOne' /\ RunnersAlone' /\ CopiesMarked'
BY DEF LanesHoldOne, RunnersAlone, CopiesMarked, queueVars, Busy, Copies

\* The callers' steps. One that acts was not overtaken, or doubled were set.
LEMMA OneByCaller ==
    ASSUME RevalidateTypes, OneAtATime, Clean', NEW c \in Callers,
           \/ \E q \in Lanes, front \in BOOLEAN : CheckMarker(c, q, front)
           \/ FetchJob(c) \/ ReadStatus(c) \/ DeleteExisting(c) \/ EnqueueRefresh(c)
           \/ CutShort(c)
    PROVE  OneAtATime'
<1> USE DEF OneAtATime
<1>0. /\ \A d \in Callers : call[d] \in CallStates
      /\ \A q \in Lanes : lane[q] \in Nat /\ Copies(q) \in Nat
      /\ origin \in Lanes /\ hash \in Statuses
  BY PartsTyped DEF RevalidateTypes
<1>1. ASSUME NEW q \in Lanes, NEW front \in BOOLEAN, CheckMarker(c, q, front)
      PROVE  OneAtATime'
  <2>1. [call[c] EXCEPT !.pc = "fetch", !.on = q, !.front = front] \in CallStates
    BY <1>0 DEF CallStates
  <2>2. /\ \A d \in Callers \ {c} : call'[d] = call[d]
        /\ call'[c] = call[c] \/ (call'[c].pc = "fetch" /\ ~marker)
    <3>1. CASE marker
      BY <1>1, <3>1, Zenon DEF CheckMarker
    <3>2. CASE ~marker
      <4> DEFINE s == [call[c] EXCEPT !.pc = "fetch", !.on = q, !.front = front]
      <4>1. call' = [call EXCEPT ![c] = s]
        BY <1>1, <3>2 DEF CheckMarker
      <4>2. s.pc = "fetch"
        BY <1>0 DEF CallStates
      <4> QED
        BY <2>1, <3>2, <4>1, <4>2, CallGoes
    <3> QED
      BY <3>1, <3>2
  <2>3. CallersKnow'
    BY <1>1, <2>2 DEF CheckMarker, CallersKnow, queueVars
  <2> QED
    BY <1>1, <2>3, QueueKept DEF CheckMarker
<1>2. CASE FetchJob(c)
  <2> DEFINE pc == IF hash = "none" THEN "put" ELSE "status"
  <2>1. [call[c] EXCEPT !.pc = pc, !.from = origin] \in CallStates
    BY <1>0 DEF CallStates
  <2>2. /\ \A d \in Callers \ {c} : call'[d] = call[d]
        /\ call[c].pc = "fetch" /\ call'[c].pc = pc /\ call'[c].from = origin
    BY <1>2, <1>0, <2>1, CallGoes DEF FetchJob, CallStates
  <2>3. CallersKnow'
    BY <1>2, <2>2 DEF FetchJob, CallersKnow, queueVars
  <2> QED
    BY <1>2, <2>3, QueueKept DEF FetchJob
<1>3. CASE ReadStatus(c)
  <2> DEFINE leave == hash = "started" \/ (hash = "queued" /\ ~call[c].front)
  <2>1. Step(c, IF leave THEN "idle" ELSE "delete")
    BY <1>3 DEF ReadStatus
  <2>2. /\ \A d \in Callers \ {c} : call'[d] = call[d]
        /\ call[c].pc = "status" /\ call'[c].from = call[c].from
        /\ call'[c].pc = "idle" \/ (call'[c].pc = "delete" /\ hash # "started")
    BY <1>3, <2>1, CallSteps DEF ReadStatus, CallPcs
  <2>3. CallersKnow'
    BY <1>3, <2>2 DEF ReadStatus, CallersKnow, queueVars
  <2> QED
    BY <1>3, <2>3, QueueKept DEF ReadStatus
<1>4. CASE DeleteExisting(c)
  <2>1. /\ \A d \in Callers \ {c} : call'[d] = call[d]
        /\ call[c].pc = "delete" /\ call'[c].pc = "put"
    BY <1>4, CallSteps DEF DeleteExisting, CallPcs
  <2>2. c \notin behind
    BY <1>4 DEF DeleteExisting, Clean
  <2>3. hash # "started" /\ call[c].from = origin /\ ~marker
    BY <2>1, <2>2 DEF CallersKnow
  <2>4. \A q \in Lanes : lane'[q] = IF q = origin THEN LessOne(lane[q]) ELSE lane[q]
    BY <1>4, <2>3, <1>0 DEF DeleteExisting, RevalidateTypes
  <2>5. \A q \in Lanes : lane'[q] = 0
    BY <2>4, <1>0 DEF LanesHoldOne, LessOne
  <2>6. /\ LanesHoldOne'
        /\ \A q \in Lanes : Copies(q)' = Copies(q) /\ (Busy(q)' <=> Busy(q))
    BY <1>4, <2>5 DEF DeleteExisting, LanesHoldOne, Copies, Busy
  <2>7. \A q \in Lanes : Busy(q) => runner[q].what # "refresh"
    BY <2>3 DEF RunnersAlone
  <2>8. RunnersAlone' /\ CopiesMarked'
    BY <1>4, <2>6, <2>7 DEF DeleteExisting, RunnersAlone, CopiesMarked
  <2>9. \A d \in Callers \ {c} : call'[d].pc # "idle" => d \in behind'
    BY <1>4, <2>1 DEF DeleteExisting, Others
  <2>10. CallersKnow'
    BY <1>4, <2>1, <2>3, <2>9 DEF DeleteExisting, CallersKnow
  <2> QED
    BY <2>6, <2>8, <2>10
<1>5. CASE EnqueueRefresh(c)
  <2>1. /\ \A d \in Callers \ {c} : call'[d] = call[d]
        /\ call[c].pc = "put" /\ call'[c].pc = "idle"
        /\ call[c].on \in Lanes
    BY <1>5, <1>0, CallSteps DEF EnqueueRefresh, CallPcs, CallStates
  <2>2. c \notin behind
    BY <1>5 DEF EnqueueRefresh, Clean
  <2>3. hash = "none" /\ ~marker
    BY <2>1, <2>2 DEF CallersKnow
  <2>4. /\ hash' = "queued" /\ origin' = call[c].on
        /\ \A q \in Lanes : lane'[q] = IF q = call[c].on THEN lane[q] + 1 ELSE lane[q]
    BY <1>5, <2>1, <1>0 DEF EnqueueRefresh, RevalidateTypes
  <2>5. \A q \in Lanes : lane[q] = 0 /\ ~Busy(q)
    BY <2>3 DEF LanesHoldOne, RunnersAlone
  <2>6. \A q \in Lanes : Copies(q) = 0
    BY <2>3, <2>5, <1>0 DEF CopiesMarked, Busy
  <2>7. \A q \in Lanes : Copies(q)' = 0 /\ ~Busy(q)'
    BY <1>5, <2>5, <2>6 DEF EnqueueRefresh, Copies, Busy
  <2>8. LanesHoldOne' /\ RunnersAlone' /\ CopiesMarked'
    BY <2>1, <2>4, <2>5, <2>7 DEF LanesHoldOne, RunnersAlone, CopiesMarked
  <2>9. \A d \in Callers \ {c} : call'[d].pc # "idle" => d \in behind'
    BY <1>5, <2>1 DEF EnqueueRefresh, Others
  <2>10. CallersKnow'
    BY <2>1, <2>9 DEF CallersKnow
  <2> QED
    BY <2>8, <2>10
<1>6. CASE CutShort(c)
  <2>1. /\ \A d \in Callers \ {c} : call'[d] = call[d]
        /\ call'[c].pc = "idle"
    BY <1>6, CallSteps DEF CutShort, CallPcs
  <2>2. CallersKnow'
    BY <1>6, <2>1 DEF CutShort, CallersKnow, queueVars
  <2> QED
    BY <1>6, <2>2, QueueKept DEF CutShort
<1> QED
  BY <1>1, <1>2, <1>3, <1>4, <1>5, <1>6

\* The workers' steps and the clock's. A worker that changes what callers go by
\* overtakes them all.
LEMMA Outrun ==
    ASSUME Overtaken, UNCHANGED call
    PROVE  CallersKnow'
BY DEF Overtaken, CallersKnow

LEMMA OneByWorker ==
    ASSUME RevalidateTypes, OneAtATime, Clean', NEW q \in Lanes,
           \/ Take(q) \/ TakeCopy(q) \/ Refresh(q) \/ Limit(q) \/ PutCopy(q)
           \/ SetMarker(q) \/ Return(q) \/ Crash(q) \/ Fire(q)
    PROVE  OneAtATime'
<1> USE DEF OneAtATime
<1>0. /\ \A p \in Lanes : runner[p] \in RunnerStates
      /\ \A p \in Lanes : lane[p] \in Nat /\ Copies(p) \in Nat
      /\ origin \in Lanes /\ hash \in Statuses
  BY PartsTyped DEF RevalidateTypes
<1>1. CASE Take(q)
  <2>1. /\ hash = "queued" /\ q = origin /\ lane[q] = 1
        /\ \A p \in Lanes \ {q} : lane[p] = 0
        /\ \A p \in Lanes : ~Busy(p) /\ Copies(p) = 0
    BY <1>1, <1>0 DEF Take, LanesHoldOne
  <2>2. hash' = "started" /\ runner' = [runner EXCEPT ![q] = [what |-> "refresh", pc |-> "run"]]
    BY <1>1, <2>1 DEF Take
  <2>3. [what |-> "refresh", pc |-> "run"] \in RunnerStates
    BY DEF RunnerStates
  <2>4. /\ runner'[q].what = "refresh" /\ runner'[q].pc = "run"
        /\ \A p \in Lanes \ {q} : runner'[p] = runner[p]
    BY <2>2, <2>3, RunnerGoes
  <2>5. \A p \in Lanes : lane'[p] = 0
    BY <1>1, <1>0, <2>1 DEF Take, RevalidateTypes
  <2>6. \A p \in Lanes : Copies(p)' = 0
    BY <1>1, <2>1 DEF Take, Copies
  <2>7. LanesHoldOne' /\ CopiesMarked'
    BY <2>2, <2>5, <2>6 DEF LanesHoldOne, CopiesMarked
  <2>8. RunnersAlone'
    BY <2>1, <2>2, <2>4, <2>6 DEF RunnersAlone, Busy
  <2>9. CallersKnow'
    BY <1>1, Outrun DEF Take
  <2> QED
    BY <2>7, <2>8, <2>9
<1>2. CASE TakeCopy(q)
  <2>1. /\ Copies(q) > 0 /\ Copies(q)' = Copies(q) - 1
        /\ \A p \in Lanes \ {q} : Copies(p)' = Copies(p)
    BY <1>2, RetryMoves
  <2>2. /\ Copies(q) = 1 /\ marker /\ runner[q].pc = "idle"
        /\ \A p \in Lanes \ {q} : Copies(p) = 0
    BY <1>2, <2>1 DEF TakeCopy, CopiesMarked
  <2>3. \A p \in Lanes : Copies(p)' = 0
    BY <2>1, <2>2, <1>0
  <2>4. [what |-> "copy", pc |-> "run"] \in RunnerStates
    BY DEF RunnerStates
  <2>5. /\ runner'[q].what = "copy" /\ runner'[q].pc = "run"
        /\ \A p \in Lanes \ {q} : runner'[p] = runner[p]
    BY <1>2, <2>4, RunnerGoes DEF TakeCopy
  <2>6. \A p \in Lanes : ~Busy(p)
    BY <2>2, <1>0 DEF RunnersAlone, Busy
  <2>7. hash # "queued"
    BY <2>2 DEF LanesHoldOne
  <2>8. LanesHoldOne' /\ CopiesMarked'
    BY <1>2, <2>3, <2>7 DEF TakeCopy, LanesHoldOne, CopiesMarked
  <2>9. RunnersAlone'
    BY <1>2, <2>2, <2>3, <2>5, <2>6 DEF TakeCopy, RunnersAlone, Busy
  <2>10. CallersKnow'
    BY <1>2, <2>2 DEF TakeCopy, CallersKnow
  <2> QED
    BY <2>8, <2>9, <2>10
<1>3. ASSUME NEW pc \in {"put", "done"}, Runs(q, pc), runner[q].pc = "run",
             UNCHANGED <<queueVars, call, behind>>
      PROVE  OneAtATime'
  <2>1. /\ runner'[q].pc = pc /\ runner'[q].what = runner[q].what
        /\ \A p \in Lanes \ {q} : runner'[p] = runner[p]
    BY <1>3, RunnerSteps DEF RunnerPcs
  <2>2. \A p \in Lanes : (Busy(p)' <=> Busy(p)) /\ Copies(p)' = Copies(p)
    BY <1>3, <2>1 DEF Busy, Copies, queueVars
  <2>3. Copies(q) = 0
    BY <1>3 DEF RunnersAlone, Busy
  <2>4. LanesHoldOne' /\ CallersKnow'
    BY <1>3, <2>2 DEF LanesHoldOne, CallersKnow, queueVars
  <2>5. RunnersAlone'
    BY <1>3, <2>1, <2>2, <2>3 DEF RunnersAlone, queueVars
  <2>6. CopiesMarked'
    BY <1>3, <2>1, <2>2, <2>3, <1>0 DEF CopiesMarked, queueVars
  <2> QED
    BY <2>4, <2>5, <2>6
<1>4. CASE Refresh(q) \/ Limit(q)
  BY <1>4, <1>3 DEF Refresh, Limit
<1>5. CASE PutCopy(q)
  <2>1. /\ runner'[q].pc = "mark" /\ runner'[q].what = runner[q].what
        /\ \A p \in Lanes \ {q} : runner'[p] = runner[p]
    BY <1>5, RunnerSteps DEF PutCopy, RunnerPcs
  <2>2. runner[q].pc = "put" /\ Busy(q)
    BY <1>5 DEF PutCopy, Busy
  <2>3. Copies(q) = 0 /\ \A p \in Lanes \ {q} : ~Busy(p) /\ Copies(p) = 0
    BY <2>2 DEF RunnersAlone
  <2>4. Copies(q)' = 1 /\ \A p \in Lanes \ {q} : Copies(p)' = 0
    BY <1>5, <2>3, RetryMoves
  <2>5. \A p \in Lanes : Busy(p)' <=> Busy(p)
    BY <2>1, <2>2 DEF Busy
  <2>6. hash # "queued"
    BY <2>2 DEF LanesHoldOne
  <2>7. LanesHoldOne' /\ CallersKnow'
    BY <1>5, <2>6 DEF PutCopy, LanesHoldOne, CallersKnow
  <2>8. RunnersAlone'
    BY <1>5, <2>1, <2>2, <2>3, <2>4, <2>5 DEF PutCopy, RunnersAlone
  <2>9. marker' = marker /\ (marker \/ runner'[q].what = "refresh")
    BY <1>5, <2>1, <2>2, <1>0 DEF PutCopy, RunnersAlone, RunnerStates
  <2>10. CopiesMarked'
    BY <2>1, <2>4, <2>9 DEF CopiesMarked
  <2> QED
    BY <2>7, <2>8, <2>10
<1>6. CASE SetMarker(q)
  <2>1. /\ runner'[q].pc = "done" /\ runner'[q].what = runner[q].what
        /\ runner[q].pc = "mark"
        /\ \A p \in Lanes \ {q} : runner'[p] = runner[p]
    BY <1>6, RunnerSteps DEF SetMarker, RunnerPcs
  <2>2. \A p \in Lanes : (Busy(p)' <=> Busy(p)) /\ Copies(p)' = Copies(p)
    BY <1>6, <2>1 DEF SetMarker, Busy, Copies
  <2>3. LanesHoldOne'
    BY <1>6, <2>2 DEF SetMarker, LanesHoldOne
  <2>4. RunnersAlone' /\ CopiesMarked'
    BY <1>6, <2>1, <2>2 DEF SetMarker, RunnersAlone, CopiesMarked
  <2>5. CallersKnow'
    BY <1>6, Outrun DEF SetMarker
  <2> QED
    BY <2>3, <2>4, <2>5
<1>7. CASE Return(q)
  <2>1. /\ runner'[q].pc = "idle" /\ runner[q].pc = "done" /\ Busy(q)
        /\ \A p \in Lanes \ {q} : runner'[p] = runner[p]
    BY <1>7, RunnerSteps DEF Return, RunnerPcs, Busy
  <2>2. /\ \A p \in Lanes : ~Busy(p)' /\ Copies(p)' = Copies(p)
        /\ \A p \in Lanes \ {q} : Copies(p) = 0
    BY <1>7, <2>1 DEF Return, RunnersAlone, Busy, Copies
  <2>3. hash # "queued" /\ hash' # "queued" /\ lane' = lane /\ marker' = marker
    BY <1>7, <2>1 DEF Return, LanesHoldOne
  <2>4. LanesHoldOne' /\ RunnersAlone'
    BY <2>2, <2>3 DEF LanesHoldOne, RunnersAlone
  <2>5. CopiesMarked'
    BY <2>1, <2>2, <2>3 DEF CopiesMarked
  <2>6. CASE runner[q].what = "refresh"
    BY <1>7, <2>4, <2>5, <2>6, Outrun DEF Return
  <2>7. CASE runner[q].what # "refresh"
    <3>1. CallersKnow'
      BY <1>7, <2>7 DEF Return, CallersKnow
    <3> QED
      BY <2>4, <2>5, <3>1
  <2> QED
    BY <2>6, <2>7
<1>8. CASE Crash(q)
  BY <1>8 DEF Crash, Clean
<1>9. CASE Fire(q)
  <2>1. \A p \in Lanes : Copies(p)' = Copies(p) /\ (Busy(p)' <=> Busy(p))
    BY <1>9, RetryMoves DEF Fire, Busy
  <2>2. LanesHoldOne' /\ CallersKnow'
    BY <1>9, <2>1 DEF Fire, LanesHoldOne, CallersKnow
  <2>3. RunnersAlone' /\ CopiesMarked'
    BY <1>9, <2>1 DEF Fire, RunnersAlone, CopiesMarked
  <2> QED
    BY <2>2, <2>3
<1> QED
  BY <1>1, <1>2, <1>4, <1>5, <1>6, <1>7, <1>8, <1>9

LEMMA OneByClock ==
    ASSUME RevalidateTypes, OneAtATime, Clean', Lapse \/ ExpireRecord
    PROVE  OneAtATime'
<1> USE DEF OneAtATime
<1>1. CASE Lapse
  <2>1. ~CopyPending
    BY <1>1 DEF Lapse, Clean
  <2>2. /\ \A q \in Lanes : Copies(q) = 0
        /\ \A q \in Lanes : Busy(q) => runner[q].what = "refresh"
    BY <2>1, PartsTyped DEF CopyPending, CopyWaits, Copies, Busy, RunnerStates
  <2>3. \A q \in Lanes : Copies(q)' = 0 /\ (Busy(q)' <=> Busy(q))
    BY <1>1, <2>2 DEF Lapse, Copies, Busy
  <2>4. LanesHoldOne' /\ CopiesMarked'
    BY <1>1, <2>3 DEF Lapse, LanesHoldOne, CopiesMarked
  <2>5. RunnersAlone'
    BY <1>1, <2>2, <2>3 DEF Lapse, RunnersAlone
  <2>6. CallersKnow'
    BY <1>1, Outrun DEF Lapse
  <2> QED
    BY <2>4, <2>5, <2>6
<1>2. CASE ExpireRecord
  <2>1. \A q \in Lanes : Copies(q)' = Copies(q) /\ (Busy(q)' <=> Busy(q))
    BY <1>2 DEF ExpireRecord, Copies, Busy
  <2>2. LanesHoldOne' /\ CallersKnow'
    BY <1>2, <2>1 DEF ExpireRecord, LanesHoldOne, CallersKnow
  <2>3. RunnersAlone' /\ CopiesMarked'
    BY <1>2, <2>1 DEF ExpireRecord, RunnersAlone, CopiesMarked
  <2> QED
    BY <2>2, <2>3
<1> QED
  BY <1>1, <1>2

OneInv == RevalidateTypes /\ (Clean => OneAtATime)

LEMMA OneStep ==
    ASSUME OneInv, [RevalidateNext]_revalidateVars
    PROVE  OneInv'
<1>1. RevalidateTypes'
  BY RevalidateTypeStep DEF OneInv
<1>2. ASSUME Clean' PROVE OneAtATime'
  <2>1. RevalidateTypes /\ OneAtATime
    BY <1>2, CleanBefore DEF OneInv
  <2>2. CASE UNCHANGED revalidateVars
    <3>1. CallersKnow'
      BY <2>1, <2>2 DEF revalidateVars, queueVars, OneAtATime, CallersKnow
    <3> QED
      BY <2>1, <2>2, <3>1, QueueKept DEF revalidateVars, OneAtATime
  <2>3. CASE RevalidateNext
    BY <1>2, <2>1, <2>3, OneByCaller, OneByWorker, OneByClock DEF RevalidateNext
  <2> QED
    BY <2>2, <2>3
<1> QED
  BY <1>1, <1>2 DEF OneInv

LEMMA OneBegins == RevalidateInit /\ RevalidateTypes => OneInv
<1> SUFFICES ASSUME RevalidateInit, RevalidateTypes PROVE OneAtATime
  BY DEF OneInv
<1>1. /\ \A q \in Lanes : Copies(q) = 0 /\ ~Busy(q)
      /\ \A c \in Callers : call[c].pc = "idle"
  BY DEF RevalidateInit, Copies, Busy
<1>2. LanesHoldOne
  BY <1>1 DEF RevalidateInit, LanesHoldOne
<1> QED
  BY <1>1, <1>2 DEF OneAtATime, RunnersAlone, CopiesMarked, CallersKnow

LEMMA OneEnough == OneInv => OneRefresh
<1> SUFFICES ASSUME OneInv, Clean PROVE
        /\ \A q \in Lanes : lane[q] < 2 /\ retry[q].waiting + retry[q].queued < 2
        /\ \A x, y \in Refreshes : x = y
  BY DEF OneRefresh, Clean
<1>0. /\ \A q \in Lanes : lane[q] \in Nat /\ Copies(q) \in Nat
      /\ origin \in Lanes
      /\ LanesHoldOne /\ RunnersAlone /\ CopiesMarked
  BY PartsTyped DEF OneInv, OneAtATime, RevalidateTypes
<1>1. \A q \in Lanes : lane[q] < 2 /\ Copies(q) < 2
  BY <1>0 DEF LanesHoldOne, CopiesMarked
<1>2. ASSUME NEW p \in Lanes, NEW q \in Lanes
      PROVE  /\ lane[p] > 0 /\ lane[q] > 0 => p = q
             /\ Copies(p) > 0 /\ Copies(q) > 0 => p = q
             /\ runner[p].pc \in {"run", "put"} /\ runner[q].pc \in {"run", "put"} => p = q
             /\ ~(lane[p] > 0 /\ Copies(q) > 0)
             /\ ~(lane[p] > 0 /\ runner[q].pc \in {"run", "put"})
             /\ ~(Copies(p) > 0 /\ runner[q].pc \in {"run", "put"})
  <2>1. lane[p] > 0 => p = origin /\ ~Busy(q) /\ Copies(q) = 0
    BY <1>0 DEF LanesHoldOne
  <2>2. lane[q] > 0 => q = origin
    BY <1>0 DEF LanesHoldOne
  <2>3. runner[q].pc \in {"run", "put"} =>
            Busy(q) /\ Copies(q) = 0 /\ (p # q => ~Busy(p) /\ Copies(p) = 0)
    BY <1>0 DEF RunnersAlone, Busy
  <2>4. runner[p].pc \in {"run", "put"} => Busy(p)
    BY DEF Busy
  <2>5. Copies(p) > 0 /\ p # q => Copies(q) = 0
    BY <1>0 DEF CopiesMarked
  <2> QED
    BY <2>1, <2>2, <2>3, <2>4, <2>5
<1>3. ASSUME NEW x \in Refreshes, NEW y \in Refreshes PROVE x = y
  <2>1. PICK p \in Lanes : \/ x = <<"lane", p>> /\ lane[p] > 0
                           \/ x = <<"copy", p>> /\ Copies(p) > 0
                           \/ x = <<"runner", p>> /\ runner[p].pc \in {"run", "put"}
    BY <1>3, Zenon DEF Refreshes, Copies
  <2>2. PICK q \in Lanes : \/ y = <<"lane", q>> /\ lane[q] > 0
                           \/ y = <<"copy", q>> /\ Copies(q) > 0
                           \/ y = <<"runner", q>> /\ runner[q].pc \in {"run", "put"}
    BY <1>3, Zenon DEF Refreshes, Copies
  <2>3. CASE x = <<"lane", p>> /\ lane[p] > 0
    BY <1>2, <2>2, <2>3
  <2>4. CASE x = <<"copy", p>> /\ Copies(p) > 0
    BY <1>2, <2>2, <2>4
  <2>5. CASE x = <<"runner", p>> /\ runner[p].pc \in {"run", "put"}
    BY <1>2, <2>2, <2>5
  <2> QED
    BY <2>1, <2>3, <2>4, <2>5
<1> QED
  BY <1>1, <1>3 DEF Copies

\* However many callers, lanes, promotions, rate limits and retries there are, one
\* refresh of the entity is under way at most, unless a caller acted on what it had
\* read before the queue moved on, a marker ended before its copy, or a process died.
THEOREM OneRefreshHolds == RevalidateSpec => []OneRefresh
<1>1. RevalidateInit => OneInv
  BY RevalidateStarts, OneBegins
<1> QED
  BY <1>1, OneStep, OneEnough, PTL DEF RevalidateSpec

(* ---- no request is lost ---- *)

\* A queued record has its place on a lane, also when callers were overtaken.
QueuedIsOnLane == hash = "queued" => \E q \in Lanes : lane[q] > 0

\* What a request that has been answered rests on: less than InHand allows, as a
\* worker that runs may have begun before the request.
StillDue ==
    (wanted /\ ~hurt) =>
        \/ CopyWaits \/ hash = "queued"
        \/ \E q \in Lanes : runner[q].pc = "put"
        \/ \E c \in Callers : call[c].pc = "put"

RequestInv == RevalidateTypes /\ QueuedIsOnLane /\ StillDue

\* A step that raises no request and takes nothing away that one can rest on.
LEMMA DueKept ==
    ASSUME StillDue, wanted' => wanted, hurt => hurt',
           CopyWaits => CopyWaits', hash = "queued" => hash' = "queued" \/ hurt',
           \A q \in Lanes : runner[q].pc = "put" => runner'[q].pc = "put",
           \A c \in Callers : call[c].pc = "put" => call'[c].pc = "put" \/ hurt'
    PROVE  StillDue'
BY DEF StillDue

LEMMA CopiesWait ==
    ASSUME RevalidateTypes
    PROVE  CopyWaits <=> \E q \in Lanes : Copies(q) > 0
BY PartsTyped DEF CopyWaits, Copies

LEMMA RequestByCaller ==
    ASSUME RequestInv, NEW c \in Callers,
           \/ \E q \in Lanes, front \in BOOLEAN : CheckMarker(c, q, front)
           \/ FetchJob(c) \/ ReadStatus(c) \/ DeleteExisting(c) \/ EnqueueRefresh(c)
           \/ CutShort(c)
    PROVE  QueuedIsOnLane' /\ StillDue'
<1> USE DEF RequestInv
<1>0. /\ \A d \in Callers : call[d] \in CallStates
      /\ \A q \in Lanes : lane[q] \in Nat
      /\ origin \in Lanes /\ hash \in Statuses
  BY PartsTyped DEF RevalidateTypes
<1>1. ASSUME NEW q \in Lanes, NEW front \in BOOLEAN, CheckMarker(c, q, front)
      PROVE  QueuedIsOnLane' /\ StillDue'
  <2>1. QueuedIsOnLane' /\ CopyWaits' = CopyWaits
    BY <1>1 DEF CheckMarker, QueuedIsOnLane, CopyWaits, queueVars
  <2>2. hash' = hash /\ runner' = runner /\ hurt' = hurt
    BY <1>1 DEF CheckMarker, queueVars
  <2>3. CASE marker
    <3>1. call' = call /\ (wanted' => wanted \/ CopyWaits)
      BY <1>1, <2>3 DEF CheckMarker
    <3> QED
      BY <2>1, <2>2, <3>1 DEF StillDue
  <2>4. CASE ~marker
    <3>1. wanted' = wanted
      BY <1>1, <2>4 DEF CheckMarker
    <3> DEFINE s == [call[c] EXCEPT !.pc = "fetch", !.on = q, !.front = front]
    <3>2. s \in CallStates
      BY <1>0 DEF CallStates
    <3>3. call' = [call EXCEPT ![c] = s] /\ call[c].pc = "idle"
      BY <1>1, <2>4 DEF CheckMarker
    <3>4. \A d \in Callers : call[d].pc = "put" => call'[d].pc = "put"
      BY <3>2, <3>3, CallGoes
    <3> QED
      BY <2>1, <2>2, <3>1, <3>4, DueKept
  <2> QED
    BY <2>1, <2>3, <2>4
<1>2. CASE FetchJob(c)
  <2> DEFINE s == [call[c] EXCEPT !.pc = IF hash = "none" THEN "put" ELSE "status",
                                  !.from = origin]
  <2>1. s \in CallStates
    BY <1>0 DEF CallStates
  <2>2. call' = [call EXCEPT ![c] = s] /\ call[c].pc = "fetch"
    BY <1>2 DEF FetchJob
  <2>3. \A d \in Callers : call[d].pc = "put" => call'[d].pc = "put"
    BY <2>1, <2>2, CallGoes
  <2>4. /\ QueuedIsOnLane' /\ CopyWaits' = CopyWaits
        /\ hash' = hash /\ runner' = runner /\ wanted' = wanted /\ hurt' = hurt
    BY <1>2 DEF FetchJob, QueuedIsOnLane, CopyWaits, queueVars
  <2> QED
    BY <2>3, <2>4, DueKept
<1>3. CASE ReadStatus(c)
  <2> DEFINE leave == hash = "started" \/ (hash = "queued" /\ ~call[c].front)
  <2>1. Step(c, IF leave THEN "idle" ELSE "delete")
    BY <1>3 DEF ReadStatus
  <2>2. \A d \in Callers : call[d].pc = "put" => call'[d].pc = "put"
    BY <1>3, <2>1, CallSteps DEF ReadStatus, CallPcs
  <2>3. /\ QueuedIsOnLane' /\ CopyWaits' = CopyWaits
        /\ hash' = hash /\ runner' = runner /\ hurt' = hurt
    BY <1>3 DEF ReadStatus, QueuedIsOnLane, CopyWaits, queueVars
  <2>4. wanted' => wanted \/ hash = "queued"
    BY <1>3 DEF ReadStatus
  <2> QED
    BY <2>2, <2>3, <2>4 DEF StillDue
<1>4. CASE DeleteExisting(c)
  <2>1. call'[c].pc = "put"
    BY <1>4, CallSteps DEF DeleteExisting, CallPcs
  <2> QED
    BY <1>4, <2>1 DEF DeleteExisting, QueuedIsOnLane, StillDue
<1>5. CASE EnqueueRefresh(c)
  <2>1. call[c].on \in Lanes /\ lane[call[c].on] \in Nat
    BY <1>0 DEF CallStates
  <2>2. lane'[call[c].on] = lane[call[c].on] + 1 /\ hash' = "queued"
    BY <1>5, <2>1 DEF EnqueueRefresh, RevalidateTypes
  <2> QED
    BY <2>1, <2>2 DEF QueuedIsOnLane, StillDue
<1>6. CASE CutShort(c)
  <2>1. /\ \A d \in Callers \ {c} : call'[d] = call[d]
        /\ call[c].pc = "put" => hurt'
    BY <1>6, CallSteps DEF CutShort, CallPcs
  <2>2. /\ QueuedIsOnLane' /\ CopyWaits' = CopyWaits
        /\ hash' = hash /\ runner' = runner /\ wanted' = wanted /\ (hurt => hurt')
    BY <1>6 DEF CutShort, QueuedIsOnLane, CopyWaits, queueVars
  <2> QED
    BY <2>1, <2>2, DueKept
<1> QED
  BY <1>1, <1>2, <1>3, <1>4, <1>5, <1>6

LEMMA RequestByWorker ==
    ASSUME RequestInv, NEW q \in Lanes,
           \/ Take(q) \/ TakeCopy(q) \/ Refresh(q) \/ Limit(q) \/ PutCopy(q)
           \/ SetMarker(q) \/ Return(q) \/ Crash(q) \/ Fire(q)
    PROVE  QueuedIsOnLane' /\ StillDue'
<1> USE DEF RequestInv
<1>0. \A p \in Lanes : lane[p] \in Nat /\ Copies(p) \in Nat
  BY PartsTyped
<1>1. CASE Take(q)
  <2>1. hash' # "queued" /\ (hash = "none" => hash' = hash)
    BY <1>1 DEF Take
  <2>2. CASE hash = "none"
    <3>1. /\ CopyWaits' = CopyWaits /\ call' = call /\ runner' = runner
          /\ wanted' = wanted /\ hurt' = hurt
      BY <1>1, <2>2 DEF Take, CopyWaits
    <3> QED
      BY <2>1, <2>2, <3>1, DueKept DEF QueuedIsOnLane
  <2>3. CASE hash # "none"
    BY <1>1, <2>1, <2>3 DEF Take, QueuedIsOnLane, StillDue
  <2> QED
    BY <2>2, <2>3
<1>2. CASE TakeCopy(q)
  BY <1>2 DEF TakeCopy, QueuedIsOnLane, StillDue
<1>3. CASE Refresh(q)
  <2>1. \A p \in Lanes : runner[p].pc = "put" => runner'[p].pc = "put"
    BY <1>3, RunnerSteps DEF Refresh, RunnerPcs
  <2>2. /\ QueuedIsOnLane' /\ CopyWaits' = CopyWaits /\ hash' = hash /\ call' = call
        /\ wanted' = wanted /\ hurt' = hurt
    BY <1>3 DEF Refresh, QueuedIsOnLane, CopyWaits, queueVars
  <2> QED
    BY <2>1, <2>2, DueKept
<1>4. CASE Limit(q)
  <2>1. runner'[q].pc = "put"
    BY <1>4, RunnerSteps DEF Limit, RunnerPcs
  <2> QED
    BY <1>4, <2>1 DEF Limit, QueuedIsOnLane, StillDue, queueVars
<1>5. CASE PutCopy(q)
  <2>1. Copies(q)' > 0
    BY <1>5, <1>0, RetryMoves
  <2>2. CopyWaits'
    BY <2>1 DEF CopyWaits, Copies
  <2> QED
    BY <1>5, <2>2 DEF PutCopy, QueuedIsOnLane, StillDue
<1>6. CASE SetMarker(q)
  <2>1. \A p \in Lanes : runner[p].pc = "put" => runner'[p].pc = "put"
    BY <1>6, RunnerSteps DEF SetMarker, RunnerPcs
  <2>2. /\ QueuedIsOnLane' /\ CopyWaits' = CopyWaits /\ hash' = hash /\ call' = call
        /\ wanted' = wanted /\ hurt' = hurt
    BY <1>6 DEF SetMarker, QueuedIsOnLane, CopyWaits
  <2> QED
    BY <2>1, <2>2, DueKept
<1>7. CASE Return(q)
  <2>1. \A p \in Lanes : runner[p].pc = "put" => runner'[p].pc = "put"
    BY <1>7, RunnerSteps DEF Return, RunnerPcs
  <2>2. /\ CopyWaits' = CopyWaits /\ call' = call /\ lane' = lane
        /\ wanted' = wanted /\ (hurt => hurt')
        /\ hash' = hash \/ (hash' = "terminal" /\ (hash = "queued" => hurt'))
    BY <1>7 DEF Return, CopyWaits
  <2> QED
    BY <2>1, <2>2, DueKept DEF QueuedIsOnLane
<1>8. CASE Crash(q)
  <2>1. hurt' /\ lane' = lane /\ (hash' = hash \/ hash' = "terminal")
    BY <1>8 DEF Crash
  <2> QED
    BY <2>1 DEF QueuedIsOnLane, StillDue
<1>9. CASE Fire(q)
  <2>1. RevalidateTypes'
    BY <1>9, RevalidateTypeStep DEF RevalidateNext
  <2>2. CopyWaits => CopyWaits'
    BY <1>9, <2>1, RetryMoves, CopiesWait DEF CopyWaits, Copies
  <2>3. /\ QueuedIsOnLane' /\ hash' = hash /\ call' = call /\ runner' = runner
        /\ wanted' = wanted /\ hurt' = hurt
    BY <1>9 DEF Fire, QueuedIsOnLane
  <2> QED
    BY <2>2, <2>3, DueKept
<1> QED
  BY <1>1, <1>2, <1>3, <1>4, <1>5, <1>6, <1>7, <1>8, <1>9

LEMMA RequestByClock ==
    ASSUME RequestInv, Lapse \/ ExpireRecord \/ UNCHANGED revalidateVars
    PROVE  QueuedIsOnLane' /\ StillDue'
<1> USE DEF RequestInv
<1>1. /\ CopyWaits' = CopyWaits /\ lane' = lane /\ call' = call /\ runner' = runner
      /\ wanted' = wanted /\ hurt' = hurt
  BY DEF Lapse, ExpireRecord, revalidateVars, queueVars, CopyWaits
<1>2. hash' = hash \/ (hash = "terminal" /\ hash' = "none")
  BY DEF Lapse, ExpireRecord, revalidateVars, queueVars
<1> QED
  BY <1>1, <1>2, DueKept DEF QueuedIsOnLane

LEMMA RequestStep ==
    ASSUME RequestInv, [RevalidateNext]_revalidateVars
    PROVE  RequestInv'
<1>1. RevalidateTypes'
  BY RevalidateTypeStep DEF RequestInv
<1>2. QueuedIsOnLane' /\ StillDue'
  <2>1. CASE RevalidateNext
    BY <2>1, RequestByCaller, RequestByWorker, RequestByClock DEF RevalidateNext
  <2>2. CASE UNCHANGED revalidateVars
    BY <2>2, RequestByClock
  <2> QED
    BY <2>1, <2>2
<1> QED
  BY <1>1, <1>2 DEF RequestInv

LEMMA RequestEnough == RequestInv => NoRequestLost
BY DEF RequestInv, NoRequestLost, InHand, StillDue, QueuedIsOnLane

\* Whoever is told that a refresh is in flight already is told the truth, in every
\* interleaving of any number of callers and workers, overtaken or not, as long as no
\* record of a queued job is overwritten and no process dies.
THEOREM NoRequestLostHolds == RevalidateSpec => []NoRequestLost
<1>1. ASSUME RevalidateInit PROVE RequestInv
  <2>1. QueuedIsOnLane
    BY <1>1 DEF RevalidateInit, QueuedIsOnLane
  <2>2. wanted => hash = "queued"
    BY <1>1 DEF RevalidateInit
  <2> QED
    BY <1>1, <2>1, <2>2, RevalidateStarts DEF RequestInv, StillDue
<1> QED
  BY <1>1, RequestStep, RequestEnough, PTL DEF RevalidateSpec

(* ---- hydration ---- *)

\* Types, with what they rest on: the timer goes out with the patience, and the
\* library waits for ids as the document has them.
HydrationInv ==
    /\ HydrationTypes
    /\ polling => attempts <= MaxAttempts
    /\ page = "cards" => pending \subseteq {"string"} \X Entities

\* In the library every stale card is waited for.
StaleAwaited ==
    page = "cards" => \A e \in Entities : shown[e] = "stale" => <<"string", e>> \in pending

LEMMA Appears ==
    ASSUME HydrationTypes, NEW S \in SUBSET Entities, Appear(S)
    PROVE  shown' \in [Entities -> {"hidden", "stale", "fresh"}]
BY DEF Appear, HydrationTypes

LEMMA PollTyped ==
    ASSUME HydrationTypes, NEW p \in Polls
    PROVE  /\ poll[p] \in PollStates /\ poll[p].ids \in SUBSET Entities
           /\ NoPoll \in PollStates
           /\ \A ids \in SUBSET Entities, pc \in {"none", "asked", "answered"} :
                 [poll EXCEPT ![p] = [pc |-> pc, ids |-> ids]] \in [Polls -> PollStates]
           /\ [poll EXCEPT ![p] = NoPoll] \in [Polls -> PollStates]
           /\ {id[2] : id \in pending} \in SUBSET Entities
<1>1. poll[p] \in PollStates
  BY DEF HydrationTypes
<1>2. \A ids \in SUBSET Entities, pc \in {"none", "asked", "answered"} :
          [pc |-> pc, ids |-> ids] \in PollStates
  BY DEF PollStates
<1>3. NoPoll \in PollStates
  BY DEF NoPoll, PollStates
<1>4. {id[2] : id \in pending} \in SUBSET Entities
  BY DEF HydrationTypes, Ids
<1> QED
  BY <1>1, <1>2, <1>3, <1>4 DEF HydrationTypes, PollStates

LEMMA HydrationStep ==
    ASSUME HydrationInv, [HydrationNext]_hydrationVars
    PROVE  HydrationInv'
<1> USE HydrationAssumption DEF HydrationInv
<1>0. /\ page \in {"cards", "issues"} /\ attempts \in Nat /\ errors \in 0..MaxErrors
      /\ MaxAttempts \in Nat
      /\ depth \in [Entities -> Depths] /\ job \subseteq Entities /\ pending \subseteq Ids
      /\ polling \in BOOLEAN /\ fired \in BOOLEAN /\ attempts \in 0..MaxAttempts + 1
      /\ shown \in [Entities -> {"hidden", "stale", "fresh"}]
      /\ poll \in [Polls -> PollStates]
  BY DEF HydrationTypes
<1>1. CASE UNCHANGED hydrationVars
  BY <1>1 DEF hydrationVars, HydrationTypes
<1>2. ASSUME NEW waiting \in BOOLEAN, Polling(waiting)
      PROVE  /\ polling' \in BOOLEAN /\ attempts' \in 0..MaxAttempts + 1
             /\ polling' => attempts' <= MaxAttempts
  BY <1>2, <1>0 DEF Polling
<1>3. ASSUME NEW S \in SUBSET Entities, ShowCards(S) PROVE HydrationInv'
  <2>1. pending' \subseteq {"string"} \X Entities /\ {"string"} \X Entities \subseteq Ids
    BY <1>3 DEF ShowCards, ScanPending, Ids
  <2>2. job' \subseteq Entities
    BY <1>3, <1>0 DEF ShowCards
  <2>3. /\ polling' \in BOOLEAN /\ attempts' \in 0..MaxAttempts + 1
        /\ polling' => attempts' <= MaxAttempts
    BY <1>3, <1>2 DEF ShowCards
  <2> QED
    BY <1>3, <1>0, <2>1, <2>2, <2>3, Appears DEF ShowCards, HydrationTypes
<1>4. ASSUME NEW S \in SUBSET Entities, OpenIssues(S) PROVE HydrationInv'
  <2>1. /\ pending' \subseteq Ids /\ job' \subseteq Entities
    BY <1>4, <1>0 DEF OpenIssues, NeedsFetch, Ids
  <2>2. /\ polling' \in BOOLEAN /\ attempts' \in 0..MaxAttempts + 1
        /\ polling' => attempts' <= MaxAttempts
    BY <1>4, <1>2 DEF OpenIssues
  <2> QED
    BY <1>4, <1>0, <2>1, <2>2, Appears DEF OpenIssues, HydrationTypes
<1>5. ASSUME NEW S \in SUBSET Entities, NEW lost \in BOOLEAN, RevealIssues(S, lost)
      PROVE  HydrationInv'
  <2>1. /\ pending' \subseteq Ids /\ job' \subseteq Entities
    BY <1>5, <1>0 DEF RevealIssues, NeedsFetch, Ids
  <2>2. /\ polling' \in BOOLEAN /\ attempts' \in 0..MaxAttempts + 1
        /\ polling' => attempts' <= MaxAttempts
    BY <1>5, <1>2 DEF RevealIssues
  <2>3. errors' \in 0..MaxErrors
    BY <1>5, <1>0 DEF RevealIssues
  <2> QED
    BY <1>5, <1>0, <2>1, <2>2, <2>3, Appears DEF RevealIssues, HydrationTypes
<1>6. ASSUME NEW e \in Entities, EndJob(e) PROVE HydrationInv'
  <2>1. depth' \in [Entities -> Depths] /\ errors' \in 0..MaxErrors /\ job' \subseteq Entities
    BY <1>6, <1>0 DEF EndJob, Depths
  <2> QED
    BY <1>6, <1>0, <2>1 DEF EndJob, HydrationTypes
<1>7. CASE BulkHydrate
  <2>1. depth' \in [Entities -> Depths]
    BY <1>7, <1>0 DEF BulkHydrate, Depths
  <2> QED
    BY <1>7, <1>0, <2>1 DEF BulkHydrate, HydrationTypes
<1>8. ASSUME NEW p \in Polls, Poll(p) PROVE HydrationInv'
  <2>1. poll' \in [Polls -> PollStates]
    BY <1>8, <1>0, PollTyped DEF Poll
  <2>2. /\ attempts' = attempts + 1 /\ attempts <= MaxAttempts
        /\ polling' => attempts < MaxAttempts
    BY <1>8 DEF Poll, Patience
  <2>3. attempts' \in 0..MaxAttempts + 1 /\ (polling' => attempts' <= MaxAttempts)
    BY <1>0, <2>2
  <2>4. polling' \in BOOLEAN /\ fired' \in BOOLEAN
    BY <1>8, <1>0, Zenon DEF Poll
  <2> QED
    BY <1>8, <1>0, <2>1, <2>2, <2>3, <2>4 DEF Poll, HydrationTypes
<1>9. ASSUME NEW p \in Polls, AnswerPoll(p) PROVE HydrationInv'
  <2>1. {e \in poll[p].ids : Hydrated(e)} \in SUBSET Entities
    BY <1>0, PollTyped DEF HydrationInv
  <2>2. poll' \in [Polls -> PollStates]
    BY <1>9, <2>1, PollTyped DEF AnswerPoll
  <2> QED
    BY <1>9, <1>0, <2>2 DEF AnswerPoll, HydrationTypes
<1>10. ASSUME NEW p \in Polls, ReceivePoll(p) PROVE HydrationInv'
  <2>1. poll' \in [Polls -> PollStates]
    BY <1>10, PollTyped DEF ReceivePoll
  <2>2. /\ attempts' = 0 \/ attempts' = attempts
        /\ attempts' \in 0..MaxAttempts + 1
    <3>1. attempts' = 0 \/ attempts' = attempts
      BY <1>10 DEF ReceivePoll, AttemptsAfter
    <3> QED
      BY <3>1, <1>0
  <2>3. /\ polling' \in BOOLEAN /\ fired' \in BOOLEAN /\ (polling' => polling)
    BY <1>10, <1>0, Zenon DEF ReceivePoll
  <2>4. shown' \in [Entities -> {"hidden", "stale", "fresh"}] /\ pending' \subseteq pending
    BY <1>10, <1>0 DEF ReceivePoll
  <2> QED
    BY <1>10, <1>0, <2>1, <2>2, <2>3, <2>4 DEF ReceivePoll, HydrationTypes
<1>11. ASSUME NEW p \in Polls, LosePoll(p) PROVE HydrationInv'
  <2>1. poll' \in [Polls -> PollStates] /\ errors' \in 0..MaxErrors
    BY <1>11, <1>0, PollTyped DEF LosePoll
  <2> QED
    BY <1>11, <1>0, <2>1 DEF LosePoll, HydrationTypes
<1> QED
  BY <1>1, <1>3, <1>4, <1>5, <1>6, <1>7, <1>8, <1>9, <1>10, <1>11 DEF HydrationNext, PollStep

\* Whatever order cards, polls and answers come in, a stale card is waited for.
LEMMA AwaitedStep ==
    ASSUME HydrationInv, StaleAwaited, [HydrationNext]_hydrationVars
    PROVE  StaleAwaited'
<1> USE DEF StaleAwaited
<1>0. shown \in [Entities -> {"hidden", "stale", "fresh"}]
  BY DEF HydrationInv, HydrationTypes
<1>1. ASSUME UNCHANGED <<page, shown, pending>> PROVE StaleAwaited'
  BY <1>1
<1>2. ASSUME NEW S \in SUBSET Entities, ShowCards(S) PROVE StaleAwaited'
  BY <1>2 DEF ShowCards, ScanPending
<1>3. ASSUME NEW S \in SUBSET Entities, NEW lost \in BOOLEAN,
             OpenIssues(S) \/ RevealIssues(S, lost)
      PROVE  StaleAwaited'
  BY <1>3 DEF OpenIssues, RevealIssues
<1>4. ASSUME NEW p \in Polls, ReceivePoll(p) PROVE StaleAwaited'
  BY <1>4, <1>0 DEF ReceivePoll
<1>5. CASE BulkHydrate \/ UNCHANGED hydrationVars
  BY <1>1, <1>5 DEF BulkHydrate, hydrationVars
<1>6. ASSUME NEW e \in Entities, EndJob(e) PROVE StaleAwaited'
  BY <1>1, <1>6 DEF EndJob
<1>7. ASSUME NEW p \in Polls, Poll(p) \/ AnswerPoll(p) \/ LosePoll(p) PROVE StaleAwaited'
  BY <1>1, <1>7 DEF Poll, AnswerPoll, LosePoll
<1> QED
  BY <1>2, <1>3, <1>4, <1>5, <1>6, <1>7 DEF HydrationNext, PollStep

\* The library says it is complete only with a step that finds nothing to wait for.
LEMMA FiresEmpty ==
    ASSUME [HydrationNext]_hydrationVars, page = "cards", ~fired, fired'
    PROVE  pending' = {} /\ page' = "cards"
<1>1. ~UNCHANGED fired
  OBVIOUS
<1>2. ASSUME NEW p \in Polls, Poll(p) PROVE pending' = {} /\ page' = "cards"
  BY <1>2 DEF Poll
<1>3. ASSUME NEW p \in Polls, ReceivePoll(p) PROVE pending' = {} /\ page' = "cards"
  BY <1>3 DEF ReceivePoll
<1>4. ASSUME NEW p \in Polls, AnswerPoll(p) \/ LosePoll(p) PROVE FALSE
  BY <1>1, <1>4 DEF AnswerPoll, LosePoll
<1>5. ASSUME NEW S \in SUBSET Entities, NEW lost \in BOOLEAN,
             ShowCards(S) \/ OpenIssues(S) \/ RevealIssues(S, lost)
      PROVE  FALSE
  BY <1>1, <1>5 DEF ShowCards, OpenIssues, RevealIssues
<1>6. ASSUME NEW e \in Entities, EndJob(e) PROVE FALSE
  BY <1>1, <1>6 DEF EndJob
<1>7. ~(BulkHydrate \/ UNCHANGED hydrationVars)
  BY <1>1 DEF BulkHydrate, hydrationVars
<1> QED
  BY <1>2, <1>3, <1>4, <1>5, <1>6, <1>7 DEF HydrationNext, PollStep

LEMMA HydrationStarts ==
    ASSUME HydrationInit
    PROVE  HydrationInv /\ StaleAwaited
<1> USE HydrationAssumption
<1>1. depth \in [Entities -> Depths]
  BY DEF HydrationInit, Depths
<1>2. poll \in [Polls -> PollStates]
  BY DEF HydrationInit, NoPoll, PollStates
<1>3. polling \in BOOLEAN /\ fired \in BOOLEAN
  BY Zenon DEF HydrationInit
<1>4. attempts = 0 /\ errors = 0 /\ MaxAttempts \in Nat /\ MaxErrors \in Nat
  BY DEF HydrationInit
<1>5. attempts \in 0..MaxAttempts + 1 /\ errors \in 0..MaxErrors
  BY <1>4
<1> QED
  BY <1>1, <1>2, <1>3, <1>4, <1>5 DEF HydrationInit, HydrationInv, HydrationTypes, StaleAwaited

\* However many rows a page shows and polls overtake each other, its state is one the
\* script can be in, and its patience is not exceeded.
THEOREM HydrationTyped == HydrationSpec => []HydrationTypes
<1>1. HydrationInv => HydrationTypes
  BY DEF HydrationInv
<1> QED
  BY <1>1, HydrationStarts, HydrationStep, PTL DEF HydrationSpec

\* The library says it is complete only when every card on show is, whichever of its
\* polls is answered last.
THEOREM CompleteIsTrueHolds == HydrationSpec => CompleteIsTrue
<1>1. ASSUME HydrationInv, StaleAwaited, [HydrationNext]_hydrationVars
      PROVE  (page = "cards" /\ ~fired /\ fired') => \A e \in Entities : shown'[e] # "stale"
  BY <1>1, AwaitedStep, FiresEmpty DEF StaleAwaited
<1>2. ASSUME HydrationInv, StaleAwaited, [HydrationNext]_hydrationVars
      PROVE  [(page = "cards" /\ ~fired /\ fired')
                 => \A e \in Entities : shown'[e] # "stale"]_hydrationVars
  BY <1>1, <1>2
<1> QED
  BY <1>2, HydrationStarts, HydrationStep, AwaitedStep, PTL DEF HydrationSpec, CompleteIsTrue

(* ---- a volume's page: what is read ---- *)

\* What the proofs rest on: the page has each issue once, and arcs are as ComicVine
\* lists them, each issue once.
PageOK ==
    /\ VolumePageTypes
    /\ \A a \in DOMAIN members : members[a] = volume.reads[a]
    /\ window # Unopened => window.lo \in Nat /\ window.hi \in Nat

LEMMA VolumeParts ==
    ASSUME volume \in VolumePages
    PROVE  /\ volume.order \in [1..Cardinality(Own) -> Own]
           /\ \A i \in Own : volume.credits[i] \subseteq Arcs
           /\ \A a \in Arcs : /\ volume.reads[a] \in Seq(Own \cup Elsewhere)
                              /\ IsInjective(volume.reads[a])
           /\ volume.credited \subseteq Own /\ volume.owned \subseteq Own
<1>1. volume \in Volume /\ \A a \in Arcs : IsInjective(volume.reads[a])
  BY VolumePageAssumption
<1> QED
  BY <1>1 DEF Volume

\* The members of an arc that was read are a sequence that has each issue once.
LEMMA ArcsRead ==
    ASSUME PageOK, NEW a \in ReadArcs
    PROVE  /\ a \in Arcs /\ members[a] \in Seq(Own \cup Elsewhere)
           /\ \A p, q \in DOMAIN members[a] : members[a][p] = members[a][q] => p = q
<1>1. a \in Arcs /\ members[a] = volume.reads[a] /\ volume \in VolumePages
  BY DEF PageOK, VolumePageTypes, ReadArcs
<1> QED
  BY <1>1, VolumeParts DEF IsInjective

LEMMA IssuesRead ==
    ASSUME PageOK
    PROVE  /\ issues \in Seq(Own)
           /\ \A m, n \in DOMAIN issues : issues[m] = issues[n] => m = n
           /\ Shown \subseteq Own
           /\ \A i \in Shown : IndexOf(i) \in DOMAIN issues /\ issues[IndexOf(i)] = i
<1>1. issues \in Seq(Own) /\ \A m, n \in DOMAIN issues : issues[m] = issues[n] => m = n
  BY DEF PageOK, VolumePageTypes, IsInjective
<1>2. ASSUME NEW i \in Shown PROVE IndexOf(i) \in DOMAIN issues /\ issues[IndexOf(i)] = i
  <2>1. \E n \in DOMAIN issues : issues[n] = i
    BY DEF Shown, ToSet
  <2> QED
    BY <2>1 DEF IndexOf
<1>3. Shown \subseteq Own
  BY <1>1 DEF Shown, ToSet
<1> QED
  BY <1>1, <1>2, <1>3

LEMMA PositionRight ==
    ASSUME PageOK, NEW a \in ReadArcs, NEW i \in ToSet(members[a])
    PROVE  /\ Position(a, i) \in DOMAIN members[a] /\ members[a][Position(a, i)] = i
           /\ \A p \in DOMAIN members[a] : members[a][p] = i => p = Position(a, i)
<1>1. \E p \in DOMAIN members[a] : members[a][p] = i
  BY DEF ToSet
<1>2. Position(a, i) \in DOMAIN members[a] /\ members[a][Position(a, i)] = i
  BY <1>1 DEF Position
<1> QED
  BY <1>2, ArcsRead

\* A non-empty set of positions or rows has a least and a largest one.
LEMMA LeastIs ==
    ASSUME NEW S \in SUBSET Nat, S # {}
    PROVE  Least(S) \in S /\ \A x \in S : Least(S) <= x
<1>1. \E x \in S : \A y \in S : x <= y
  BY LeastNatural
<1> QED
  BY <1>1 DEF Least

LEMMA MostIs ==
    ASSUME NEW S \in SUBSET Nat, S # {}, NEW top \in Nat, \A x \in S : x <= top
    PROVE  Most(S) \in S /\ \A x \in S : Most(S) >= x
<1>1. \E x \in S : \A y \in S : x >= y
  BY MostNatural
<1> QED
  BY <1>1 DEF Most

LEMMA PositionsBounded ==
    ASSUME PageOK, NEW a \in ReadArcs, NEW S
    PROVE  /\ Positions(a, S) \in SUBSET Nat
           /\ Len(members[a]) \in Nat
           /\ \A p \in Positions(a, S) : p \in 1..Len(members[a]) /\ members[a][p] \in S
           /\ Positions(a, S) # {} =>
                /\ Least(Positions(a, S)) \in Positions(a, S)
                /\ \A p \in Positions(a, S) : Least(Positions(a, S)) <= p
                /\ Most(Positions(a, S)) \in Positions(a, S)
                /\ \A p \in Positions(a, S) : Most(Positions(a, S)) >= p
<1>1. members[a] \in Seq(Own \cup Elsewhere)
  BY ArcsRead
<1>2. Len(members[a]) \in Nat /\ DOMAIN members[a] = 1..Len(members[a])
  BY <1>1
<1>3. \A p \in Positions(a, S) : p \in 1..Len(members[a]) /\ members[a][p] \in S
  BY <1>2 DEF Positions
<1>4. Positions(a, S) \in SUBSET Nat /\ \A p \in Positions(a, S) : p <= Len(members[a])
  BY <1>2, <1>3
<1> QED
  BY <1>2, <1>3, <1>4, LeastIs, MostIs

LEMMA OrderIrreflexive ==
    ASSUME volume \in VolumePages
    PROVE  \A i \in Own : ~ComesBefore(i, i)
<1> DEFINE N == Cardinality(Own)
           s == volume.order
<1>1. s \in [1..N -> Own] /\ ToSet(s) = Own
  BY VolumePageAssumption DEF Volume
<1>2. N \in Nat /\ IsFiniteSet(1..N) /\ Cardinality(1..N) = N
  BY VolumePageAssumption, FS_CardinalityType, FS_Interval
<1> HIDE DEF s
<1>3. s \in Surjection(1..N, Own)
  BY <1>1 DEF Surjection, ToSet
<1>4. s \in Injection(1..N, Own)
  BY <1>2, <1>3, FS_SurjSameCardinalityImpliesInj
<1>5. \A m, n \in 1..N : s[m] = s[n] => m = n
  BY <1>1, <1>4 DEF Injection, IsInjective
<1>6. ASSUME NEW m \in 1..N, NEW n \in 1..N, m < n PROVE s[m] # s[n]
  BY <1>2, <1>5, <1>6
<1>7. DOMAIN s = 1..N
  BY <1>1
<1> QED
  BY <1>6, <1>7 DEF ComesBefore, s

\* Opening a page keeps the order: the issues are those the filter leaves, once each.
LEMMA Opened ==
    ASSUME PageOK, NEW filter \in {Own, volume.credited}, OpenVolume(filter)
    PROVE  /\ issues' \in Seq(Own)
           /\ \A m, n \in DOMAIN issues' : issues'[m] = issues'[n] => m = n
           /\ unasked' \subseteq Arcs
<1>1. volume \in VolumePages
  BY DEF PageOK, VolumePageTypes
<1>2. filter \subseteq Own /\ IsFiniteSet(filter)
  BY <1>1, VolumeParts, VolumePageAssumption, FS_Subset
<1>3. Cardinality(filter) \in Nat
  BY <1>2, FS_CardinalityType
<1> DEFINE N == Cardinality(filter)
<1>4. /\ issues' \in [1..N -> filter]
      /\ \A m, n \in DOMAIN issues' : m < n => ComesBefore(issues'[m], issues'[n])
  BY DEF OpenVolume
<1> HIDE DEF N
<1>5. issues' \in Seq(Own) /\ DOMAIN issues' \subseteq Nat
  BY <1>2, <1>3, <1>4 DEF N
<1>6. \A i \in Own : ~ComesBefore(i, i)
  BY <1>1, OrderIrreflexive
<1>7. ASSUME NEW m \in 1..N, NEW n \in 1..N, m < n PROVE issues'[m] # issues'[n]
  <2>1. issues'[m] \in Own
    BY <1>2, <1>4
  <2>2. DOMAIN issues' = 1..N
    BY <1>4
  <2>3. ComesBefore(issues'[m], issues'[n])
    BY <1>4, <1>7, <2>2
  <2> QED
    BY <1>6, <2>1, <2>3
<1>8. N \in Nat
  BY <1>3 DEF N
<1>9. ASSUME NEW m \in 1..N, NEW n \in 1..N, issues'[m] = issues'[n] PROVE m = n
  <2>1. ~(m < n) /\ ~(n < m)
    BY <1>7, <1>9
  <2> QED
    BY <1>8, <2>1
<1>10. unasked' \subseteq Arcs
  BY <1>1, <1>2, VolumeParts DEF OpenVolume
<1>11. DOMAIN issues' = 1..N
  BY <1>4
<1> QED
  BY <1>5, <1>9, <1>10, <1>11

\* Where a page opens and scrolls to holds at least one issue, unless it begins where
\* they end.
LEMMA WindowRight ==
    ASSUME PageOK, NEW lo \in Nat, lo <= Len(issues), NEW size \in Nat \ {0}
    PROVE  /\ WindowFrom(lo, size).lo = lo /\ WindowFrom(lo, size).hi \in Nat
           /\ lo < WindowFrom(lo, size).hi \/ lo = Len(issues)
           /\ lo <= WindowFrom(lo, size).hi /\ WindowFrom(lo, size).hi <= Len(issues)
<1>1. Len(issues) \in Nat
  BY IssuesRead
<1> QED
  BY <1>1 DEF WindowFrom

LEMMA TargetRight ==
    ASSUME PageOK, issues # <<>>, NEW from
    PROVE  Target(from) \in 1..Len(issues)
<1>1. /\ Len(issues) \in Nat /\ DOMAIN issues = 1..Len(issues) /\ Len(issues) > 0
      /\ \A i \in Shown : IndexOf(i) \in DOMAIN issues
  BY IssuesRead
<1> DEFINE S == {IndexOf(i) : i \in Shown \cap volume.owned}
<1>2. CASE from \in Shown
  BY <1>1, <1>2 DEF Target
<1>3. CASE from \notin Shown /\ Shown \cap volume.owned = {}
  BY <1>1, <1>3 DEF Target
<1>4. CASE from \notin Shown /\ Shown \cap volume.owned # {}
  <2>1. S \subseteq 1..Len(issues) /\ S # {}
    BY <1>1, <1>4
  <2>2. Target(from) = Least(S)
    BY <1>4 DEF Target
  <2> HIDE DEF S
  <2>3. S \in SUBSET Nat
    BY <1>1, <2>1
  <2>4. Least(S) \in S
    BY <2>1, <2>3, LeastIs
  <2> QED
    BY <2>1, <2>2, <2>4
<1> QED
  BY <1>2, <1>3, <1>4

LEMMA Paged ==
    ASSUME NEW n \in Nat, NEW size \in Nat \ {0}
    PROVE  (n \div size) * size \in Nat /\ (n \div size) * size <= n
<1>1. n \div size \in Nat
  BY SMT
<1>2. n = size * (n \div size) + (n % size) /\ n % size \in 0..(size - 1)
  BY SMT
<1>3. size * (n \div size) = (n \div size) * size
  BY <1>1, SMT
<1>4. (n \div size) * size \in Nat
  BY <1>1, SMT
<1> QED
  BY <1>2, <1>3, <1>4, SMT

LEMMA PageOKInit ==
    ASSUME VolumePageInit
    PROVE  PageOK
BY DEF VolumePageInit, PageOK, VolumePageTypes, IsInjective

LEMMA PageOKStep ==
    ASSUME PageOK, [VolumePageNext]_pageVars
    PROVE  PageOK'
<1>1. /\ volume \in VolumePages /\ issues \in Seq(Own) /\ IsInjective(issues)
      /\ unasked \subseteq Arcs /\ DOMAIN members \subseteq Arcs
      /\ \/ window = Unopened
         \/ /\ issues # <<>>
            /\ window.lo < window.hi \/ window.lo = Len(issues)
            /\ window.lo <= window.hi /\ window.hi <= Len(issues)
      /\ \A a \in DOMAIN members : members[a] = volume.reads[a]
      /\ window # Unopened => window.lo \in Nat /\ window.hi \in Nat
  BY DEF PageOK, VolumePageTypes
<1>2. ASSUME NEW filter \in {Own, volume.credited}, OpenVolume(filter) PROVE PageOK'
  <2>1. window = Unopened
    <3>1. Len(issues) = 0
      BY <1>2 DEF OpenVolume
    <3> QED
      BY <1>1, <3>1
  <2>2. UNCHANGED <<volume, members, window>>
    BY <1>2 DEF OpenVolume
  <2>3. issues' \in Seq(Own) /\ IsInjective(issues') /\ unasked' \subseteq Arcs
    BY <1>2, Opened DEF IsInjective
  <2> QED
    BY <1>1, <2>1, <2>2, <2>3 DEF PageOK, VolumePageTypes
<1>3. ASSUME NEW a \in Arcs, NEW ok \in BOOLEAN, GetStoryArc(a, ok) PROVE PageOK'
  <2>1. /\ UNCHANGED <<volume, issues, window>> /\ unasked' \subseteq Arcs
        /\ members' = IF ok THEN [b \in DOMAIN members \cup {a} |-> volume.reads[b]]
                      ELSE members
    BY <1>1, <1>3 DEF GetStoryArc
  <2>2. DOMAIN members' \subseteq Arcs /\ \A b \in DOMAIN members' : members'[b] = volume.reads[b]
    BY <1>1, <2>1
  <2> QED
    BY <1>1, <2>1, <2>2 DEF PageOK, VolumePageTypes
<1>4. ASSUME issues # <<>>, NEW lo \in Nat, lo <= Len(issues), NEW size \in Nat \ {0},
             window' = WindowFrom(lo, size), UNCHANGED <<volume, issues, unasked, members>>
      PROVE  PageOK'
  <2>1. /\ window'.lo = lo /\ window'.hi \in Nat
        /\ lo < window'.hi \/ lo = Len(issues)
        /\ lo <= window'.hi /\ window'.hi <= Len(issues)
    BY <1>4, WindowRight
  <2> QED
    BY <1>1, <1>4, <2>1 DEF PageOK, VolumePageTypes
<1>5. ASSUME NEW from \in Own \cup Elsewhere, Land(from) PROVE PageOK'
  <2> DEFINE t == Target(from)
             lo == ((t - 1) \div PageSize) * PageSize
  <2>1. t \in 1..Len(issues) /\ Len(issues) \in Nat
    BY <1>1, <1>5, TargetRight DEF Land
  <2>2. PageSize \in Nat \ {0}
    BY VolumePageAssumption
  <2>3. window' = WindowFrom(lo, PageSize) /\ UNCHANGED <<volume, issues, unasked, members>>
    BY <1>5 DEF Land
  <2> HIDE DEF t
  <2>4. t - 1 \in Nat
    BY <2>1
  <2>5. lo \in Nat /\ lo <= t - 1
    BY <2>2, <2>4, Paged
  <2> HIDE DEF lo
  <2>6. lo <= Len(issues)
    BY <2>1, <2>5
  <2> QED
    BY <1>4, <1>5, <2>2, <2>3, <2>5, <2>6 DEF Land
<1>6. ASSUME NEW lo \in 0..Len(issues), NEW size \in 1..Len(issues), Scroll(lo, size)
      PROVE  PageOK'
  <2>1. lo \in Nat /\ lo <= Len(issues) /\ size \in Nat \ {0}
    BY <1>1
  <2>2. issues # <<>>
    BY <1>1, <1>6 DEF Scroll
  <2> QED
    BY <1>4, <2>2, <1>6, <2>1 DEF Scroll
<1>7. CASE UNCHANGED pageVars
  BY <1>1, <1>7 DEF pageVars, PageOK, VolumePageTypes
<1> QED
  BY <1>2, <1>3, <1>5, <1>6, <1>7 DEF VolumePageNext

LEMMA PageOKHolds == VolumePageSpec => []PageOK
<1> QED
  BY PageOKInit, PageOKStep, PTL DEF VolumePageSpec

\* The page, the arcs read and the window keep their types, and the window ends
\* no later than the issues and is empty only where they end, for any volume, arcs and
\* page size.
THEOREM VolumePageTyped == VolumePageSpec => []VolumePageTypes
<1>1. PageOK => VolumePageTypes
  BY DEF PageOK
<1> QED
  BY <1>1, PageOKHolds, PTL

(* ---- a volume's page: shelves and arrows ---- *)

LEMMA RowsAndArcs ==
    ASSUME PageOK
    PROVE  /\ Len(issues) \in Nat /\ DOMAIN issues = 1..Len(issues)
           /\ \A n \in DOMAIN issues : issues[n] \in Own /\ issues[n] \in Shown
           /\ \A a \in ReadArcs : /\ Len(members[a]) \in Nat
                                 /\ DOMAIN members[a] = 1..Len(members[a])
                                 /\ \A p \in DOMAIN members[a] :
                                       /\ members[a][p] \in Own \cup Elsewhere
                                       /\ members[a][p] \in ToSet(members[a])
<1>1. issues \in Seq(Own)
  BY IssuesRead
<1>2. \A a \in ReadArcs : members[a] \in Seq(Own \cup Elsewhere)
  BY ArcsRead
<1> QED
  BY <1>1, <1>2 DEF Shown, ToSet

\* Between neighbours of one shelf an arc goes on without a break: if it lists one of
\* them it lists the other, next to it.
LEMMA ShelfGoesOn ==
    ASSUME PageOK, NEW n \in DOMAIN issues, n > 1, ~BeginsShelf(n), NEW a \in ReadArcs,
           Complete(a), {issues[n - 1], issues[n]} \cap ToSet(members[a]) # {}
    PROVE  /\ {issues[n - 1], issues[n]} \subseteq ToSet(members[a])
           /\ Position(a, issues[n]) = Position(a, issues[n - 1]) + 1
<1> DEFINE i == issues[n]
           h == issues[n - 1]
<1>1. n \in DOMAIN issues /\ n - 1 \in DOMAIN issues
  BY RowsAndArcs
<1>2. /\ CreditsOf(i) = CreditsOf(h)
      /\ \A b \in CreditsOf(i) \cap ReadArcs :
            {h, i} \subseteq ToSet(members[b]) => Position(b, i) = Position(b, h) + 1
  BY DEF BeginsShelf
<1>3. i \in Shown /\ h \in Shown
  BY <1>1, RowsAndArcs
<1> HIDE DEF i, h
<1>4. ASSUME NEW g \in Shown, a \in CreditsOf(g) PROVE g \in ToSet(members[a])
  BY <1>4 DEF CreditsOf, Complete
<1>5. ASSUME NEW g, g \in ToSet(members[a]) PROVE a \in CreditsOf(g)
  BY <1>5 DEF CreditsOf
<1>6. h \in ToSet(members[a]) \/ i \in ToSet(members[a])
  BY DEF h, i
<1>7. a \in CreditsOf(i) /\ a \in CreditsOf(h)
  BY <1>2, <1>5, <1>6
<1>8. {h, i} \subseteq ToSet(members[a])
  BY <1>3, <1>4, <1>7
<1>9. Position(a, i) = Position(a, h) + 1
  BY <1>2, <1>7, <1>8
<1> QED
  BY <1>8, <1>9 DEF h, i

\* Who follows an arc that lists its issues finds its next one next or behind an arrow.
LEMMA NextFound ==
    ASSUME PageOK, NEW a \in ReadArcs, Complete(a), NEW n \in DOMAIN issues,
           issues[n] \in ToSet(members[a]), Position(a, issues[n]) < Len(members[a])
    PROVE  \/ n < Len(issues) /\ issues[n + 1] = members[a][Position(a, issues[n]) + 1]
           \/ <<n, a, members[a][Position(a, issues[n]) + 1]>> \in NextLinks
<1> DEFINE p == Position(a, issues[n])
           j == members[a][p + 1]
<1>1. p \in 1..Len(members[a]) /\ Len(members[a]) \in Nat /\ members[a][p] = issues[n]
  BY PositionRight, RowsAndArcs
<1>2. p + 1 \in DOMAIN members[a] /\ j \in Own \cup Elsewhere
  <2>1. p + 1 \in 1..Len(members[a])
    BY <1>1
  <2> QED
    BY <2>1, RowsAndArcs
<1>3. n \in 1..Len(issues) /\ Len(issues) \in Nat
  BY RowsAndArcs
<1>4. SUFFICES ASSUME ~(n < Len(issues) /\ issues[n + 1] = j)
               PROVE  <<n, a, j>> \in NextLinks
  OBVIOUS
<1>5. n \in Ends
  <2>1. CASE n = Len(issues)
    BY <2>1 DEF Ends
  <2>2. CASE n # Len(issues)
    <3>1. n + 1 \in DOMAIN issues /\ n + 1 > 1 /\ (n + 1) - 1 = n
      BY <1>3, <2>2, RowsAndArcs
    <3>2. issues[n + 1] # j
      BY <1>3, <1>4, <2>2
    <3>3. ASSUME ~BeginsShelf(n + 1) PROVE FALSE
      <4>1. {issues[n], issues[n + 1]} \cap ToSet(members[a]) # {}
        OBVIOUS
      <4>2. /\ issues[n + 1] \in ToSet(members[a])
            /\ Position(a, issues[n + 1]) = p + 1
        BY <3>1, <3>3, <4>1, ShelfGoesOn
      <4>3. members[a][Position(a, issues[n + 1])] = issues[n + 1]
        BY <4>2, PositionRight
      <4> QED
        BY <3>2, <4>2, <4>3
    <3> QED
      BY <3>1, <3>3 DEF Ends, Starts
  <2> QED
    BY <2>1, <2>2
<1> HIDE DEF j
<1>6. <<n, a, j>> \in Ends \X ReadArcs \X (Own \cup Elsewhere)
  BY <1>2, <1>5
<1> QED
  BY <1>4, <1>6 DEF NextLinks, j

LEMMA PrevFound ==
    ASSUME PageOK, NEW a \in ReadArcs, Complete(a), NEW n \in DOMAIN issues,
           issues[n] \in ToSet(members[a]), Position(a, issues[n]) > 1
    PROVE  \/ n > 1 /\ issues[n - 1] = members[a][Position(a, issues[n]) - 1]
           \/ <<n, a, members[a][Position(a, issues[n]) - 1]>> \in PrevLinks
<1> DEFINE p == Position(a, issues[n])
           j == members[a][p - 1]
<1>1. p \in 1..Len(members[a]) /\ Len(members[a]) \in Nat /\ members[a][p] = issues[n]
  BY PositionRight, RowsAndArcs
<1>2. p - 1 \in DOMAIN members[a] /\ j \in Own \cup Elsewhere
  <2>1. p - 1 \in 1..Len(members[a])
    BY <1>1
  <2> QED
    BY <2>1, RowsAndArcs
<1>3. n \in 1..Len(issues) /\ Len(issues) \in Nat
  BY RowsAndArcs
<1>4. SUFFICES ASSUME ~(n > 1 /\ issues[n - 1] = j)
               PROVE  <<n, a, j>> \in PrevLinks
  OBVIOUS
<1>5. n \in Starts
  <2>1. CASE n = 1
    BY <2>1 DEF Starts, BeginsShelf
  <2>2. CASE n # 1
    <3>1. n - 1 \in DOMAIN issues /\ n > 1
      BY <1>3, <2>2, RowsAndArcs
    <3>2. issues[n - 1] # j
      BY <1>4, <3>1
    <3>3. ASSUME ~BeginsShelf(n) PROVE FALSE
      <4>1. {issues[n - 1], issues[n]} \cap ToSet(members[a]) # {}
        OBVIOUS
      <4>2. /\ issues[n - 1] \in ToSet(members[a])
            /\ p = Position(a, issues[n - 1]) + 1
        BY <3>1, <3>3, <4>1, ShelfGoesOn
      <4>3. /\ members[a][Position(a, issues[n - 1])] = issues[n - 1]
            /\ Position(a, issues[n - 1]) \in Nat
        BY <4>2, PositionRight, RowsAndArcs
      <4>4. Position(a, issues[n - 1]) = p - 1
        BY <1>1, <4>2, <4>3
      <4> QED
        BY <3>2, <4>3, <4>4
    <3> QED
      BY <3>3 DEF Starts
  <2> QED
    BY <2>1, <2>2
<1> HIDE DEF j
<1>6. <<n, a, j>> \in Starts \X ReadArcs \X (Own \cup Elsewhere)
  BY <1>2, <1>5
<1> QED
  BY <1>4, <1>6 DEF PrevLinks, j

\* The arrows of a list and of an arc's shelf lead off the page, so they are arrows of
\* the shelves too.
LEMMA ListArrows ==
    ASSUME PageOK, NEW link, Complete(link[2])
    PROVE  /\ link \in RowNextLinks => link \in NextLinks
           /\ link \in RowPrevLinks => link \in PrevLinks
<1>1. ASSUME link \in RowNextLinks PROVE link \in NextLinks
  <2> DEFINE n == link[1]
             a == link[2]
             j == link[3]
  <2>0. /\ link \in (DOMAIN issues) \X ReadArcs \X ((Own \cup Elsewhere) \ Shown)
        /\ \E p \in Positions(a, {issues[n]}) : p < Len(members[a]) /\ j = members[a][p + 1]
    BY <1>1, Zenon DEF RowNextLinks
  <2>1. n \in DOMAIN issues /\ a \in ReadArcs /\ j \notin Shown /\ link = <<n, a, j>>
    BY <2>0
  <2> HIDE DEF n, a, j
  <2>2. PICK p \in Positions(a, {issues[n]}) : p < Len(members[a]) /\ j = members[a][p + 1]
    BY <2>0
  <2>3. p \in DOMAIN members[a] /\ members[a][p] = issues[n]
    BY <2>2 DEF Positions
  <2>4. issues[n] \in ToSet(members[a])
    BY <2>1, <2>3, RowsAndArcs
  <2>5. p = Position(a, issues[n])
    BY <2>1, <2>3, <2>4, PositionRight
  <2>6. n < Len(issues) => issues[n + 1] # j
    <3>1. n < Len(issues) => n + 1 \in DOMAIN issues
      BY <2>1, RowsAndArcs
    <3> QED
      BY <2>1, <3>1, RowsAndArcs
  <2>7. Complete(a)
    BY DEF a
  <2> QED
    BY <2>1, <2>2, <2>4, <2>5, <2>6, <2>7, NextFound
<1>2. ASSUME link \in RowPrevLinks PROVE link \in PrevLinks
  <2> DEFINE n == link[1]
             a == link[2]
             j == link[3]
  <2>0. /\ link \in (DOMAIN issues) \X ReadArcs \X ((Own \cup Elsewhere) \ Shown)
        /\ \E p \in Positions(a, {issues[n]}) : p > 1 /\ j = members[a][p - 1]
    BY <1>2, Zenon DEF RowPrevLinks
  <2>1. n \in DOMAIN issues /\ a \in ReadArcs /\ j \notin Shown /\ link = <<n, a, j>>
    BY <2>0
  <2> HIDE DEF n, a, j
  <2>2. PICK p \in Positions(a, {issues[n]}) : p > 1 /\ j = members[a][p - 1]
    BY <2>0
  <2>3. p \in DOMAIN members[a] /\ members[a][p] = issues[n]
    BY <2>2 DEF Positions
  <2>4. issues[n] \in ToSet(members[a])
    BY <2>1, <2>3, RowsAndArcs
  <2>5. p = Position(a, issues[n])
    BY <2>1, <2>3, <2>4, PositionRight
  <2>6. n > 1 => issues[n - 1] # j
    <3>1. n > 1 => n - 1 \in DOMAIN issues
      BY <2>1, RowsAndArcs
    <3> QED
      BY <2>1, <3>1, RowsAndArcs
  <2>7. Complete(a)
    BY DEF a
  <2> QED
    BY <2>1, <2>2, <2>4, <2>5, <2>6, <2>7, PrevFound
<1> QED
  BY <1>1, <1>2

LEMMA ArcArrows ==
    ASSUME PageOK, NEW link, Complete(link[2])
    PROVE  /\ link \in ArcNextLinks => link \in NextLinks
           /\ link \in ArcPrevLinks => link \in PrevLinks
<1>1. ASSUME link \in ArcNextLinks PROVE link \in NextLinks
  <2> DEFINE n == link[1]
             a == link[2]
             j == link[3]
             p == Most(Positions(a, Shown))
  <2>0. /\ link \in (DOMAIN issues) \X ArcShelves \X (Own \cup Elsewhere)
        /\ issues[n] = members[a][p] /\ p < Len(members[a]) /\ j = members[a][p + 1]
    BY <1>1, Zenon DEF ArcNextLinks
  <2>1. /\ n \in DOMAIN issues /\ a \in ReadArcs /\ Positions(a, Shown) # {}
        /\ link = <<n, a, j>>
    BY <2>0 DEF ArcShelves
  <2>2. Complete(a)
    BY DEF a
  <2> HIDE DEF n, a, j
  <2>3. /\ p \in Positions(a, Shown) /\ \A r \in Positions(a, Shown) : p >= r
        /\ p \in 1..Len(members[a]) /\ Len(members[a]) \in Nat
    BY <2>1, PositionsBounded
  <2>4. p \in DOMAIN members[a] /\ p + 1 \in DOMAIN members[a]
    <3>1. p + 1 \in 1..Len(members[a])
      BY <2>0, <2>3
    <3> QED
      BY <2>1, <2>3, <3>1, RowsAndArcs
  <2>5. issues[n] \in ToSet(members[a])
    BY <2>0, <2>1, <2>4, RowsAndArcs
  <2>6. p = Position(a, issues[n])
    BY <2>0, <2>1, <2>4, <2>5, PositionRight
  <2>7. j \notin Shown
    <3>1. SUFFICES ASSUME j \in Shown PROVE FALSE
      OBVIOUS
    <3>2. p + 1 \in Positions(a, Shown)
      BY <2>0, <2>4, <3>1 DEF Positions
    <3>3. p >= p + 1
      BY <2>3, <3>2
    <3> QED
      BY <2>3, <3>3
  <2> HIDE DEF p
  <2>8. n < Len(issues) => issues[n + 1] # j
    <3>1. n < Len(issues) => n + 1 \in DOMAIN issues
      BY <2>1, RowsAndArcs
    <3> QED
      BY <2>1, <2>7, <3>1, RowsAndArcs
  <2> QED
    BY <2>0, <2>1, <2>2, <2>5, <2>6, <2>8, NextFound
<1>2. ASSUME link \in ArcPrevLinks PROVE link \in PrevLinks
  <2> DEFINE n == link[1]
             a == link[2]
             j == link[3]
             p == Least(Positions(a, Shown))
  <2>0. /\ link \in (DOMAIN issues) \X ArcShelves \X (Own \cup Elsewhere)
        /\ issues[n] = members[a][p] /\ p > 1 /\ j = members[a][p - 1]
    BY <1>2, Zenon DEF ArcPrevLinks
  <2>1. /\ n \in DOMAIN issues /\ a \in ReadArcs /\ Positions(a, Shown) # {}
        /\ link = <<n, a, j>>
    BY <2>0 DEF ArcShelves
  <2>2. Complete(a)
    BY DEF a
  <2> HIDE DEF n, a, j
  <2>3. /\ p \in Positions(a, Shown) /\ \A r \in Positions(a, Shown) : p <= r
        /\ p \in 1..Len(members[a]) /\ Len(members[a]) \in Nat
    BY <2>1, PositionsBounded
  <2>4. p \in DOMAIN members[a] /\ p - 1 \in DOMAIN members[a]
    <3>1. p - 1 \in 1..Len(members[a])
      BY <2>0, <2>3
    <3> QED
      BY <2>1, <2>3, <3>1, RowsAndArcs
  <2>5. issues[n] \in ToSet(members[a])
    BY <2>0, <2>1, <2>4, RowsAndArcs
  <2>6. p = Position(a, issues[n])
    BY <2>0, <2>1, <2>4, <2>5, PositionRight
  <2>7. j \notin Shown
    <3>1. SUFFICES ASSUME j \in Shown PROVE FALSE
      OBVIOUS
    <3>2. p - 1 \in Positions(a, Shown)
      BY <2>0, <2>4, <3>1 DEF Positions
    <3>3. p <= p - 1
      BY <2>3, <3>2
    <3> QED
      BY <2>3, <3>3
  <2> HIDE DEF p
  <2>8. n > 1 => issues[n - 1] # j
    <3>1. n > 1 => n - 1 \in DOMAIN issues
      BY <2>1, RowsAndArcs
    <3> QED
      BY <2>1, <2>7, <3>1, RowsAndArcs
  <2> QED
    BY <2>0, <2>1, <2>2, <2>5, <2>6, <2>8, PrevFound
<1> QED
  BY <1>1, <1>2

\* Who has an arrow is on an arc's shelf.
LEMMA ArrowsAffiliated ==
    ASSUME PageOK, NEW link \in NextLinks \cup PrevLinks
    PROVE  issues[link[1]] \notin Unaffiliated
<1> DEFINE n == link[1]
           a == link[2]
<1>1. /\ link \in Ends \X ReadArcs \X (Own \cup Elsewhere)
         \/ link \in Starts \X ReadArcs \X (Own \cup Elsewhere)
      /\ issues[n] \in ToSet(members[a])
  <2>1. CASE link \in NextLinks
    BY <2>1, Zenon DEF NextLinks
  <2>2. CASE link \in PrevLinks
    BY <2>2, Zenon DEF PrevLinks
  <2> QED
    BY <2>1, <2>2
<1>2. n \in DOMAIN issues /\ a \in ReadArcs
  BY <1>1 DEF Ends, Starts
<1> HIDE DEF n, a
<1>3. issues[n] \in Shown
  BY <1>2, RowsAndArcs
<1>4. Positions(a, Shown) # {}
  <2>1. PICK p \in DOMAIN members[a] : members[a][p] = issues[n]
    BY <1>1, Zenon DEF ToSet
  <2> QED
    BY <1>3, <2>1 DEF Positions
<1>5. issues[n] \notin Unaffiliated
  BY <1>1, <1>2, <1>4 DEF Unaffiliated, ArcShelves
<1> QED
  BY <1>5 DEF n

LEMMA NoStepLostWhen ==
    ASSUME PageOK
    PROVE  NoStepLost
<1>1. \A link \in RowNextLinks \cup ArcNextLinks : Complete(link[2]) => link \in NextLinks
  BY ListArrows, ArcArrows
<1>2. \A link \in RowPrevLinks \cup ArcPrevLinks : Complete(link[2]) => link \in PrevLinks
  BY ListArrows, ArcArrows
<1>3. \A link \in NextLinks \cup PrevLinks : issues[link[1]] \notin Unaffiliated
  BY ArrowsAffiliated
<1>4. ASSUME NEW a \in ReadArcs, NEW n \in DOMAIN issues,
             Complete(a), issues[n] \in ToSet(members[a])
      PROVE  LET p == Position(a, issues[n])
             IN  /\ p < Len(members[a]) =>
                       \/ n < Len(issues) /\ issues[n + 1] = members[a][p + 1]
                       \/ <<n, a, members[a][p + 1]>> \in NextLinks
                 /\ p > 1 =>
                       \/ n > 1 /\ issues[n - 1] = members[a][p - 1]
                       \/ <<n, a, members[a][p - 1]>> \in PrevLinks
  BY <1>4, NextFound, PrevFound
<1> QED
  BY <1>1, <1>2, <1>3, <1>4, Zenon DEF NoStepLost

\* Whatever arcs ComicVine lists, in whichever order, and whichever of them can be
\* read: no step of an arc that lists the page's issues is lost.
THEOREM NoStepLostHolds == VolumePageSpec => []NoStepLost
<1> QED
  BY NoStepLostWhen, PageOKHolds, PTL

(* ---- a volume's page: rails ---- *)

\* A rail that can be drawn: finitely many lines, each with rows from first to last.
RailOK(rail) ==
    /\ IsFiniteSet(DOMAIN rail.first) /\ DOMAIN rail.first \subseteq Nat
    /\ \A a \in DOMAIN rail.first : /\ rail.first[a] \in Nat /\ rail.last[a] \in Nat
                                   /\ rail.first[a] <= rail.last[a]

DrawnOrder(rail) ==
    {p \in (DOMAIN rail.first) \X (DOMAIN rail.first) : DrawnBefore(rail, p[1], p[2])}

LEMMA DrawnInOrder ==
    ASSUME NEW rail, RailOK(rail)
    PROVE  /\ \A a, b \in DOMAIN rail.first :
                 <<a, b>> \in DrawnOrder(rail) <=> DrawnBefore(rail, a, b)
           /\ \A a \in DOMAIN rail.first : ~DrawnBefore(rail, a, a)
           /\ \A a, b, c \in DOMAIN rail.first :
                 DrawnBefore(rail, a, b) /\ DrawnBefore(rail, b, c) => DrawnBefore(rail, a, c)
           /\ \A a, b \in DOMAIN rail.first :
                 a # b /\ (a \in rail.left <=> b \in rail.left)
                 => DrawnBefore(rail, a, b) \/ DrawnBefore(rail, b, a)
           /\ \A a, b \in DOMAIN rail.first :
                 DrawnBefore(rail, a, b) => (a \in rail.left <=> b \in rail.left)
<1> DEFINE D == DOMAIN rail.first
           low(a, b) == rail.first[a] < rail.first[b] \/ (rail.first[a] = rail.first[b] /\ a < b)
<1>1. \A a \in D : a \in Nat /\ rail.first[a] \in Nat
  BY DEF RailOK
<1>2. \A a, b \in D : DrawnBefore(rail, a, b) <=> (a \in rail.left <=> b \in rail.left) /\ low(a, b)
  BY Zenon DEF DrawnBefore
<1>3. \A a \in D : ~low(a, a)
  BY <1>1
<1>4. \A a, b, c \in D : low(a, b) /\ low(b, c) => low(a, c)
  BY <1>1
<1>5. \A a, b \in D : a # b => low(a, b) \/ low(b, a)
  BY <1>1
<1>6. \A a, b \in D : <<a, b>> \in DrawnOrder(rail) <=> DrawnBefore(rail, a, b)
  BY DEF DrawnOrder
<1> HIDE DEF low, D
<1>7. \A a \in D : ~DrawnBefore(rail, a, a)
  BY <1>2, <1>3, Zenon
<1>8. \A a, b, c \in D : DrawnBefore(rail, a, b) /\ DrawnBefore(rail, b, c)
                         => DrawnBefore(rail, a, c)
  BY <1>2, <1>4, Zenon
<1>9. \A a, b \in D : a # b /\ (a \in rail.left <=> b \in rail.left)
                      => DrawnBefore(rail, a, b) \/ DrawnBefore(rail, b, a)
  BY <1>2, <1>5, Zenon
<1>10. \A a, b \in D : DrawnBefore(rail, a, b) => (a \in rail.left <=> b \in rail.left)
  BY <1>2, Zenon
<1> QED
  BY <1>6, <1>7, <1>8, <1>9, <1>10, Zenon DEF D

\* The lane a line takes depends on those drawn before it only.
LEMMA SameLane ==
    ASSUME NEW rail, NEW f, NEW g, NEW a,
           \A b \in DOMAIN rail.first : DrawnBefore(rail, b, a) => f[b] = g[b]
    PROVE  FirstFree(rail, f, a) = FirstFree(rail, g, a)
<1>1. ASSUME NEW l PROVE Free(rail, f, a, l) <=> Free(rail, g, a, l)
  BY Zenon DEF Free
<1>2. {l \in 0..Cardinality(DOMAIN rail.first) : Free(rail, f, a, l)}
        = {l \in 0..Cardinality(DOMAIN rail.first) : Free(rail, g, a, l)}
  BY <1>1
<1> QED
  BY <1>2, Zenon DEF FirstFree

\* So lanes can be given line by line.
LEMMA LanesExist ==
    ASSUME NEW rail, RailOK(rail)
    PROVE  LanesOf(rail) = [a \in DOMAIN rail.first |-> FirstFree(rail, LanesOf(rail), a)]
<1> DEFINE D == DOMAIN rail.first
           Laid(A, f) == f = [a \in A |-> FirstFree(rail, f, a)]
           Heads == {A \in SUBSET D : /\ \A x \in D \ A, y \in A : ~DrawnBefore(rail, x, y)
                                      /\ \E f : Laid(A, f)}
<1>0. /\ IsFiniteSet(D)
      /\ \A a, b \in D : <<a, b>> \in DrawnOrder(rail) <=> DrawnBefore(rail, a, b)
      /\ \A a \in D : ~DrawnBefore(rail, a, a)
      /\ \A a, b, c \in D :
            DrawnBefore(rail, a, b) /\ DrawnBefore(rail, b, c) => DrawnBefore(rail, a, c)
  BY DrawnInOrder DEF RailOK
<1>1. {} \in Heads
  <2>1. Laid({}, [a \in {} |-> a])
    OBVIOUS
  <2> QED
    BY <2>1
<1>2. ASSUME NEW A \in Heads, A # D PROVE \E x \in D \ A : A \cup {x} \in Heads
  <2> HIDE DEF D
  <2>1. A \in SUBSET D /\ \A x \in D \ A, y \in A : ~DrawnBefore(rail, x, y)
    BY DEF Heads
  <2>2. PICK f : Laid(A, f)
    BY DEF Heads
  <2>3. IsFiniteSet(D \ A) /\ D \ A # {}
    BY <1>0, <1>2, <2>1, FS_Difference
  <2>4. PICK x \in D \ A : \A y \in D \ A : ~DrawnBefore(rail, y, x)
    <3>1. \A y \in D \ A : <<y, y>> \notin DrawnOrder(rail)
      BY <1>0
    <3>2. \A y, z, w \in D \ A : <<y, z>> \in DrawnOrder(rail) /\ <<z, w>> \in DrawnOrder(rail)
                                 => <<y, w>> \in DrawnOrder(rail)
      BY <1>0
    <3>3. \E x \in D \ A : \A y \in D \ A : <<y, x>> \notin DrawnOrder(rail)
      BY <2>3, <3>1, <3>2, FirstOfMany
    <3> QED
      BY <1>0, <3>3
  <2> DEFINE B == A \cup {x}
             g == [a \in B |-> IF a = x THEN FirstFree(rail, f, x) ELSE f[a]]
  <2>5. \A a \in A : g[a] = f[a]
    BY <2>4
  <2>6. \A a \in B, b \in D : DrawnBefore(rail, b, a) => b \in A
    BY <1>0, <2>1, <2>4
  <2>7. \A a \in A : f[a] = FirstFree(rail, f, a)
    BY <2>2
  <2>8. g[x] = FirstFree(rail, f, x)
    OBVIOUS
  <2>9. g = [a \in B |-> g[a]]
    OBVIOUS
  <2> HIDE DEF g, Laid
  <2>10. ASSUME NEW a \in B PROVE g[a] = FirstFree(rail, g, a)
    <3>1. \A b \in D : DrawnBefore(rail, b, a) => f[b] = g[b]
      BY <2>5, <2>6
    <3>2. FirstFree(rail, f, a) = FirstFree(rail, g, a)
      BY ONLY <3>1, SameLane DEF D
    <3>3. g[a] = FirstFree(rail, f, a)
      BY <2>5, <2>7, <2>8
    <3> QED
      BY <3>2, <3>3
  <2>11. Laid(B, g)
    <3>1. [a \in B |-> g[a]] = [a \in B |-> FirstFree(rail, g, a)]
      BY <2>10
    <3> QED
      BY <2>9, <3>1, Zenon DEF Laid
  <2>12. \A y \in D \ B, z \in B : ~DrawnBefore(rail, y, z)
    BY <2>1, <2>4
  <2>13. B \in Heads
    BY <2>1, <2>4, <2>11, <2>12 DEF Heads
  <2> QED
    BY <2>13
<1>3. Heads \subseteq SUBSET D
  OBVIOUS
<1>4. D \in Heads
  <2> HIDE DEF Heads, D
  <2> QED
    BY <1>0, <1>1, <1>2, <1>3, GrowsToAll
<1>5. \E f : f = [a \in DOMAIN rail.first |-> FirstFree(rail, f, a)]
  BY <1>4
<1> QED
  BY <1>5, Zenon DEF LanesOf

\* There are more lanes than lines, so a line finds a free one.
LEMMA LaneFree ==
    ASSUME NEW rail, RailOK(rail), NEW a \in DOMAIN rail.first
    PROVE  /\ LanesOf(rail)[a] \in Nat
           /\ Free(rail, LanesOf(rail), a, LanesOf(rail)[a])
<1> DEFINE D == DOMAIN rail.first
           N == Cardinality(D)
           place == LanesOf(rail)
           S == {l \in 0..N : Free(rail, place, a, l)}
<1>1. place = [b \in D |-> FirstFree(rail, place, b)]
  BY LanesExist
<1>2. place[a] = Least(S)
  <2>1. place[a] = FirstFree(rail, place, a)
    BY <1>1
  <2> QED
    BY <2>1, Zenon DEF FirstFree
<1>3. IsFiniteSet(D) /\ N \in Nat
  BY FS_CardinalityType DEF RailOK
<1> HIDE DEF D, place
<1>4. S # {}
  <2>1. SUFFICES ASSUME S = {} PROVE FALSE
    OBVIOUS
  <2>2. ASSUME NEW l \in 0..N PROVE \E b \in D : place[b] = l
    <3>1. ~Free(rail, place, a, l)
      BY <2>1
    <3> QED
      BY <3>1, Zenon DEF Free, D
  <2> DEFINE f == [l \in 0..N |-> CHOOSE b \in D : place[b] = l]
  <2>3. ASSUME NEW l \in 0..N PROVE f[l] \in D /\ place[f[l]] = l
    BY <2>2
  <2> HIDE DEF f
  <2>4. f \in [0..N -> D]
    BY <2>3 DEF f
  <2>5. IsFiniteSet(0..N) /\ Cardinality(0..N) = N + 1
    BY <1>3, FS_Interval
  <2>6. Cardinality(D) < Cardinality(0..N)
    BY <1>3, <2>5
  <2>7. PICK k \in 0..N, l \in 0..N : k # l /\ f[k] = f[l]
    BY <1>3, <2>4, <2>5, <2>6, FS_PigeonHole
  <2> QED
    BY <2>3, <2>7
<1>5. S \in SUBSET Nat
  BY <1>3
<1>6. Least(S) \in S
  <2> HIDE DEF S
  <2> QED
    BY <1>4, <1>5, LeastIs
<1> QED
  BY <1>2, <1>3, <1>6 DEF place

\* Two lines of a lane share no row: the one drawn later begins below the end of the
\* other.
LEMMA LinesApart ==
    ASSUME NEW rail, RailOK(rail), NEW a \in DOMAIN rail.first, NEW b \in DOMAIN rail.first,
           DrawnBefore(rail, b, a), LanesOf(rail)[b] = LanesOf(rail)[a]
    PROVE  rail.last[b] < rail.first[a]
<1> DEFINE D == DOMAIN rail.first
           R == DrawnOrder(rail)
           place == LanesOf(rail)
           Ahead(x) == {y \in D : DrawnBefore(rail, y, x) /\ place[y] = place[x]}
           Bad == {x \in D : \E y \in Ahead(x) : ~(rail.last[y] < rail.first[x])}
<1>1. /\ IsFiniteSet(D)
      /\ \A x \in D : /\ rail.first[x] \in Nat /\ rail.last[x] \in Nat
                      /\ rail.first[x] <= rail.last[x]
  BY DEF RailOK
<1>2. /\ \A x, y \in D : <<x, y>> \in R <=> DrawnBefore(rail, x, y)
      /\ \A x \in D : ~DrawnBefore(rail, x, x)
      /\ \A x, y, z \in D :
            DrawnBefore(rail, x, y) /\ DrawnBefore(rail, y, z) => DrawnBefore(rail, x, z)
      /\ \A x, y \in D :
            x # y /\ (x \in rail.left <=> y \in rail.left)
            => DrawnBefore(rail, x, y) \/ DrawnBefore(rail, y, x)
      /\ \A x, y \in D : DrawnBefore(rail, x, y) => (x \in rail.left <=> y \in rail.left)
  BY DrawnInOrder
<1>3. \A x \in D : Free(rail, place, x, place[x])
  BY LaneFree
<1> HIDE DEF D, R, place
<1>4. \A x \in D : <<x, x>> \notin R
  BY <1>2
<1>5. \A x, y, z \in D : <<x, y>> \in R /\ <<y, z>> \in R => <<x, z>> \in R
  BY <1>2
<1>6. SUFFICES ASSUME Bad # {} PROVE FALSE
  BY DEF D, place
<1>7. PICK x \in Bad : \A y \in Bad : <<y, x>> \notin R
  <2>1. Bad \in SUBSET D
    OBVIOUS
  <2>2. IsFiniteSet(Bad)
    BY <1>1, <2>1, FS_Subset
  <2> HIDE DEF Bad
  <2>3. \A y \in Bad : <<y, y>> \notin R
    BY <1>4, <2>1
  <2>4. \A y, z, w \in Bad : <<y, z>> \in R /\ <<z, w>> \in R => <<y, w>> \in R
    BY <1>5, <2>1
  <2>5. \E x \in Bad : \A y \in Bad : <<y, x>> \notin R
    BY <1>6, <2>2, <2>3, <2>4, FirstOfMany
  <2> QED
    BY <2>5
<1>8. PICK y \in Ahead(x) : ~(rail.last[y] < rail.first[x])
  OBVIOUS
<1>9. PICK z \in Ahead(x) : \A w \in Ahead(x) : <<z, w>> \notin R
  <2> DEFINE U == Ahead(x)
  <2>1. U \in SUBSET D /\ U # {}
    BY <1>8
  <2>2. IsFiniteSet(U)
    BY <1>1, <2>1, FS_Subset
  <2> HIDE DEF U
  <2>3. \A w \in U : <<w, w>> \notin R
    BY <1>4, <2>1
  <2>4. \A u, v, w \in U : <<u, v>> \in R /\ <<v, w>> \in R => <<u, w>> \in R
    BY <1>5, <2>1
  <2>5. \E u \in U : \A w \in U : <<u, w>> \notin R
    BY <2>1, <2>2, <2>3, <2>4, LastOfMany
  <2> QED
    BY <2>5 DEF U
<1>10. x \in D /\ y \in D /\ z \in D
  OBVIOUS
<1>11. /\ DrawnBefore(rail, y, x) /\ place[y] = place[x]
       /\ DrawnBefore(rail, z, x) /\ place[z] = place[x]
  OBVIOUS
<1>12. \A w \in D : DrawnBefore(rail, z, w) /\ DrawnBefore(rail, w, x) => place[w] # place[x]
  BY <1>2, <1>9, <1>10
<1>13. Ended(rail.last[z], rail.first[x])
  <2>1. Free(rail, place, x, place[x])
    BY <1>3, <1>10
  <2> QED
    BY <1>10, <1>11, <1>12, <2>1, Zenon DEF Free, D
<1>14. rail.last[z] < rail.first[x]
  BY <1>13 DEF Ended
<1>15. y # z
  BY <1>8, <1>14
<1>16. DrawnBefore(rail, y, z)
  <2>1. y \in rail.left <=> z \in rail.left
    BY <1>2, <1>10, <1>11, Zenon
  <2>2. ~DrawnBefore(rail, z, y)
    BY <1>10, <1>11, <1>12, Zenon
  <2> QED
    BY <1>2, <1>10, <1>15, <2>1, <2>2, Zenon
<1>17. z \notin Bad
  BY <1>2, <1>7, <1>10, <1>11
<1>18. y \in Ahead(z)
  BY <1>10, <1>11, <1>16
<1>19. rail.last[y] < rail.first[z]
  BY <1>10, <1>17, <1>18
<1> QED
  BY <1>1, <1>8, <1>10, <1>14, <1>19

LEMMA LanesKeepApart ==
    ASSUME NEW rail, RailOK(rail), NEW a \in DOMAIN rail.first, NEW b \in DOMAIN rail.first,
           a # b, a \in rail.left <=> b \in rail.left, LanesOf(rail)[a] = LanesOf(rail)[b]
    PROVE  rail.last[a] < rail.first[b] \/ rail.last[b] < rail.first[a]
<1>1. DrawnBefore(rail, a, b) \/ DrawnBefore(rail, b, a)
  BY DrawnInOrder, Zenon
<1>2. CASE DrawnBefore(rail, a, b)
  BY <1>2, LinesApart
<1>3. CASE DrawnBefore(rail, b, a)
  BY <1>3, LinesApart
<1> QED
  BY <1>1, <1>2, <1>3

\* Shelves are what lies between a start and the next one.
LEMMA ShelfRows ==
    ASSUME PageOK, NEW s \in Shelves
    PROVE  /\ s[1] \in 1..Len(issues) /\ s[2] \in 1..Len(issues) /\ s[1] <= s[2]
           /\ \A n \in s[1]..s[2] : n \in DOMAIN issues /\ issues[n] \in On(s)
           /\ \A i \in On(s) : \E n \in s[1]..s[2] : issues[n] = i
<1>1. s[1] \in DOMAIN issues /\ s[2] \in DOMAIN issues /\ s[1] <= s[2]
  BY DEF Shelves, Starts, Ends
<1>2. Len(issues) \in Nat /\ DOMAIN issues = 1..Len(issues)
  BY RowsAndArcs
<1>3. \A n \in s[1]..s[2] : n \in DOMAIN issues
  BY <1>1, <1>2
<1> QED
  BY <1>1, <1>2, <1>3 DEF On

\* Every issue is on one.
LEMMA ShelfOfRow ==
    ASSUME PageOK, NEW n \in DOMAIN issues
    PROVE  \E s \in Shelves : n \in s[1]..s[2]
<1>1. Len(issues) \in Nat /\ DOMAIN issues = 1..Len(issues) /\ n \in 1..Len(issues)
  BY RowsAndArcs
<1> DEFINE Up == {m \in Starts : m <= n}
           Down == {m \in Ends : n <= m}
<1>2. Up \in SUBSET Nat /\ Down \in SUBSET Nat
  BY <1>1 DEF Starts, Ends
<1>3. 1 \in Up /\ Len(issues) \in Down
  BY <1>1 DEF Starts, BeginsShelf, Ends
<1>4. PICK f \in Up : \A m \in Up : f >= m
  <2>1. Up # {} /\ n \in Nat /\ \A m \in Up : m <= n
    BY <1>1, <1>3
  <2> HIDE DEF Up
  <2> QED
    BY <1>2, <2>1, MostNatural
<1>5. PICK e \in Down : \A m \in Down : e <= m
  <2>1. Down # {}
    BY <1>3
  <2> HIDE DEF Down
  <2> QED
    BY <1>2, <2>1, LeastNatural
<1>6. f \in Starts /\ f <= n /\ e \in Ends /\ n <= e /\ f \in Nat /\ e \in Nat
  BY <1>2
<1>7. ASSUME NEW m \in Starts, f < m, m <= e PROVE FALSE
  <2>1. m \in 1..Len(issues)
    BY <1>1 DEF Starts
  <2>2. m \notin Up
    BY <1>4, <1>6, <1>7, <2>1
  <2>3. n < m
    BY <1>1, <2>1, <2>2
  <2>4. m - 1 \in DOMAIN issues /\ (m - 1) + 1 = m /\ n <= m - 1
    BY <1>1, <2>1, <2>3
  <2>5. m - 1 \in Ends
    BY <2>4 DEF Ends
  <2> QED
    BY <1>5, <1>6, <1>7, <2>1, <2>4, <2>5
<1> DEFINE s == <<f, e>>
<1>8. s \in Starts \X Ends /\ s[1] = f /\ s[2] = e
  BY <1>6
<1> HIDE DEF s
<1>9. s \in Shelves
  BY <1>1, <1>6, <1>7, <1>8 DEF Shelves
<1> QED
  BY <1>1, <1>6, <1>8, <1>9

LEMMA WindowShownWhen ==
    ASSUME PageOK
    PROVE  WindowShown
<1> SUFFICES ASSUME window # Unopened PROVE WindowShown
  BY DEF WindowShown
<1>1. /\ window.lo \in Nat /\ window.hi \in Nat
      /\ window.lo < window.hi \/ window.lo = Len(issues)
      /\ window.lo <= window.hi /\ window.hi <= Len(issues)
  BY DEF PageOK, VolumePageTypes
<1>2. Len(issues) \in Nat /\ DOMAIN issues = 1..Len(issues)
  BY RowsAndArcs
<1>3. \A n \in DOMAIN issues : n \in Rows <=> window.lo < n /\ n <= window.hi
  BY DEF Rows
<1>4. \A n \in Rows : n \in DOMAIN issues /\ issues[n] \in InWindow
  BY DEF Rows, InWindow
<1>5. ASSUME window.lo < Len(issues) PROVE InWindow # {}
  <2>1. window.lo + 1 \in DOMAIN issues /\ window.lo < window.lo + 1
        /\ window.lo + 1 <= window.hi
    BY <1>1, <1>2, <1>5
  <2> QED
    BY <1>3, <1>4, <2>1
<1>6. ASSUME NEW s \in Shelves
      PROVE  (s[1] - 1 < window.hi /\ s[2] - 1 >= window.lo) <=> On(s) \cap InWindow # {}
  <2>1. /\ s[1] \in 1..Len(issues) /\ s[2] \in 1..Len(issues) /\ s[1] <= s[2]
        /\ \A n \in s[1]..s[2] : n \in DOMAIN issues /\ issues[n] \in On(s)
        /\ \A i \in On(s) : \E n \in s[1]..s[2] : issues[n] = i
    BY ShelfRows
  <2>2. ASSUME s[1] - 1 < window.hi, s[2] - 1 >= window.lo PROVE On(s) \cap InWindow # {}
    <3> DEFINE n == IF s[1] > window.lo THEN s[1] ELSE window.lo + 1
    <3>1. n \in s[1]..s[2] /\ window.lo < n /\ n <= window.hi
      BY <1>1, <1>2, <2>1, <2>2
    <3> HIDE DEF n
    <3> QED
      BY <1>3, <1>4, <2>1, <3>1
  <2>3. ASSUME On(s) \cap InWindow # {} PROVE s[1] - 1 < window.hi /\ s[2] - 1 >= window.lo
    <3>1. PICK i \in On(s) : i \in InWindow
      BY <2>3
    <3>2. PICK m \in Rows : issues[m] = i
      BY <3>1 DEF InWindow
    <3>3. PICK n \in s[1]..s[2] : issues[n] = i
      BY <2>1, <3>1
    <3>4. m = n
      BY <1>4, <2>1, <3>2, <3>3, IssuesRead
    <3>5. window.lo < n /\ n <= window.hi /\ n \in Nat /\ s[1] <= n /\ n <= s[2]
      BY <1>2, <1>3, <1>4, <2>1, <3>2, <3>3, <3>4
    <3> QED
      BY <1>1, <1>2, <2>1, <3>5
  <2> QED
    BY <2>2, <2>3
<1>7. VisibleShelves = {s \in Shelves : On(s) \cap InWindow # {}}
  BY <1>6 DEF VisibleShelves
<1>8. ASSUME NEW i \in InWindow PROVE i \in UNION {On(s) : s \in VisibleShelves}
  <2>1. PICK n \in Rows : issues[n] = i
    BY DEF InWindow
  <2>2. PICK s \in Shelves : n \in s[1]..s[2]
    BY <1>4, <2>1, ShelfOfRow
  <2>3. i \in On(s)
    BY <2>1, <2>2 DEF On
  <2> QED
    BY <1>7, <2>2, <2>3
<1> QED
  BY <1>5, <1>7, <1>8 DEF WindowShown

\* Between two issues of the window an arc is elsewhere before the next one of them.
LEMMA ListSidesWhen ==
    ASSUME PageOK
    PROVE  ListSides
<1> SUFFICES ASSUME NEW a \in ListArcs PROVE ListExternal(a) <=> Out(a) # {}
  BY DEF ListSides
<1> DEFINE ps == Positions(a, InWindow)
<1>1. a \in ReadArcs /\ ps # {}
  BY DEF ListArcs
<1>2. ListExternal(a) => Out(a) # {}
  BY DEF ListExternal, EntersFromElsewhere, ExitsElsewhere, GapAfter
<1>3. ASSUME Out(a) # {} PROVE ListExternal(a)
  <2>1. PICK o \in Out(a) : TRUE
    BY <1>3
  <2>2. /\ ps \in SUBSET Nat /\ Len(members[a]) \in Nat
        /\ \A p \in ps : p \in 1..Len(members[a])
    BY <1>1, PositionsBounded
  <2>3. o \in Nat /\ o \notin ps
    <3>1. o \in 1..Len(members[a]) /\ members[a][o] \notin Shown
      BY <1>1, PositionsBounded DEF Out
    <3>2. \A p \in ps : members[a][p] \in InWindow
      BY DEF Positions
    <3>3. InWindow \subseteq Shown
      BY RowsAndArcs DEF InWindow, Rows
    <3> QED
      BY <2>2, <3>1, <3>2, <3>3
  <2> DEFINE before == {p \in ps : p < o}
             after == {p \in ps : o < p}
  <2>4. CASE before = {}
    <3>1. Least(ps) \in ps
      BY <1>1, PositionsBounded
    <3>2. o < Least(ps)
      BY <2>2, <2>3, <2>4, <3>1
    <3> QED
      BY <3>2 DEF ListExternal, EntersFromElsewhere
  <2>5. CASE after = {}
    <3>1. Most(ps) \in ps
      BY <1>1, PositionsBounded
    <3>2. o > Most(ps)
      BY <2>2, <2>3, <2>5, <3>1
    <3> QED
      BY <3>2 DEF ListExternal, ExitsElsewhere
  <2>6. CASE before # {} /\ after # {}
    <3>1. before \in SUBSET Nat /\ after \in SUBSET Nat /\ \A p \in before : p <= o
      BY <2>2, <2>3
    <3>2. PICK p \in before : \A r \in before : p >= r
      <4> HIDE DEF before
      <4> QED
        BY <2>3, <2>6, <3>1, MostNatural
    <3>3. PICK q \in after : \A r \in after : q <= r
      <4> HIDE DEF after
      <4> QED
        BY <2>6, <3>1, LeastNatural
    <3>4. /\ p \in ps /\ q \in ps /\ p < o /\ o < q
          /\ p \in Nat /\ q \in Nat
      BY <2>2
    <3>5. ASSUME NEW r \in ps, p < r, r < q PROVE FALSE
      <4>1. r \in Nat /\ r # o
        BY <2>2, <2>3
      <4>2. r < o \/ o < r
        BY <2>3, <4>1
      <4> QED
        BY <3>2, <3>3, <3>4, <3>5, <4>1, <4>2
    <3>6. GapAfter(a, p)
      BY <2>3, <3>4, <3>5 DEF GapAfter
    <3> QED
      BY <3>4, <3>6 DEF ListExternal
  <2> QED
    BY <2>4, <2>5, <2>6
<1> QED
  BY <1>2, <1>3

\* The lines of the gallery's rail run from the first shelf on show to the last.
LEMMA GalleryDrawable ==
    ASSUME PageOK
    PROVE  /\ RailOK(GalleryRail) /\ DOMAIN GalleryRail.first = GalleryArcs
           /\ \A a \in GalleryArcs : /\ GalleryRail.first[a] = FirstShelf(a)
                                     /\ GalleryRail.last[a] = LastShelf(a)
                                     /\ a \in GalleryRail.left <=> GalleryExternal(a)
<1>1. GalleryArcs \subseteq Arcs /\ GalleryArcs \subseteq ReadArcs
  BY DEF GalleryArcs, ReadArcs, PageOK, VolumePageTypes
<1>2. GalleryArcs \subseteq Nat /\ IsFiniteSet(GalleryArcs)
  BY <1>1, VolumePageAssumption, FS_Subset
<1>3. ASSUME NEW a \in GalleryArcs
      PROVE  FirstShelf(a) \in Nat /\ LastShelf(a) \in Nat /\ FirstShelf(a) <= LastShelf(a)
  <2> DEFINE S == {s[1] : s \in ShelvesOf(a) \cap VisibleShelves}
  <2>1. S # {}
    BY DEF GalleryArcs
  <2>2. \A s \in Shelves : s[1] \in 1..Len(issues)
    BY ShelfRows
  <2>3. S \subseteq 1..Len(issues) /\ Len(issues) \in Nat
    BY <2>2, RowsAndArcs DEF ShelvesOf
  <2>4. FirstShelf(a) = Least(S) /\ LastShelf(a) = Most(S)
    BY DEF FirstShelf, LastShelf
  <2> HIDE DEF S
  <2>5. S \in SUBSET Nat /\ \A x \in S : x <= Len(issues)
    BY <2>3
  <2>6. Least(S) \in S /\ \A x \in S : Least(S) <= x
    BY <2>1, <2>5, LeastIs
  <2>7. Most(S) \in S
    BY <2>1, <2>3, <2>5, MostIs
  <2> QED
    BY <2>4, <2>5, <2>6, <2>7
<1>4. DOMAIN GalleryRail.first = GalleryArcs
  BY DEF GalleryRail
<1>5. ASSUME NEW a \in GalleryArcs
      PROVE  /\ GalleryRail.first[a] = FirstShelf(a)
             /\ GalleryRail.last[a] = LastShelf(a)
             /\ a \in GalleryRail.left <=> GalleryExternal(a)
  <2>1. GalleryRail.first[a] = FirstShelf(a) /\ GalleryRail.last[a] = LastShelf(a)
    BY DEF GalleryRail
  <2>2. GalleryRail.left = {b \in GalleryArcs : GalleryExternal(b)}
    BY DEF GalleryRail
  <2>3. a \in GalleryRail.left <=> GalleryExternal(a)
    BY <2>2, Zenon
  <2> QED
    BY <2>1, <2>3, Zenon
<1>6. RailOK(GalleryRail)
  BY <1>2, <1>3, <1>4, <1>5 DEF RailOK
<1> QED
  BY <1>4, <1>5, <1>6, Zenon

LEMMA LanesApartWhen ==
    ASSUME PageOK
    PROVE  LanesApart
<1> SUFFICES ASSUME NEW a \in GalleryArcs, NEW b \in GalleryArcs,
                    a # b, GalleryExternal(a) <=> GalleryExternal(b),
                    GalleryLanes[a] = GalleryLanes[b]
             PROVE  LastShelf(a) < FirstShelf(b) \/ LastShelf(b) < FirstShelf(a)
  BY Zenon DEF LanesApart
<1>0. /\ RailOK(GalleryRail) /\ DOMAIN GalleryRail.first = GalleryArcs
      /\ \A c \in GalleryArcs : /\ GalleryRail.first[c] = FirstShelf(c)
                                /\ GalleryRail.last[c] = LastShelf(c)
                                /\ c \in GalleryRail.left <=> GalleryExternal(c)
  BY GalleryDrawable
<1>1. /\ RailOK(GalleryRail)
      /\ a \in DOMAIN GalleryRail.first /\ b \in DOMAIN GalleryRail.first
      /\ GalleryRail.first[a] = FirstShelf(a) /\ GalleryRail.last[a] = LastShelf(a)
      /\ GalleryRail.first[b] = FirstShelf(b) /\ GalleryRail.last[b] = LastShelf(b)
  BY ONLY <1>0, a \in GalleryArcs, b \in GalleryArcs, Zenon
<1>2. a \in GalleryRail.left <=> b \in GalleryRail.left
  <2>1. a \in GalleryRail.left <=> GalleryExternal(a)
    BY ONLY <1>0, a \in GalleryArcs, Zenon
  <2>2. b \in GalleryRail.left <=> GalleryExternal(b)
    BY ONLY <1>0, b \in GalleryArcs, Zenon
  <2> QED
    BY <2>1, <2>2, Zenon
<1>3. LanesOf(GalleryRail)[a] = LanesOf(GalleryRail)[b]
  BY DEF GalleryLanes
<1>4. GalleryRail.last[a] < GalleryRail.first[b] \/ GalleryRail.last[b] < GalleryRail.first[a]
  BY <1>1, <1>2, <1>3, LanesKeepApart
<1> QED
  BY <1>1, <1>4

\* Wherever the window cuts a page, whatever its arcs: what is drawn beside the issues
\* is the story they tell.
THEOREM RailsDrawnHolds == VolumePageSpec => []RailsDrawn
<1>1. PageOK => RailsDrawn
  BY WindowShownWhen, ListSidesWhen, LanesApartWhen DEF RailsDrawn
<1> QED
  BY <1>1, PageOKHolds, PTL

(* ---- the library's list: its order ---- *)

\* What the proofs rest on. The parts of the state, the keys of a page one to a volume,
LoadingRight ==
    /\ loading \in [pc : {"idle", "local", "hydrate", "count"}, keys : SUBSET Keys,
                    rows : Seq(Keys), total : Nat, calm : BOOLEAN]
    /\ browser \in [cards : Seq(Cards), total : Nat, more : BOOLEAN, failed : BOOLEAN]
    /\ loading.pc = "idle" => loading.keys = {} /\ loading.rows = <<>>
    /\ loading.pc = "local" => \A k \in loading.keys : k.volume \in CvVolumes
    /\ \A k, l \in loading.keys : k.volume = l.volume => k = l
    /\ Len(browser.cards) + Len(loading.rows) <= Cardinality(ListedVolumes)

\* what a calm page counts,
CalmRight ==
    /\ loading.calm =>
         /\ \A k \in loading.keys : k.owned = OwnedCount(k.volume)
         /\ \A n \in DOMAIN loading.rows :
                loading.rows[n].owned = OwnedCount(loading.rows[n].volume)
    /\ ReadWithinOwned

\* and, as long as nothing stirs and nothing ties, where the page is cut.
CvListed == KeysOf({v \in CvVolumes : PassesFilters(v)})
Whole == CHOOSE s \in Sorted(Listed) : TRUE

CutRight ==
    (~stirred /\ Untied) =>
        /\ loading.pc = "local" => loading.keys = CvListed
        /\ Len(browser.cards) <= Cardinality(Listed)
        /\ \A n \in DOMAIN browser.cards : browser.cards[n].volume = Whole[n].volume
        /\ loading.pc \in {"hydrate", "count"} =>
             /\ loading.total = Cardinality(Listed)
             /\ Len(browser.cards) + Len(loading.rows) <= Cardinality(Listed)
             /\ \A n \in DOMAIN loading.rows :
                    loading.rows[n] = Whole[Len(browser.cards) + n]
             /\ loading.rows = <<>> => Len(browser.cards) = Cardinality(Listed)
        /\ browser.cards # <<>> => browser.total = Cardinality(Listed)
        /\ (~browser.more /\ ~browser.failed) => Len(browser.cards) = Cardinality(Listed)

ListingOK == ListingTypes /\ LoadingRight /\ CalmRight /\ CutRight


LEMMA CountsAreNumbers == \A v : OwnedCount(v) \in Nat /\ ReadCount(v) \in Nat
<1>1. ASSUME NEW v PROVE OwnedCount(v) \in Nat /\ ReadCount(v) \in Nat
  <2> DEFINE O == {i \in Issues : i[1] = v /\ \E f \in OwnedFiles : settled[f] = i}
             R == {i \in Issues : i[1] = v /\ \E f \in finished : settled[f] = i}
  <2>1. IsFiniteSet(O) /\ IsFiniteSet(R)
    BY ListingAssumption, FS_Subset
  <2> QED
    BY <2>1, FS_CardinalityType DEF OwnedCount, ReadCount
<1> QED
  BY <1>1

LEMMA ManyListed == IsFiniteSet(ListedVolumes) /\ Cardinality(ListedVolumes) \in Nat
<1>1. IsFiniteSet(ListedVolumes)
  BY ListingAssumption, FS_Union DEF ListedVolumes
<1> QED
  BY <1>1, FS_CardinalityType

\* What a user has read of a volume is of what is owned of it.
LEMMA ReadOfOwned ==
    ASSUME finished \subseteq OwnedFiles, NEW v
    PROVE  ReadCount(v) <= OwnedCount(v)
<1> DEFINE O == {i \in Issues : i[1] = v /\ \E f \in OwnedFiles : settled[f] = i}
           R == {i \in Issues : i[1] = v /\ \E f \in finished : settled[f] = i}
<1>1. IsFiniteSet(O) /\ R \subseteq O
  BY ListingAssumption, FS_Subset
<1> HIDE DEF O, R
<1>2. Cardinality(R) <= Cardinality(O)
  BY <1>1, FS_Subset
<1> QED
  BY <1>2 DEF OwnedCount, ReadCount, O, R

\* Keys are told apart by their volumes, so there are no more of them.
LEMMA KeysFit ==
    ASSUME NEW K \in SUBSET Keys, \A k, l \in K : k.volume = l.volume => k = l
    PROVE  /\ IsFiniteSet(K) /\ Cardinality(K) \in Nat
           /\ Cardinality(K) <= Cardinality(ListedVolumes)
<1> DEFINE f == [k \in K |-> k.volume]
<1>1. IsFiniteSet(ListedVolumes)
  BY ManyListed
<1>2. f \in Injection(K, ListedVolumes)
  <2>1. \A k \in K : k.volume \in ListedVolumes
    BY DEF Keys
  <2>2. f \in [K -> ListedVolumes] /\ \A k, l \in K : f[k] = f[l] => k = l
    BY <2>1
  <2> QED
    BY <2>2 DEF Injection, IsInjective
<1> HIDE DEF f
<1>3. IsFiniteSet(K) /\ Cardinality(K) <= Cardinality(ListedVolumes)
  BY <1>1, <1>2, FS_Injection
<1> QED
  BY <1>3, FS_CardinalityType

LEMMA KeysOfSome ==
    ASSUME NEW S \in SUBSET ListedVolumes
    PROVE  /\ KeysOf(S) \in SUBSET Keys
           /\ \A k \in KeysOf(S) : /\ k.volume \in S /\ k.owned = OwnedCount(k.volume)
                                   /\ OwnedCount(k.volume) > 0
           /\ \A k, l \in KeysOf(S) : k.volume = l.volume => k = l
<1>1. ASSUME NEW k \in KeysOf(S)
      PROVE  /\ k \in Keys /\ k = [volume |-> k.volume, owned |-> OwnedCount(k.volume)]
             /\ k.volume \in S /\ OwnedCount(k.volume) > 0
  <2>1. PICK v \in S : OwnedCount(v) > 0 /\ k = [volume |-> v, owned |-> OwnedCount(v)]
    BY DEF KeysOf
  <2> QED
    BY <2>1, CountsAreNumbers DEF Keys
<1>2. \A k, l \in KeysOf(S) : k.volume = l.volume => k = l
  BY <1>1
<1>3. \A k \in KeysOf(S) : k.owned = OwnedCount(k.volume)
  BY <1>1
<1> QED
  BY <1>1, <1>2, <1>3

LEMMA MergedKeys ==
    ASSUME NEW K \in SUBSET Keys, \A k \in K : k.volume \in CvVolumes,
           \A k, l \in K : k.volume = l.volume => k = l
    PROVE  LET M == K \cup (IF MergesLocal THEN KeysOf(LocalVolumes) ELSE {})
           IN  /\ M \in SUBSET Keys
               /\ \A k, l \in M : k.volume = l.volume => k = l
<1>1. /\ KeysOf(LocalVolumes) \in SUBSET Keys
      /\ \A k \in KeysOf(LocalVolumes) : k.volume \in LocalVolumes
      /\ \A k, l \in KeysOf(LocalVolumes) : k.volume = l.volume => k = l
  BY KeysOfSome DEF ListedVolumes
<1>2. CvVolumes \cap LocalVolumes = {}
  BY ListingAssumption
<1> QED
  BY <1>1, <1>2

LEMMA ListedIs ==
    /\ Listed \in SUBSET Keys
    /\ \A k, l \in Listed : k.volume = l.volume => k = l
    /\ \A k \in Listed : k.owned = OwnedCount(k.volume) /\ OwnedCount(k.volume) > 0
    /\ IsFiniteSet(Listed) /\ Cardinality(Listed) \in Nat
<1>1. {v \in CvVolumes : PassesFilters(v)} \in SUBSET ListedVolumes
  BY DEF ListedVolumes
<1>2. /\ CvListed \in SUBSET Keys
      /\ \A k \in CvListed : /\ k.volume \in CvVolumes /\ k.owned = OwnedCount(k.volume)
                             /\ OwnedCount(k.volume) > 0
      /\ \A k, l \in CvListed : k.volume = l.volume => k = l
  BY <1>1, KeysOfSome DEF CvListed
<1>3. LocalVolumes \in SUBSET ListedVolumes
  BY DEF ListedVolumes
<1>4. \A k \in KeysOf(LocalVolumes) :
          k.owned = OwnedCount(k.volume) /\ OwnedCount(k.volume) > 0
  BY <1>3, KeysOfSome
<1>5. Listed = CvListed \cup (IF MergesLocal THEN KeysOf(LocalVolumes) ELSE {})
  BY DEF Listed, CvListed
<1>6. Listed \in SUBSET Keys /\ \A k, l \in Listed : k.volume = l.volume => k = l
  BY <1>2, <1>5, MergedKeys
<1>7. \A k \in Listed : k.owned = OwnedCount(k.volume) /\ OwnedCount(k.volume) > 0
  BY <1>2, <1>4, <1>5
<1> QED
  BY <1>6, <1>7, KeysFit

LEMMA KeyParts ==
    ASSUME query \in Queries, NEW k \in Keys
    PROVE  /\ Primary(k) \in Int /\ Name[k.volume] \in Nat /\ StartYear[k.volume] \in Nat
           /\ query.sort = "name" => Primary(k) = 0
<1>1. k.volume \in ListedVolumes /\ k.owned \in Nat
  BY DEF Keys
<1>2. /\ Name[k.volume] \in Nat /\ StartYear[k.volume] \in Nat
      /\ \A v \in Counted : Count[v] \in Nat
  BY <1>1, ListingAssumption
<1> QED
  BY <1>1, <1>2 DEF Primary

SortOrder == {p \in Keys \X Keys : SortsBefore(p[1], p[2])}

LEMMA SortOrderIs ==
    ASSUME NEW k \in Keys, NEW l \in Keys
    PROVE  <<k, l>> \in SortOrder <=> SortsBefore(k, l)
BY DEF SortOrder

\* The list's sort is an order: its keys are compared field by field.
LEMMA SortsInOrder ==
    ASSUME query \in Queries
    PROVE  /\ \A k \in Keys : ~SortsBefore(k, k)
           /\ \A k, l, m \in Keys :
                  SortsBefore(k, l) /\ SortsBefore(l, m) => SortsBefore(k, m)
<1>1. ASSUME NEW k \in Keys PROVE ~SortsBefore(k, k)
  BY KeyParts DEF SortsBefore, YearBefore
<1>2. ASSUME NEW k \in Keys, NEW l \in Keys, NEW m \in Keys,
             SortsBefore(k, l), SortsBefore(l, m)
      PROVE  SortsBefore(k, m)
  <2>1. /\ Primary(k) \in Int /\ Name[k.volume] \in Nat /\ StartYear[k.volume] \in Nat
        /\ Primary(l) \in Int /\ Name[l.volume] \in Nat /\ StartYear[l.volume] \in Nat
        /\ Primary(m) \in Int /\ Name[m.volume] \in Nat /\ StartYear[m.volume] \in Nat
        /\ query.sort = "name" => Primary(k) = 0 /\ Primary(l) = 0 /\ Primary(m) = 0
    BY KeyParts
  <2> QED
    BY <1>2, <2>1, SMT DEF SortsBefore, YearBefore
<1> QED
  BY <1>1, <1>2

\* A list is in order when it is a row of its keys in the order of the sort.
LEMMA SortedIsInOrder ==
    ASSUME NEW S \in SUBSET Keys, Cardinality(S) \in Nat, NEW s
    PROVE  s \in Sorted(S) <=> InOrder(SortOrder, S, s)
<1> DEFINE N == Cardinality(S)
<1> HIDE DEF N
<1>1. ASSUME s \in [1..N -> S]
      PROVE  /\ ToSet(s) = S <=> \A x \in S : \E n \in 1..N : s[n] = x
             /\ (\A m, n \in DOMAIN s : m < n => ~SortsBefore(s[n], s[m]))
                <=> (\A m, n \in 1..N : m < n => <<s[n], s[m]>> \notin SortOrder)
  <2>1. DOMAIN s = 1..N /\ \A n \in 1..N : s[n] \in S /\ s[n] \in Keys
    BY <1>1
  <2>2. ToSet(s) = S <=> \A x \in S : \E n \in 1..N : s[n] = x
    BY <2>1 DEF ToSet
  <2>3. \A m, n \in 1..N : SortsBefore(s[n], s[m]) <=> <<s[n], s[m]>> \in SortOrder
    BY <2>1, SortOrderIs
  <2> QED
    BY <2>1, <2>2, <2>3
<1> QED
  BY <1>1 DEF Sorted, InOrder, N

\* There is such a list, and where no two keys tie only one.
LEMMA WholeIs ==
    ASSUME query \in Queries
    PROVE  /\ Whole \in Sorted(Listed) /\ Whole \in Seq(Listed)
           /\ Len(Whole) = Cardinality(Listed)
           /\ \A n \in 1..Cardinality(Listed) : Whole[n] \in Listed
           /\ \A m, n \in 1..Cardinality(Listed) : Whole[m] = Whole[n] => m = n
           /\ Untied => \A s \in Sorted(Listed) : s = Whole
<1>1. Listed \in SUBSET Keys /\ IsFiniteSet(Listed) /\ Cardinality(Listed) \in Nat
  BY ListedIs
<1>2. /\ \A k \in Listed : <<k, k>> \notin SortOrder
      /\ \A k, l, m \in Listed : <<k, l>> \in SortOrder /\ <<l, m>> \in SortOrder
                                 => <<k, m>> \in SortOrder
  <2>1. \A k, l \in Listed : <<k, l>> \in SortOrder <=> SortsBefore(k, l)
    BY <1>1, SortOrderIs
  <2> QED
    BY <1>1, <2>1, SortsInOrder
<1>3. \E s : InOrder(SortOrder, Listed, s)
  BY <1>1, <1>2, RowExists
<1>4. \E s : s \in Sorted(Listed)
  BY <1>1, <1>3, SortedIsInOrder
<1>5. Whole \in Sorted(Listed)
  BY <1>4 DEF Whole
<1>6. InOrder(SortOrder, Listed, Whole)
  BY <1>1, <1>5, SortedIsInOrder
<1>7. Whole \in [1..Cardinality(Listed) -> Listed]
  BY <1>6 DEF InOrder
<1>8. Whole \in Seq(Listed) /\ Len(Whole) = Cardinality(Listed)
  BY <1>1, <1>7, RowIsSeq
<1>9. \A m, n \in 1..Cardinality(Listed) : Whole[m] = Whole[n] => m = n
  BY <1>1, <1>6, RowInjective
<1>10. ASSUME Untied, NEW s \in Sorted(Listed) PROVE s = Whole
  <2>1. InOrder(SortOrder, Listed, s)
    BY <1>1, SortedIsInOrder
  <2>2. \A k, l \in Listed : k # l => <<k, l>> \in SortOrder \/ <<l, k>> \in SortOrder
    BY <1>1, <1>10, SortOrderIs DEF Untied
  <2> QED
    BY <1>1, <1>6, <2>1, <2>2, RowUnique
<1> QED
  BY <1>5, <1>7, <1>8, <1>9, <1>10

\* The list is a matter of what is settled.
LEMMA SameList ==
    ASSUME UNCHANGED <<query, settled>>
    PROVE  /\ Listed' = Listed /\ Whole' = Whole /\ CvListed' = CvListed
           /\ Untied' <=> Untied
           /\ \A v : OwnedCount(v)' = OwnedCount(v)
<1>1. \A v : OwnedCount(v)' = OwnedCount(v)
  BY DEF OwnedCount
<1>2. \A v : PassesFilters(v)' <=> PassesFilters(v)
  BY <1>1 DEF PassesFilters
<1>3. \A S : KeysOf(S)' = KeysOf(S)
  BY <1>1 DEF KeysOf
<1>4. CvListed' = CvListed
  BY <1>2, <1>3 DEF CvListed
<1>5. Listed' = Listed
  BY <1>3, <1>4 DEF Listed, CvListed, MergesLocal
<1>6. \A k, l : SortsBefore(k, l)' <=> SortsBefore(k, l)
  BY DEF SortsBefore, Primary
<1>7. \A S : Sorted(S)' = Sorted(S)
  BY <1>6 DEF Sorted
<1>8. Whole' = Whole
  BY <1>5, <1>7 DEF Whole
<1>9. Untied' <=> Untied
  BY <1>5, <1>6 DEF Untied
<1> QED
  BY <1>1, <1>4, <1>5, <1>8, <1>9

(* ---- the library's list: one page ---- *)

LEMMA CardsAndRows ==
    ASSUME ListingOK
    PROVE  /\ query \in Queries
           /\ browser.cards \in Seq(Cards) /\ loading.rows \in Seq(Keys)
           /\ Len(browser.cards) \in Nat /\ Len(loading.rows) \in Nat
           /\ DOMAIN browser.cards = 1..Len(browser.cards)
           /\ DOMAIN loading.rows = 1..Len(loading.rows)
           /\ \A n \in DOMAIN loading.rows : loading.rows[n] \in Keys
           /\ loading.keys \in SUBSET Keys
<1>1. query \in Queries /\ browser.cards \in Seq(Cards) /\ loading.rows \in Seq(Keys)
  BY DEF ListingOK, ListingTypes
<1>2. loading.keys \in SUBSET Keys
  BY DEF ListingOK, ListingTypes
<1> QED
  BY <1>1, <1>2

LEMMA ListingStarts == ListingInit => ListingOK
<1> SUFFICES ASSUME ListingInit PROVE ListingOK
  OBVIOUS
<1>1. /\ loading = Idle /\ browser = [cards |-> <<>>, total |-> 0, more |-> TRUE, failed |-> FALSE]
  BY DEF ListingInit
<1>2. <<>> \in Seq(Cards) /\ <<>> \in Seq(Keys) /\ Len(<<>>) = 0 /\ DOMAIN <<>> = {}
  OBVIOUS
<1>3. Cardinality(ListedVolumes) \in Nat /\ Cardinality(Listed) \in Nat
  BY ManyListed, ListedIs
<1>4. ListingTypes
  BY <1>1, <1>2, <1>3 DEF ListingInit, ListingTypes, Idle
<1>5. LoadingRight
  BY <1>1, <1>2, <1>3 DEF LoadingRight, Idle
<1>6. CalmRight
  BY <1>1, <1>2 DEF CalmRight, ReadWithinOwned, Idle
<1>7. CutRight
  BY <1>1, <1>2, <1>3 DEF CutRight, Idle
<1> QED
  BY <1>4, <1>5, <1>6, <1>7 DEF ListingOK

LEMMA KeysScanned ==
    ASSUME ListingOK, ScanKeys
    PROVE  ListingOK'
<1>1. /\ loading' = [pc |-> "local", keys |-> CvListed, rows |-> <<>>, total |-> 0,
                     calm |-> TRUE]
      /\ loading.pc = "idle" /\ browser.more
      /\ UNCHANGED <<query, settled, finished, browser, changes>>
      /\ browser.cards # <<>> => stirred' = stirred
  BY DEF ScanKeys, Idle, CvListed
<1>2. <<>> \in Seq(Keys) /\ Len(<<>>) = 0 /\ DOMAIN <<>> = {}
  OBVIOUS
<1>3. /\ CvListed \in SUBSET Keys
      /\ \A k \in CvListed : k.volume \in CvVolumes /\ k.owned = OwnedCount(k.volume)
      /\ \A k, l \in CvListed : k.volume = l.volume => k = l
  <2>1. {v \in CvVolumes : PassesFilters(v)} \in SUBSET ListedVolumes
    BY DEF ListedVolumes
  <2> QED
    BY <2>1, KeysOfSome DEF CvListed
<1>4. /\ Listed' = Listed /\ Whole' = Whole /\ CvListed' = CvListed /\ (Untied' <=> Untied)
      /\ \A v : OwnedCount(v)' = OwnedCount(v)
  BY <1>1, SameList
<1>5. Len(browser.cards) \in Nat /\ Len(browser.cards) <= Cardinality(ListedVolumes)
  BY CardsAndRows DEF ListingOK, ListingTypes
<1>6. ListingTypes'
  BY <1>1, <1>2, <1>3 DEF ListingOK, ListingTypes
<1>7. LoadingRight'
  BY <1>1, <1>2, <1>3, <1>5 DEF ListingOK, LoadingRight
<1>8. CalmRight'
  <2>1. ReadWithinOwned'
    BY <1>1 DEF ListingOK, CalmRight, ReadWithinOwned
  <2>2. \A k \in CvListed : k.owned = OwnedCount(k.volume)'
    BY <1>3, <1>4
  <2> QED
    BY <1>1, <1>2, <2>1, <2>2 DEF CalmRight
<1>9. CutRight'
  <2> SUFFICES ASSUME ~stirred', Untied PROVE CutRight'
    BY <1>4 DEF CutRight
  <2>1. Cardinality(Listed) \in Nat
    BY ListedIs
  <2>2. CASE browser.cards = <<>>
    BY <1>1, <1>2, <1>4, <2>1, <2>2 DEF CutRight
  <2>3. CASE browser.cards # <<>>
    <3>1. ~stirred
      BY <1>1, <2>3
    <3> QED
      BY <1>1, <1>4, <3>1 DEF ListingOK, CutRight
  <2> QED
    BY <2>2, <2>3
<1> QED
  BY <1>6, <1>7, <1>8, <1>9 DEF ListingOK

LEMMA KeysMerged ==
    ASSUME ListingOK, NEW size \in PageSizes, MergeKeys(size)
    PROVE  ListingOK'
<1> DEFINE M == loading.keys \cup (IF MergesLocal THEN KeysOf(LocalVolumes) ELSE {})
           from == Len(browser.cards)
           N == Cardinality(M)
           end == IF from + size < N THEN from + size ELSE N
<1>1. PICK s \in Sorted(M) :
          loading' = [loading EXCEPT !.pc = "hydrate", !.total = Cardinality(M),
              !.rows = SubSeq(s, from + 1,
                              IF from + size < Len(s) THEN from + size ELSE Len(s))]
  BY DEF MergeKeys, Offset
<1>2. /\ loading.pc = "local" /\ UNCHANGED <<query, settled, finished, browser, stirred>>
  BY DEF MergeKeys
<1>3. /\ M \in SUBSET Keys
      /\ \A k, l \in M : k.volume = l.volume => k = l
  BY <1>2, CardsAndRows, MergedKeys DEF ListingOK, LoadingRight
<1>4. /\ IsFiniteSet(M) /\ N \in Nat /\ N <= Cardinality(ListedVolumes)
  BY <1>3, KeysFit
<1>5. s \in [1..N -> M]
  BY DEF Sorted
<1> HIDE DEF M
<1>6. s \in Seq(M) /\ Len(s) = N
  BY <1>4, <1>5, RowIsSeq
<1>7. size \in Nat \ {0} /\ from \in Nat /\ end \in Nat /\ from <= Cardinality(ListedVolumes)
  BY <1>4, CardsAndRows, ListingAssumption DEF ListingOK, ListingTypes
<1> DEFINE cut == SubSeq(s, from + 1, end)
<1>8. /\ cut \in Seq(Keys) /\ DOMAIN cut = 1..Len(cut)
      /\ Len(cut) = IF from < end THEN end - from ELSE 0
      /\ \A n \in 1..Len(cut) : cut[n] = s[from + n] /\ cut[n] \in M
  <2>1. \A n \in (from + 1)..end : n \in 1..N
    BY <1>4, <1>7
  <2>2. \A n \in (from + 1)..end : s[n] \in M
    BY <1>5, <2>1
  <2>3. /\ cut \in Seq(M) /\ DOMAIN cut = 1..Len(cut)
        /\ Len(cut) = IF from < end THEN end - from ELSE 0
        /\ \A n \in 1..Len(cut) : cut[n] = s[from + n]
    <3> HIDE DEF N, end
    <3>1. from + 1 \in Int /\ end \in Int
      BY <1>7
    <3> HIDE DEF from
    <3>2. /\ cut \in Seq(M)
          /\ Len(cut) = IF from + 1 <= end THEN end - (from + 1) + 1 ELSE 0
          /\ \A n \in 1..(end - (from + 1) + 1) : cut[n] = s[(from + 1) + n - 1]
      BY <2>2, <3>1, SubSeqProperties
    <3>3. from \in Nat /\ end \in Nat
      BY <1>7
    <3>4. Len(cut) = IF from < end THEN end - from ELSE 0
      BY ONLY <3>2, <3>3
    <3>5. ASSUME NEW n \in 1..Len(cut) PROVE cut[n] = s[from + n]
      <4>1. n \in 1..(end - (from + 1) + 1) /\ (from + 1) + n - 1 = from + n
        BY ONLY n \in 1..Len(cut), <3>3, <3>4
      <4> QED
        BY <3>2, <4>1
    <3>6. DOMAIN cut = 1..Len(cut)
      BY <3>2
    <3> QED
      BY <3>2, <3>4, <3>5, <3>6
  <2> HIDE DEF cut, from, end
  <2>4. cut \in Seq(Keys) /\ \A n \in 1..Len(cut) : cut[n] \in M
    BY <1>3, <2>3
  <2> QED
    BY <2>3, <2>4
<1> HIDE DEF cut
<1>9. /\ loading'.pc = "hydrate" /\ loading'.total = N /\ loading'.rows = cut
      /\ loading'.keys = loading.keys /\ loading'.calm = loading.calm
      /\ loading' \in [pc : {"idle", "local", "hydrate", "count"}, keys : SUBSET Keys,
                       rows : Seq(Keys), total : Nat, calm : BOOLEAN]
  BY <1>1, <1>4, <1>6, <1>8 DEF ListingOK, LoadingRight, cut
<1>10. /\ Listed' = Listed /\ Whole' = Whole /\ (Untied' <=> Untied)
       /\ \A v : OwnedCount(v)' = OwnedCount(v)
  BY <1>2, SameList
<1>11. ListingTypes'
  BY <1>2, <1>8, <1>9 DEF ListingOK, ListingTypes
<1>12. LoadingRight'
  <2>1. Len(browser.cards) + Len(cut) <= Cardinality(ListedVolumes)
    <3>1. end <= N
      BY <1>4, <1>7
    <3> HIDE DEF N, end, from
    <3>2. from + Len(cut) <= Cardinality(ListedVolumes)
      BY <1>4, <1>7, <1>8, <3>1, ManyListed
    <3> QED
      BY <3>2 DEF from
  <2> QED
    BY <1>2, <1>9, <2>1 DEF ListingOK, LoadingRight
<1>13. CalmRight'
  <2>1. ReadWithinOwned'
    BY <1>2 DEF ListingOK, CalmRight, ReadWithinOwned
  <2>2. \A k \in KeysOf(LocalVolumes) : k.owned = OwnedCount(k.volume)
    BY KeysOfSome DEF ListedVolumes
  <2>3. loading.calm => \A k \in M : k.owned = OwnedCount(k.volume)
    BY <2>2 DEF ListingOK, CalmRight, M
  <2> QED
    BY <1>8, <1>9, <1>10, <2>1, <2>3 DEF ListingOK, CalmRight
<1>14. CutRight'
  <2> SUFFICES ASSUME ~stirred, Untied PROVE CutRight'
    BY <1>2, <1>10 DEF CutRight
  <2>1. loading.keys = CvListed
    BY <1>2 DEF ListingOK, CutRight
  <2>2. M = Listed
    BY <2>1 DEF M, Listed, CvListed
  <2>3. s = Whole
    BY <2>2, CardsAndRows, WholeIs
  <2>4. from <= N
    BY <2>2 DEF ListingOK, CutRight
  <2>5. /\ Len(browser.cards) + Len(cut) <= N
        /\ cut = <<>> => Len(browser.cards) = N
    BY <1>4, <1>7, <1>8, <2>4
  <2> QED
    BY <1>2, <1>8, <1>9, <1>10, <2>2, <2>3, <2>5 DEF ListingOK, CutRight
<1> QED
  BY <1>11, <1>12, <1>13, <1>14 DEF ListingOK

LEMMA RowsHydrated ==
    ASSUME ListingOK, NEW gone \in SUBSET LocalVolumes, HydrateRows(gone)
    PROVE  ListingOK'
<1> DEFINE L == Len(loading.rows)
           there == {k \in ToSet(loading.rows) : k.volume \notin gone}
<1>1. PICK s \in [1..Cardinality(there) -> there] :
          /\ \A m, n \in DOMAIN s : m < n =>
                \E i, j \in DOMAIN loading.rows :
                    i < j /\ loading.rows[i] = s[m] /\ loading.rows[j] = s[n]
          /\ loading' = [loading EXCEPT !.pc = "count", !.rows = s]
  BY DEF HydrateRows
<1>2. /\ loading.pc = "hydrate" /\ UNCHANGED <<query, settled, finished, browser, stirred>>
      /\ \A v \in gone : OwnedCount(v) = 0
  BY DEF HydrateRows
<1>3. /\ L \in Nat /\ DOMAIN loading.rows = 1..L /\ query \in Queries
      /\ \A n \in 1..L : loading.rows[n] \in Keys
  BY CardsAndRows
<1>4. /\ \A k \in there : \E n \in 1..L : k = loading.rows[n]
      /\ there \subseteq Keys
  BY <1>3 DEF ToSet
<1>5. IsFiniteSet(there) /\ Cardinality(there) \in Nat /\ Cardinality(there) <= L
  <2> DEFINE all == {loading.rows[n] : n \in 1..L}
             f == [n \in 1..L |-> loading.rows[n]]
  <2>1. f \in Surjection(1..L, all)
    BY DEF Surjection
  <2>2. IsFiniteSet(1..L) /\ Cardinality(1..L) = L
    BY <1>3, FS_Interval
  <2>3. there \subseteq all
    BY <1>4
  <2> HIDE DEF f, all, there
  <2>4. IsFiniteSet(all) /\ Cardinality(all) <= L
    BY <2>1, <2>2, FS_Surjection
  <2>5. IsFiniteSet(there) /\ Cardinality(there) <= Cardinality(all)
    BY <2>3, <2>4, FS_Subset
  <2>6. Cardinality(there) \in Nat /\ Cardinality(all) \in Nat
    BY <2>4, <2>5, FS_CardinalityType
  <2> QED
    BY <1>3, <2>4, <2>5, <2>6
<1> HIDE DEF there
<1>6. /\ s \in Seq(there) /\ Len(s) = Cardinality(there)
  BY <1>5, RowIsSeq
<1>7. /\ s \in Seq(Keys) /\ Len(s) \in Nat /\ Len(s) <= L /\ DOMAIN s = 1..Len(s)
      /\ \A n \in DOMAIN s : s[n] \in there
  BY <1>3, <1>4, <1>5, <1>6
<1>8. /\ loading'.pc = "count" /\ loading'.total = loading.total /\ loading'.rows = s
      /\ loading'.keys = loading.keys /\ loading'.calm = loading.calm
      /\ loading' \in [pc : {"idle", "local", "hydrate", "count"}, keys : SUBSET Keys,
                       rows : Seq(Keys), total : Nat, calm : BOOLEAN]
  BY <1>1, <1>7 DEF ListingOK, LoadingRight
<1>9. /\ Listed' = Listed /\ Whole' = Whole /\ (Untied' <=> Untied)
      /\ \A v : OwnedCount(v)' = OwnedCount(v)
  BY <1>2, SameList
<1>10. ListingTypes'
  BY <1>2, <1>7, <1>8 DEF ListingOK, ListingTypes
<1>11. LoadingRight'
  <2>1. Len(browser.cards) + Len(s) <= Cardinality(ListedVolumes)
    BY <1>3, <1>7, ManyListed, CardsAndRows DEF ListingOK, LoadingRight
  <2> QED
    BY <1>2, <1>8, <2>1 DEF ListingOK, LoadingRight
<1>12. CalmRight'
  <2>1. ReadWithinOwned'
    BY <1>2 DEF ListingOK, CalmRight, ReadWithinOwned
  <2>2. loading.calm => \A n \in DOMAIN s : s[n].owned = OwnedCount(s[n].volume)
    BY <1>3, <1>4, <1>7 DEF ListingOK, CalmRight
  <2> QED
    BY <1>2, <1>8, <1>9, <2>1, <2>2 DEF ListingOK, CalmRight
<1>13. CutRight'
  <2> SUFFICES ASSUME ~stirred, Untied PROVE CutRight'
    BY <1>2, <1>9 DEF CutRight
  <2> DEFINE from == Len(browser.cards)
  <2>1. /\ from \in Nat /\ from + L <= Cardinality(Listed)
        /\ \A n \in 1..L : loading.rows[n] = Whole[from + n]
        /\ Cardinality(Listed) \in Nat
    BY <1>2, <1>3, CardsAndRows, ListedIs DEF ListingOK, CutRight
  <2>0. \A n \in 1..L : from + n \in 1..Cardinality(Listed)
    <3>1. from \in Nat /\ L \in Nat /\ from + L <= Cardinality(Listed)
          /\ Cardinality(Listed) \in Nat
      BY <1>3, <2>1
    <3> HIDE DEF L, from
    <3> QED
      BY <3>1
  <2>2. \A n \in 1..L : loading.rows[n] \in Listed /\ loading.rows[n].volume \notin gone
    <3>2. \A n \in 1..L : loading.rows[n] \in Listed
      BY <1>3, <2>0, <2>1, WholeIs
    <3> QED
      BY <1>2, <3>2, ListedIs
  <2>3. \A m, n \in 1..L : loading.rows[m] = loading.rows[n] => m = n
    <3> SUFFICES ASSUME NEW m \in 1..L, NEW n \in 1..L, loading.rows[m] = loading.rows[n]
                 PROVE  m = n
      OBVIOUS
    <3>1. from + m \in 1..Cardinality(Listed) /\ from + n \in 1..Cardinality(Listed)
      BY <2>0
    <3>2. Whole[from + m] = Whole[from + n]
      BY <2>1
    <3>3. from + m = from + n
      BY <1>3, <3>1, <3>2, WholeIs
    <3> QED
      BY <1>3, <2>1, <3>3
  <2>4. /\ \A n \in 1..L : loading.rows[n] \in there
        /\ \A k \in there : \E n \in 1..L : loading.rows[n] = k
    BY <1>3, <2>2 DEF there, ToSet
  <2>5. \A m, n \in 1..Cardinality(there) : m < n =>
            \E i, j \in 1..L : i < j /\ loading.rows[i] = s[m] /\ loading.rows[j] = s[n]
    BY <1>1, <1>3
  <2> HIDE DEF L, from
  <2>6. Cardinality(there) = L /\ \A n \in 1..L : s[n] = loading.rows[n]
    <3>1. TakenInOrder(there, L, loading.rows, s)
      BY <1>1, <2>3, <2>4, <2>5 DEF TakenInOrder
    <3> QED
      BY <1>3, <3>1, SameRow
  <2>7. Len(s) = L /\ \A n \in 1..L : s[n] = loading.rows[n]
    BY <1>6, <2>6
  <2>8. s = <<>> => loading.rows = <<>>
    <3>1. s = <<>> => L = 0
      BY <2>7
    <3>2. L = 0 => loading.rows = <<>>
      BY CardsAndRows DEF L
    <3> QED
      BY <3>1, <3>2
  <2> QED
    BY <1>2, <1>7, <1>8, <1>9, <2>1, <2>7, <2>8 DEF ListingOK, CutRight, from
<1> QED
  BY <1>10, <1>11, <1>12, <1>13 DEF ListingOK

LEMMA ReadCounted ==
    ASSUME ListingOK, CountRead
    PROVE  ListingOK'
<1> DEFINE rows == loading.rows
           L == Len(rows)
           card(n) == [volume |-> rows[n].volume, owned |-> rows[n].owned,
                       read |-> ReadCount(rows[n].volume), calm |-> loading.calm]
           added == [n \in DOMAIN rows |-> card(n)]
           had == browser.cards
           from == Len(had)
           total == IF had = <<>> THEN loading.total ELSE browser.total
<1>1. /\ loading.pc = "count" /\ loading' = Idle
      /\ UNCHANGED <<query, settled, finished, stirred>>
      /\ browser' = [browser EXCEPT !.cards = had \o added, !.total = total,
                         !.more = added # <<>> /\ Len(had \o added) < total]
  BY DEF CountRead
<1>2. /\ L \in Nat /\ DOMAIN rows = 1..L /\ rows \in Seq(Keys)
      /\ \A n \in 1..L : rows[n] \in Keys
      /\ from \in Nat /\ had \in Seq(Cards) /\ DOMAIN had = 1..from
      /\ finished \subseteq OwnedFiles
  BY CardsAndRows DEF ListingOK, ListingTypes
<1>3. loading.calm \in BOOLEAN /\ loading.total \in Nat /\ browser.total \in Nat
  BY DEF ListingOK, LoadingRight
<1>4. \A n \in 1..L : card(n) \in Cards
  BY <1>2, <1>3, CountsAreNumbers DEF Keys, Cards
<1>5. /\ added \in [1..L -> Cards] /\ \A n \in 1..L : added[n] = card(n)
  BY <1>2, <1>4
<1> HIDE DEF rows, L, card, added, had, from, total
<1>6. added \in Seq(Cards) /\ Len(added) = L
  BY <1>2, <1>5, RowIsSeq
<1> DEFINE cards == had \o added
<1>7. /\ cards \in Seq(Cards) /\ Len(cards) = from + L /\ DOMAIN cards = 1..(from + L)
      /\ \A n \in 1..from : cards[n] = had[n]
      /\ \A n \in 1..L : cards[from + n] = card(n)
  <2>1. /\ cards \in Seq(Cards) /\ Len(cards) = from + L
        /\ \A n \in 1..(from + L) :
               cards[n] = IF n <= from THEN had[n] ELSE added[n - from]
    BY <1>2, <1>6, ConcatProperties DEF from
  <2> HIDE DEF cards
  <2>2. DOMAIN cards = 1..(from + L)
    BY <2>1
  <2>3. ASSUME NEW n \in 1..L PROVE cards[from + n] = card(n)
    <3>1. from + n \in 1..(from + L) /\ ~(from + n <= from) /\ (from + n) - from = n
      BY <1>2
    <3> QED
      BY <1>5, <2>1, <3>1
  <2>4. \A n \in 1..from : cards[n] = had[n]
    BY <1>2, <2>1
  <2> QED
    BY <2>1, <2>2, <2>3, <2>4
<1> HIDE DEF cards
<1>8. /\ browser'.cards = cards /\ browser'.total = total
      /\ browser'.failed = browser.failed
      /\ browser'.more <=> added # <<>> /\ from + L < total
      /\ browser' \in [cards : Seq(Cards), total : Nat, more : BOOLEAN, failed : BOOLEAN]
  <2>1. total \in Nat
    BY <1>3 DEF total
  <2>2. browser \in [cards : Seq(Cards), total : Nat, more : BOOLEAN, failed : BOOLEAN]
    BY DEF ListingOK, LoadingRight
  <2>3. browser' = [browser EXCEPT !.cards = cards, !.total = total,
                        !.more = added # <<>> /\ Len(cards) < total]
    BY <1>1 DEF cards
  <2> QED
    BY <1>7, <2>1, <2>2, <2>3
<1>9. /\ Listed' = Listed /\ Whole' = Whole /\ (Untied' <=> Untied)
      /\ \A v : OwnedCount(v)' = OwnedCount(v)
  BY <1>1, SameList
<1>10. from + L <= Cardinality(ListedVolumes)
  BY DEF ListingOK, LoadingRight, from, L, had, rows
<1>11. <<>> \in Seq(Keys) /\ Len(<<>>) = 0 /\ DOMAIN <<>> = {}
  OBVIOUS
<1>12. ListingTypes'
  BY <1>1, <1>7, <1>8, <1>10, <1>11 DEF ListingOK, ListingTypes, Idle
<1>13. LoadingRight'
  <2>1. /\ loading' \in [pc : {"idle", "local", "hydrate", "count"}, keys : SUBSET Keys,
                         rows : Seq(Keys), total : Nat, calm : BOOLEAN]
        /\ loading'.pc = "idle" /\ loading'.keys = {} /\ loading'.rows = <<>>
    BY <1>1, <1>11 DEF Idle
  <2>2. Len(browser'.cards) + Len(loading'.rows) <= Cardinality(ListedVolumes)
    <3>1. Len(browser'.cards) = from + L /\ Len(loading'.rows) = 0
      BY <1>7, <1>8, <1>11, <2>1
    <3> QED
      BY <1>2, <1>10, <3>1
  <2> QED
    BY <1>8, <2>1, <2>2 DEF LoadingRight
<1>14. CalmRight'
  <2>1. ASSUME NEW n \in 1..(from + L), cards[n].calm PROVE cards[n].read <= cards[n].owned
    <3>1. CASE n <= from
      <4>1. n \in 1..from /\ cards[n] = had[n]
        BY <1>2, <1>7, <3>1
      <4> QED
        BY <1>2, <2>1, <4>1 DEF ListingOK, CalmRight, ReadWithinOwned, had
    <3>2. CASE n > from
      <4>1. PICK m \in 1..L : n = from + m
        <5>1. n - from \in 1..L /\ n = from + (n - from)
          BY <1>2, <3>2
        <5> QED
          BY <5>1
      <4>2. cards[n] = card(m)
        BY <1>7, <4>1
      <4>3. loading.calm
        BY <2>1, <4>2 DEF card
      <4>4. rows[m].owned = OwnedCount(rows[m].volume)
        BY <1>2, <4>3 DEF ListingOK, CalmRight, rows
      <4>5. ReadCount(rows[m].volume) <= rows[m].owned
        BY <1>2, <4>4, ReadOfOwned
      <4> QED
        BY <4>2, <4>5 DEF card
    <3> QED
      BY <1>2, <3>1, <3>2
  <2>2. ReadWithinOwned'
    BY <1>7, <1>8, <2>1 DEF ReadWithinOwned
  <2> QED
    BY <1>1, <1>11, <2>2 DEF CalmRight, Idle
<1>15. CutRight'
  <2> SUFFICES ASSUME ~stirred, Untied PROVE CutRight'
    BY <1>1, <1>9 DEF CutRight
  <2> DEFINE N == Cardinality(Listed)
  <2>1. /\ from + L <= N /\ N \in Nat /\ loading.total = N
        /\ \A n \in 1..L : rows[n] = Whole[from + n]
        /\ rows = <<>> => from = N
        /\ had # <<>> => browser.total = N
        /\ \A n \in 1..from : had[n].volume = Whole[n].volume
    BY <1>1, <1>2, ListedIs DEF ListingOK, CutRight, rows, L, had, from
  <2> HIDE DEF N
  <2>2. total = N
    BY <2>1 DEF total
  <2>3. \A n \in 1..(from + L) : cards[n].volume = Whole[n].volume
    <3> SUFFICES ASSUME NEW n \in 1..(from + L) PROVE cards[n].volume = Whole[n].volume
      OBVIOUS
    <3>1. CASE n <= from
      <4>1. n \in 1..from
        BY <1>2, <3>1
      <4> QED
        BY <1>7, <2>1, <4>1
    <3>2. CASE n > from
      <4>1. n - from \in 1..L /\ n = from + (n - from)
        BY <1>2, <3>2
      <4>2. cards[n] = card(n - from)
        BY <1>7, <4>1
      <4>3. rows[n - from] = Whole[n]
        BY <2>1, <4>1
      <4> QED
        BY <4>2, <4>3 DEF card
    <3> QED
      BY <1>2, <3>1, <3>2
  <2>4. ~browser'.more => from + L = N
    <3>1. CASE added = <<>>
      <4>1. L = 0
        BY <1>6, <3>1
      <4>2. rows = <<>>
        BY <1>2, <4>1 DEF L
      <4> QED
        BY <1>2, <2>1, <4>1, <4>2
    <3>2. CASE ~(from + L < total)
      BY <1>2, <2>1, <2>2, <3>2
    <3> QED
      BY <1>8, <3>1, <3>2
  <2>5. loading'.pc = "idle" /\ Cardinality(Listed') = N
    BY <1>1, <1>9 DEF Idle, N
  <2> QED
    BY <1>7, <1>8, <1>9, <2>1, <2>2, <2>3, <2>4, <2>5 DEF CutRight
<1> QED
  BY <1>12, <1>13, <1>14, <1>15 DEF ListingOK

LEMMA PageFailed ==
    ASSUME ListingOK, FailPage
    PROVE  ListingOK'
<1>1. /\ loading' = Idle /\ UNCHANGED <<query, settled, finished, stirred>>
      /\ browser' = [browser EXCEPT !.more = FALSE, !.failed = TRUE]
  BY DEF FailPage
<1>2. /\ browser'.cards = browser.cards /\ browser'.total = browser.total
      /\ browser'.failed
      /\ browser' \in [cards : Seq(Cards), total : Nat, more : BOOLEAN, failed : BOOLEAN]
  BY <1>1 DEF ListingOK, LoadingRight
<1>3. /\ Listed' = Listed /\ Whole' = Whole /\ (Untied' <=> Untied)
  BY <1>1, SameList
<1>4. <<>> \in Seq(Keys) /\ Len(<<>>) = 0 /\ DOMAIN <<>> = {}
  OBVIOUS
<1>5. ListingTypes'
  BY <1>1, <1>2, <1>4 DEF ListingOK, ListingTypes, Idle
<1>6. LoadingRight'
  BY <1>1, <1>2, <1>4, CardsAndRows DEF ListingOK, ListingTypes, LoadingRight, Idle
<1>7. CalmRight'
  BY <1>1, <1>2, <1>4 DEF ListingOK, CalmRight, ReadWithinOwned, Idle
<1>8. CutRight'
  BY <1>1, <1>2, <1>3 DEF ListingOK, CutRight, Idle
<1> QED
  BY <1>5, <1>6, <1>7, <1>8 DEF ListingOK

LEMMA FileSettled ==
    ASSUME ListingOK, NEW f \in OwnedFiles, NEW i \in Issues \cup {NoIssue}, SettleFile(f, i)
    PROVE  ListingOK'
<1>1. /\ settled' = [settled EXCEPT ![f] = i] /\ stirred' = TRUE
      /\ loading' = [loading EXCEPT !.calm = loading.pc = "idle"]
      /\ UNCHANGED <<query, finished, browser>>
  BY DEF SettleFile
<1>2. /\ loading'.pc = loading.pc /\ loading'.keys = loading.keys
      /\ loading'.rows = loading.rows
      /\ loading'.calm <=> loading.pc = "idle"
      /\ loading' \in [pc : {"idle", "local", "hydrate", "count"}, keys : SUBSET Keys,
                       rows : Seq(Keys), total : Nat, calm : BOOLEAN]
  BY <1>1 DEF ListingOK, LoadingRight
<1>3. ListingTypes'
  BY <1>1, <1>2 DEF ListingOK, ListingTypes
<1>4. LoadingRight'
  BY <1>1, <1>2 DEF ListingOK, LoadingRight
<1>5. CalmRight'
  <2>1. ReadWithinOwned'
    BY <1>1 DEF ListingOK, CalmRight, ReadWithinOwned
  <2>2. DOMAIN <<>> = {}
    OBVIOUS
  <2>3. loading'.calm => loading'.keys = {} /\ loading'.rows = <<>>
    BY <1>2 DEF ListingOK, LoadingRight
  <2>4. loading'.calm => (\A n \in DOMAIN loading'.rows : FALSE)
    BY <2>2, <2>3
  <2> QED
    BY <2>1, <2>3, <2>4 DEF CalmRight
<1>6. CutRight'
  BY <1>1 DEF CutRight
<1> QED
  BY <1>3, <1>4, <1>5, <1>6 DEF ListingOK

LEMMA NothingSettled ==
    ASSUME ListingOK, UNCHANGED <<query, settled, browser, loading, stirred>>,
           finished' \subseteq OwnedFiles
    PROVE  ListingOK'
<1>1. /\ Listed' = Listed /\ Whole' = Whole /\ CvListed' = CvListed /\ (Untied' <=> Untied)
      /\ \A v : OwnedCount(v)' = OwnedCount(v)
  BY SameList
<1>2. ListingTypes' /\ LoadingRight'
  BY DEF ListingOK, ListingTypes, LoadingRight
<1>3. CalmRight'
  BY <1>1 DEF ListingOK, CalmRight, ReadWithinOwned
<1>4. CutRight'
  BY <1>1 DEF ListingOK, CutRight
<1> QED
  BY <1>2, <1>3, <1>4 DEF ListingOK

LEMMA ListingOKHolds == ListingSpec => []ListingOK
<1>1. ListingInit => ListingOK
  BY ListingStarts
<1>2. ListingOK /\ [ListingNext]_listingVars => ListingOK'
  <2> SUFFICES ASSUME ListingOK, [ListingNext]_listingVars PROVE ListingOK'
    OBVIOUS
  <2>1. CASE ScanKeys
    BY <2>1, KeysScanned
  <2>2. CASE CountRead
    BY <2>2, ReadCounted
  <2>3. CASE FailPage
    BY <2>3, PageFailed
  <2>4. ASSUME NEW size \in PageSizes, MergeKeys(size) PROVE ListingOK'
    BY <2>4, KeysMerged
  <2>5. ASSUME NEW gone \in SUBSET LocalVolumes, HydrateRows(gone) PROVE ListingOK'
    BY <2>5, RowsHydrated
  <2>6. ASSUME NEW f \in OwnedFiles, FinishFile(f) PROVE ListingOK'
    BY <2>6, NothingSettled DEF FinishFile, ListingOK, ListingTypes
  <2>7. ASSUME NEW f \in OwnedFiles, NEW i \in Issues \cup {NoIssue}, SettleFile(f, i)
        PROVE  ListingOK'
    BY <2>7, FileSettled
  <2>8. CASE UNCHANGED listingVars
    BY <2>8, NothingSettled DEF listingVars, ListingOK, ListingTypes
  <2> QED
    BY <2>1, <2>2, <2>3, <2>4, <2>5, <2>6, <2>7, <2>8 DEF ListingNext
<1> QED
  BY <1>1, <1>2, PTL DEF ListingSpec

\* The list's state: no more cards than there are volumes, however pages and
\* changes interleave.
THEOREM ListingTyped == ListingSpec => []ListingTypes
<1>1. ListingOK => ListingTypes
  BY DEF ListingOK
<1> QED
  BY <1>1, ListingOKHolds, PTL

\* A card never says that more is read than owned, unless a match changed while
\* its page was put together.
THEOREM ReadWithinOwnedHolds == ListingSpec => []ReadWithinOwned
<1>1. ListingOK => ReadWithinOwned
  BY DEF ListingOK, CalmRight
<1> QED
  BY <1>1, ListingOKHolds, PTL

\* The pages join: however many volumes, files and people there are, and whatever
\* sizes the pages are asked for in.
THEOREM PagesJoinHolds == ListingSpec => []PagesJoin
<1>1. ListingOK => PagesJoin
  <2> SUFFICES ASSUME ListingOK, ~stirred, Untied PROVE PagesJoin
    BY DEF PagesJoin
  <2>1. Len(Whole) = Cardinality(Listed)
    BY CardsAndRows, WholeIs
  <2>2. /\ Len(browser.cards) <= Len(Whole)
        /\ \A n \in DOMAIN browser.cards : browser.cards[n].volume = Whole[n].volume
        /\ (~browser.more /\ ~browser.failed) => Len(browser.cards) = Len(Whole)
    BY <2>1 DEF ListingOK, CutRight
  <2> QED
    BY <2>2 DEF PagesJoin, Whole
<1> QED
  BY <1>1, ListingOKHolds, PTL

=============================================================================
