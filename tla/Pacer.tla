-------------------------------- MODULE Pacer --------------------------------
(***************************************************************************)
(* The pacing of ComicVine requests: the GCRA gate in Redis and the client *)
(* that passes it before every attempt.                                    *)
(*                                                                         *)
(* The gates of the resource types are independent, so one is modelled.    *)
(* Its Redis key holds a time, the theoretical arrival time (TAT), and     *)
(* lapses some time after it was last set.  Every process that talks to    *)
(* ComicVine, the web server and each worker, reads the key with GET and   *)
(* writes it with SET, with nothing to stop another from writing between.  *)
(* Times are natural numbers, where the code has floats; a caller takes    *)
(* the time and reads the key in one step.                                 *)
(***************************************************************************)
EXTENDS Naturals

CONSTANTS
    Callers,        \* coroutines that may be in a client request at a time
    Interval,       \* 3600 / DEFAULT_RATE_PER_HOUR
    Tolerance,      \* _burst_tolerance: DEFAULT_BURST intervals
    MaxInlineWait,  \* longest wait slept through inside acquire
    KeyTTL,         \* life of the gate key since it was last set
    Penalties,      \* cool-downs ComicVine may ask for
    MaxRetries,     \* attempts after the first
    Starts,         \* bound: where the window that counts requests may open
    Horizon         \* bound: the last time looked at

ASSUME PacerAssumption ==
    /\ Interval \in Nat \ {0}
    /\ {Tolerance, MaxInlineWait, KeyTTL, MaxRetries, Horizon} \subseteq Nat
    /\ Penalties \subseteq Nat \ {0}
    /\ Starts \subseteq Nat

\* An idle gate lapses only once it is open again.
ASSUME LapseAssumption == Tolerance + Interval <= KeyTTL

VARIABLES
    now,      \* the time
    gate,     \* the TAT the key was last set to
    expires,  \* when the key lapses: 0 while it was never set
    at,       \* where each caller is in _request, acquire and penalize
    attempt,  \* the attempt each caller is at
    looked,   \* when each caller last took the time
    next,     \* the TAT each caller is about to set
    wake,     \* when a sleeping caller looks again
    penalty,  \* the cool-down each caller is about to impose
    from,     \* history: the requests that took the time since then are counted
    granted,  \* history: one interval for each of them
    missed,   \* history: what was granted between a caller's GET and its SET
    lost,     \* history: what was granted and then overwritten by such a SET
    cool,     \* history: until when the cool-downs imposed can last, their key living KeyTTL
    blind,    \* history: the callers that read the gate before a cool-down was set
    spoiled   \* history: one of those has set the gate since

callerVars == <<at, attempt, looked, next, wake, penalty>>
windowVars == <<granted, missed, lost>>
coolVars == <<cool, blind, spoiled>>
pacerVars == <<now, gate, expires, callerVars, from, windowVars, coolVars>>

-----------------------------------------------------------------------------
Later(s, t) == IF s >= t THEN s ELSE t

Sooner(s, t) == IF s <= t THEN s ELSE t

Live == now < expires

\* Mutant: a stale TAT is not clamped up to the present.
TatMutant == IF Live THEN gate ELSE now

\* The TAT a caller reads: a lapsed key or a stale TAT means the gate is open now.
Tat == IF Live THEN Later(gate, now) ELSE now

PacerInit ==
    /\ now = 0
    /\ gate = 0
    /\ expires = 0
    /\ at = [c \in Callers |-> "idle"]
    /\ attempt = [c \in Callers |-> 0]
    /\ looked = [c \in Callers |-> 0]
    /\ next = [c \in Callers |-> 0]
    /\ wake = [c \in Callers |-> 0]
    /\ penalty = [c \in Callers |-> 0]
    /\ from \in Starts
    /\ granted = 0
    /\ missed = [c \in Callers |-> 0]
    /\ lost = 0
    /\ cool = 0
    /\ blind = {}
    /\ spoiled = FALSE

Tick ==
    /\ now < Horizon
    /\ now' = now + 1
    /\ UNCHANGED <<gate, expires, callerVars, from, windowVars, coolVars>>

-----------------------------------------------------------------------------
(* One request of the client *)

\* _request begins.
Begin(c) ==
    /\ at[c] = "idle"
    /\ at' = [at EXCEPT ![c] = "acquire"]
    /\ attempt' = [attempt EXCEPT ![c] = 0]
    /\ UNCHANGED <<now, gate, expires, looked, next, wake, penalty, from, windowVars, coolVars>>

\* The GET of c: it starts to miss what others set from now on.
Get(c, tat) ==
    /\ looked' = [looked EXCEPT ![c] = now]
    /\ next' = [next EXCEPT ![c] = tat]
    /\ missed' = [missed EXCEPT ![c] = 0]
    /\ blind' = blind \ {c}

\* acquire: take the time, read the gate and choose between the request's three
\* ways on, a slot, a short sleep or a ComicVineRateLimitError.
Look(c) ==
    /\ at[c] = "acquire" \/ (at[c] = "asleep" /\ wake[c] <= now)
    /\ Get(c, Tat + Interval)
    /\ \/ /\ Tat <= now + Tolerance
          /\ at' = [at EXCEPT ![c] = "admit"]
          /\ wake' = wake
       \/ /\ Tat > now + Tolerance
          /\ Tat - Tolerance - now <= MaxInlineWait
          /\ at' = [at EXCEPT ![c] = "asleep"]
          /\ wake' = [wake EXCEPT ![c] = Tat - Tolerance]
       \/ /\ Tat > now + Tolerance
          /\ Tat - Tolerance - now > MaxInlineWait
          /\ at' = [at EXCEPT ![c] = "idle"]
          /\ wake' = wake
    /\ UNCHANGED <<now, gate, expires, attempt, penalty, from, granted, lost, cool, spoiled>>

\* The SET of c, which overwrites what others set since its GET.
Set(c, counted) ==
    /\ gate' = next[c]
    /\ expires' = now + KeyTTL
    /\ granted' = granted + counted
    /\ lost' = lost + missed[c]
    /\ missed' = [d \in Callers |-> IF d = c THEN 0 ELSE missed[d] + counted]
    /\ spoiled' = (spoiled \/ c \in blind)

\* acquire sets the gate and returns: the HTTP request is sent.
Admit(c) ==
    /\ at[c] = "admit"
    /\ Set(c, IF looked[c] >= from THEN Interval ELSE 0)
    /\ at' = [at EXCEPT ![c] = "calling"]
    /\ UNCHANGED <<now, attempt, looked, next, wake, penalty, from, cool, blind>>

\* ComicVine answers, or an error that is not retried ends the request.
Answer(c) ==
    /\ at[c] = "calling"
    /\ at' = [at EXCEPT ![c] = "idle"]
    /\ UNCHANGED <<now, gate, expires, attempt, looked, next, wake, penalty, from, windowVars,
                   coolVars>>

\* A network error, a server error or a rate limit is retried, after a backoff,
\* through acquire again.
Retry(c) ==
    /\ at[c] = "calling"
    /\ attempt[c] < MaxRetries
    /\ attempt' = [attempt EXCEPT ![c] = @ + 1]
    /\ at' = [at EXCEPT ![c] = "acquire"]
    /\ UNCHANGED <<now, gate, expires, looked, next, wake, penalty, from, windowVars, coolVars>>

\* Mutant: the burst credit eats into the cool-down.
ExtendedShortMutant(s) == Later(Tat, now + s)

\* The gate shut for a cool-down of s, or longer when it was already.
Extended(s) == Later(Tat, now + s + Tolerance)

\* A rate limit on the last attempt: penalize takes the time and reads the gate.
Limited(c) ==
    /\ at[c] = "calling"
    /\ attempt[c] = MaxRetries
    /\ \E s \in Penalties :
        /\ penalty' = [penalty EXCEPT ![c] = s]
        /\ Get(c, Extended(s))
    /\ at' = [at EXCEPT ![c] = "penalize"]
    /\ UNCHANGED <<now, gate, expires, attempt, wake, from, granted, lost, cool, spoiled>>

\* penalize sets the gate and the request ends with a ComicVineRateLimitError.  The
\* cool-down ends when it is over or, however long Retry-After was, when the key lapses.
Penalize(c) ==
    /\ at[c] = "penalize"
    /\ Set(c, 0)
    /\ cool' = Later(cool, Sooner(looked[c] + penalty[c], now + KeyTTL))
    /\ blind' = {d \in Callers \ {c} : at[d] \in {"admit", "penalize"}}
    /\ at' = [at EXCEPT ![c] = "idle"]
    /\ UNCHANGED <<now, attempt, looked, next, wake, penalty, from>>

\* The caller's job is stopped, its process dies or Redis does not answer.
Die(c) ==
    /\ at[c] # "idle"
    /\ at' = [at EXCEPT ![c] = "idle"]
    /\ UNCHANGED <<now, gate, expires, attempt, looked, next, wake, penalty, from, windowVars,
                   coolVars>>

Step(c) ==
    \/ Begin(c) \/ Look(c) \/ Admit(c) \/ Answer(c) \/ Retry(c)
    \/ Limited(c) \/ Penalize(c) \/ Die(c)

PacerNext == Tick \/ \E c \in Callers : Step(c)

PacerSpec == PacerInit /\ [][PacerNext]_pacerVars

-----------------------------------------------------------------------------
(* Properties that hold *)

PacerTypeOK ==
    /\ now \in 0..Horizon
    /\ gate \in Nat
    /\ expires \in Nat
    /\ at \in [Callers -> {"idle", "acquire", "asleep", "admit", "calling", "penalize"}]
    /\ attempt \in [Callers -> 0..MaxRetries]
    /\ looked \in [Callers -> Nat]
    /\ next \in [Callers -> Nat]
    /\ wake \in [Callers -> Nat]
    /\ penalty \in [Callers -> Penalties \union {0}]
    /\ from \in Starts
    /\ granted \in Nat
    /\ missed \in [Callers -> Nat]
    /\ lost \in Nat
    /\ cool \in Nat
    /\ blind \subseteq Callers
    /\ spoiled \in BOOLEAN

\* The GCRA promise, for any number of processes and any window: the requests let
\* through are at most the rate, the burst and one more, plus those whose slot
\* another process overwrote between its GET and its SET.
RateBound ==
    from <= now => granted <= (now - from) + Tolerance + Interval + lost

\* The concurrency note's promise about penalize: unless a process that read the
\* gate before a cool-down set it afterwards, no slot is granted until the cool-down
\* is over, or has lasted as long as an untouched key lives.
CooldownKept ==
    [][\A c \in Callers :
        at[c] = "admit" /\ at'[c] = "calling" => now >= cool \/ spoiled']_pacerVars

\* Nobody is ever told to wait longer than the longest cool-down: rate limits met
\* by many processes at once do not add up.
WaitBounded ==
    Live => \E s \in Penalties \union {Interval} : gate <= now + s + Tolerance

(* The parts of the inductive invariant behind them. *)

Pending(c) == at[c] \in {"admit", "penalize"}

\* The gate accounts for every slot granted and not overwritten, and lapses no
\* earlier than the last of them is used up.
GateCounts ==
    /\ expires <= now + KeyTTL
    /\ granted > lost =>
        /\ from + granted <= gate + lost
        /\ from + granted + KeyTTL <= expires + Tolerance + Interval + lost

\* So does what a caller is about to set, but for the slots granted meanwhile.
NextCounts ==
    \A c \in Callers : Pending(c) =>
        /\ looked[c] <= now
        /\ granted > missed[c] + lost => from + granted <= next[c] + missed[c] + lost
        /\ at[c] = "admit" =>
            /\ looked[c] + Interval <= next[c]
            /\ next[c] <= looked[c] + Tolerance + Interval
            /\ granted > missed[c] + lost =>
                    from + granted + Interval <= next[c] + missed[c] + lost

\* Unless spoiled, the gate stays shut and its key lives until the cool-down is over, and a caller
\* about to set it found it open after the cool-down or keeps it shut.
GateShut ==
    /\ ~spoiled /\ now < cool => cool + Tolerance <= gate /\ cool <= expires
    /\ \A c \in Callers : Pending(c) /\ ~spoiled /\ c \notin blind /\ looked[c] < cool =>
            at[c] = "penalize" /\ cool + Tolerance <= next[c]
    /\ \A c \in Callers : at[c] = "penalize" =>
            /\ looked[c] + penalty[c] + Tolerance <= next[c]
            /\ penalty[c] \in Penalties

\* The waits of the gate, and of what a caller is about to set, are bounded.
WaitsBounded ==
    /\ WaitBounded
    /\ \A c \in Callers : Pending(c) =>
            \E s \in Penalties \union {Interval} : next[c] <= now + s + Tolerance

\* What the rate rests on.
RateInv == PacerTypeOK /\ GateCounts /\ NextCounts /\ WaitsBounded

\* With what the cool-down rests on.
PacerIInv == RateInv /\ GateShut

-----------------------------------------------------------------------------
(* What the comments promise and the code does not keep *)

\* The module's comment: after a real rate limit every process backs off for the
\* cool-down window, but for one extra call that was under way.  Here a caller that
\* reads the gate during the window finds it open.
EveryoneBacksOff ==
    [][\A c \in Callers :
        at[c] \in {"acquire", "asleep"} /\ at'[c] = "admit" => now >= cool]_pacerVars

=============================================================================
