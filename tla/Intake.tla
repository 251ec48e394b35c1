------------------------------- MODULE Intake --------------------------------
(***************************************************************************)
(* What becomes of a file from the moment the scanner stores it, the disk,  *)
(* the tables, jobs and workers left out. AtLeastOnce says what the match   *)
(* queue promises of a file that was handed in; this adds how it is handed   *)
(* in: by the scan that stored it, by a Match all pass that finds it in the  *)
(* table, or, when the scan dies with the file in its hand, not at all        *)
(* until the next pass.                                                    *)
(***************************************************************************)
EXTENDS Naturals

CONSTANTS
    Files,          \* contents that may be stored
    Nobody          \* no file

VARIABLES
    stage,          \* [Files -> Stages]
    hand,           \* the file the scan has stored and not yet handed in
    clearing,       \* whether a request that deletes failed jobs is under way
    troubles        \* how often a scan met an error or was killed

vars == <<stage, hand, clearing, troubles>>

Stages == {"absent", "new", "pending", "judged", "listed", "dropped"}

Init ==
    /\ stage = [f \in Files |-> "absent"]
    /\ hand = Nobody
    /\ clearing = FALSE
    /\ troubles = 0

\* The scan stores a new file, one at a time.
Store(f) ==
    /\ hand = Nobody
    /\ stage[f] = "absent"
    /\ stage' = [stage EXCEPT ![f] = "new"]
    /\ hand' = f
    /\ UNCHANGED <<clearing, troubles>>

\* The scan hands it in. A pass may have been faster, and even its job may be done.
HandIn ==
    /\ hand # Nobody
    /\ stage' = [stage EXCEPT ![hand] = IF @ = "judged" THEN "judged" ELSE "pending"]
    /\ hand' = Nobody
    /\ UNCHANGED <<clearing, troubles>>

\* The scan meets an error; or it is killed, and what it has in its hand is lost to it.
Stumble ==
    /\ troubles' = troubles + 1
    /\ hand' \in {hand, Nobody}
    /\ UNCHANGED <<stage, clearing>>

\* A pass or an admin enqueues a job for a stored file that has none.
Submit(f) ==
    /\ stage[f] \in {"new", "listed", "dropped"}
    /\ stage' = [stage EXCEPT ![f] = "pending"]
    /\ UNCHANGED <<hand, clearing, troubles>>

\* Some job of the file stores a verdict, or the last one fails, or is deleted.
Judge(f) ==
    /\ stage[f] = "pending"
    /\ stage' = [stage EXCEPT ![f] = "judged"]
    /\ UNCHANGED <<hand, clearing, troubles>>

GiveUp(f) ==
    /\ stage[f] = "pending"
    /\ stage' = [stage EXCEPT ![f] = "listed"]
    /\ UNCHANGED <<hand, clearing, troubles>>

Drop(f) ==
    /\ clearing
    /\ stage[f] \in {"pending", "listed"}
    /\ stage' = [stage EXCEPT ![f] = "dropped"]
    /\ UNCHANGED <<hand, clearing, troubles>>

\* A request that clears begins, or the last one ends.
Clear ==
    /\ clearing' = ~clearing
    /\ UNCHANGED <<stage, hand, troubles>>

Next ==
    \/ \E f \in Files : Store(f) \/ Submit(f) \/ Judge(f) \/ GiveUp(f) \/ Drop(f)
    \/ HandIn \/ Stumble \/ Clear

Spec == Init /\ [][Next]_vars

=============================================================================
