----------------------------- MODULE AtLeastOnce -----------------------------
(***************************************************************************)
(* What the match queue promises of a file, jobs and workers left out: a    *)
(* file that was handed in is judged, or listed as failed for an admin to   *)
(* look at, and is let go of only while an admin is clearing failed jobs.   *)
(***************************************************************************)

CONSTANT
    Files           \* rows of the table files

VARIABLES
    fate,           \* [Files -> Fates]
    clearing        \* whether a request that deletes failed jobs is under way

vars == <<fate, clearing>>

Fates == {"unknown", "pending", "judged", "listed", "dropped"}

Init ==
    /\ fate = [f \in Files |-> "unknown"]
    /\ clearing = FALSE

\* A job is enqueued for a file that has none, or its failed job is requeued.
Submit(f) ==
    /\ fate[f] \in {"unknown", "listed", "dropped"}
    /\ fate' = [fate EXCEPT ![f] = "pending"]
    /\ UNCHANGED clearing

\* Some job of the file stores a verdict. Verdicts are not withdrawn.
Judge(f) ==
    /\ fate[f] = "pending"
    /\ fate' = [fate EXCEPT ![f] = "judged"]
    /\ UNCHANGED clearing

\* The last job of the file that could run is in the failed registry.
GiveUp(f) ==
    /\ fate[f] = "pending"
    /\ fate' = [fate EXCEPT ![f] = "listed"]
    /\ UNCHANGED clearing

\* The last job of the file is deleted.
Drop(f) ==
    /\ clearing
    /\ fate[f] \in {"pending", "listed"}
    /\ fate' = [fate EXCEPT ![f] = "dropped"]
    /\ UNCHANGED clearing

\* A request that clears begins, or the last one ends.
Clear ==
    /\ clearing' = ~clearing
    /\ UNCHANGED fate

Next ==
    \/ \E f \in Files : Submit(f) \/ Judge(f) \/ GiveUp(f) \/ Drop(f)
    \/ Clear

Spec == Init /\ [][Next]_vars

=============================================================================
