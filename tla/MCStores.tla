------------------------------- MODULE MCStores -------------------------------
(***************************************************************************)
(* Three components that keep state of their own under requests that overlap,  *)
(* for TLC in one run: the ComicVine cache, the local volumes and the gate of   *)
(* the pacer. They share nothing: a behaviour is one of a single component,      *)
(* and the others stay where they start.                                     *)
(***************************************************************************)
EXTENDS CvCache, LocalVolumes, Pacer, TLC

CONSTANT Parts      \* the components to run

VARIABLE part       \* the one that runs

StoresInit ==
    /\ part \in Parts
    /\ Init /\ LocalInit
    /\ PacerInit /\ (part = "pacer" \/ from = CHOOSE t \in Starts : TRUE)

StoresNext ==
    \/ part = "cache" /\ Next /\ UNCHANGED <<part, localVars, pacerVars>>
    \/ part = "local" /\ LocalNext /\ UNCHANGED <<part, vars, pacerVars>>
    \/ part = "pacer" /\ PacerNext /\ UNCHANGED <<part, vars, localVars>>

StoresSpec == StoresInit /\ [][StoresNext]_<<part, vars, localVars, pacerVars>>

MCSymmetry ==
    UNION {Permutations(S) : S \in {Issues, Requests, Callers}}

\* A caller's local variables count only while it still uses them.
Used(f, where) == [c \in Callers |-> IF at[c] \in where THEN f[c] ELSE 0]

MCView ==
    <<part, vars, localVars, now, IF Live THEN gate ELSE 0, expires, at,
      Used(attempt, {"acquire", "asleep", "admit", "calling"}),
      Used(looked, {"admit", "penalize"}), Used(next, {"admit", "penalize"}),
      Used(wake, {"asleep"}), Used(penalty, {"penalize"}),
      from, granted, Used(missed, {"admit", "penalize"}), lost,
      cool, {c \in blind : at[c] \in {"admit", "penalize"}}, spoiled>>

=============================================================================
