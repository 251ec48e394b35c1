----------------------------- MODULE MCPipeline ------------------------------
(***************************************************************************)
(* Small instances of Pipeline for TLC. To keep the two components' states   *)
(* from multiplying, a behaviour is one of three kinds:                     *)
(*   "scans"   all of Pipeline but the failed-jobs page; the disk changes once,  *)
(*             and a scan starts only when there is something for it to find    *)
(*   "stirs"   the disk changes again and again, and a malformed file that is    *)
(*             written back ends every scan; nothing fails                     *)
(*   "queue"   one scan brings a file up to the commit, then only the match    *)
(*             queue goes on, the scan's call and the failed-jobs page with it  *)
(* All are behaviours of Pipeline.                                          *)
(***************************************************************************)
EXTENDS Pipeline, TLC

CONSTANT Kinds

VARIABLE kind

MCLibrary == [p \in Paths |-> CHOOSE l \in Libraries : TRUE]

MCSize == [f \in Files |-> 1]

\* There is something for a scan to find.
Due == \E p \in Paths : ~Scan!Faithful(p)

\* Where the scanner goes on by itself.
Walking == kind # "queue" \/ Stored = {}

MCInit == PipelineInit /\ kind \in Kinds

MCNext ==
    /\ PipelineNext
    /\ UNCHANGED kind
    /\ (pc \in {"idle", "done"} /\ pc' = "walk") => Due
    /\ Walking \/ scanned' # scanned \/ UNCHANGED scanVars
    /\ kind = "queue" \/ UNCHANGED admin
    /\ kind = "scans" \/ UNCHANGED scanFaults
    /\ kind = "stirs" \/ changes' <= 1
    /\ kind # "stirs" \/ UNCHANGED counters

\* That of Pipeline, for what is left of the scanner's steps.
MCFairness ==
    /\ Fairness
    /\ WF_pipelineVars(Walking /\ Due /\ Scan!StartScan /\ UNCHANGED vars)
    /\ WF_pipelineVars((Walking /\ Scan!WalkStep /\ UNCHANGED vars) \/ HandIn)

MCSpec == MCInit /\ [][MCNext]_<<kind, vars, scanVars>> /\ MCFairness

=============================================================================
