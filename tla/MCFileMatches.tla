---------------------------- MODULE MCFileMatches ----------------------------
(* Small instances of FileMatches for TLC. *)
EXTENDS FileMatches, TLC

MCSymmetry ==
    UNION {Permutations(S) : S \in {Files, Issues, LocalIds, Requests, Matchers}}

=============================================================================
