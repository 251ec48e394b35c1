------------------------------ MODULE MCScanner ------------------------------
(* Small instances of Scanner for TLC. *)
EXTENDS Scanner, TLC

CONSTANTS l1, l2, p1, p2, c1, c2

MCLibrary == [p \in Paths |-> l1]

MCTwoLibraries == [p \in Paths |-> IF p = p1 THEN l1 ELSE l2]

MCSize == [c \in Contents |-> IF c = c2 THEN 2 ELSE 1]

MCSymmetry == Permutations(Paths)

=============================================================================
