--------------------------- MODULE MCContainment ---------------------------
(* Containment with constants for TLC.                                      *)
EXTENDS Containment, TLC

CONSTANTS p1, p2, n, a1, w1, w2

\* Both pieces are at one node.
AtOneNode == [p \in Pieces |-> n]

Similar == Permutations(Pieces) \union Permutations(Workers)
=============================================================================
