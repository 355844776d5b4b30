--------------------------- MODULE MCPieceDeletion ---------------------------
(* PieceDeletion with constants for TLC.                                    *)
EXTENDS PieceDeletion, TLC

CONSTANTS a, b, m, n

\* One call for both nodes, and one for the first.
BothAndFirst == a :> {{m, n}} @@ b :> {{m}}

\* Jobs of one piece and of two: a queue of two pieces is filled and overflows.
Sizes == a :> 2 @@ b :> 1
=============================================================================
