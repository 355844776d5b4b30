-------------------------- MODULE MCGracefulExit ---------------------------
(* GracefulExit with constants for TLC.                                     *)
EXTENDS GracefulExit, TLC

CONSTANTS e, a, b, s1, s2, s3

\* Node e exits, and has lost its piece of s2.  Segment s3 has more pieces than
\* it needs.
OfTwo(x, y) == (1 :> x) @@ (2 :> y)
Missing == (s1 :> OfTwo(e, a)) @@ (s2 :> OfTwo(e, b))
Spared == (s1 :> OfTwo(e, a)) @@ (s3 :> OfTwo(e, a))

LostPieces == {<<s2, 1>>}
Shares == [s \in Segments |-> IF s = s3 THEN 1 ELSE 2]
=============================================================================
