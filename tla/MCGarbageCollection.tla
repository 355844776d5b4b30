------------------------ MODULE MCGarbageCollection ------------------------
(* GarbageCollection with constants for TLC.                                *)
EXTENDS GarbageCollection, TLC

CONSTANTS s, t, p, q

PieceOfEach == p :> s @@ q :> t

\* The clock of the node is as late as it may be.
Late == -1

Mistakes == {{}, {p}}
=============================================================================
