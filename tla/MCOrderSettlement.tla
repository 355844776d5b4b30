------------------------- MODULE MCOrderSettlement -------------------------
(* OrderSettlement with constants for TLC.                                  *)
EXTENDS OrderSettlement, TLC

CONSTANTS o1, o2

\* A download and a repair in the first window, at its start and at its end.
TwoCreated == o1 :> 0 @@ o2 :> 1
TwoAmounts == o1 :> 1 @@ o2 :> 1
TwoActions == o1 :> "GET" @@ o2 :> "PUT"

\* The keys of the cache.
SettledKeys == UserActions \X Windows
=============================================================================
