----------------------------- MODULE MCMetabase -----------------------------
(* Metabase with constants for TLC.                                        *)
EXTENDS Metabase, TLC

CONSTANTS a, b, c

\* Every location in a bucket of its own, and all of them in one bucket.
OwnBuckets == [l \in Locations |-> l]
OneBucket == [l \in Locations |-> "bucket"]

\* The order of keys.
KeyOrder == [l \in Locations |-> IF l = a THEN 1 ELSE IF l = b THEN 2 ELSE 3]

\* Locations in one bucket may be exchanged for one another, when nothing is due
\* and so the chores, which go by the order of keys, have nothing to select.
Symmetry == Permutations(Locations)
=============================================================================
