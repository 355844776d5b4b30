---------------------------- MODULE MCSegmentLoop ----------------------------
(* SegmentLoop with constants for TLC.                                      *)
EXTENDS SegmentLoop, TLC

CONSTANTS a, b
=============================================================================
