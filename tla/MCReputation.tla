---------------------------- MODULE MCReputation ----------------------------
(* Reputation with constants for TLC.                                       *)
EXTENDS Reputation, TLC

CONSTANTS auditor, repairer, c1, c2

\* Of two processes that are alike the first call has the first.
OneAndEither == c1 :> {auditor} @@ c2 :> {auditor, repairer}
=============================================================================
