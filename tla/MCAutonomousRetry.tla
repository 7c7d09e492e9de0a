------------------------- MODULE MCAutonomousRetry -------------------------
(***************************************************************************)
(* Instances of AutonomousRetry for TLC.                                   *)
(***************************************************************************)
EXTENDS AutonomousRetry

(* "No autonomous run should silently fail", for the one run that is not a *)
(* retry: with MaxOriginals = 1 it is the first, and only such a run can   *)
(* be Failing.                                                             *)
SettledUnlessLost == SettledInTheEnd(1)
=============================================================================
