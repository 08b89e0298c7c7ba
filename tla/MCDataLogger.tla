---------------------------- MODULE MCDataLogger ----------------------------
(***************************************************************************)
(* Instances of DataLogger for TLC.                                        *)
(***************************************************************************)
EXTENDS DataLogger

NoHazards == {}
Interrupted == {"interrupted"}
AnyHazard == {"concurrent", "interrupted"}
=============================================================================
