-------------------------- MODULE MCMissionControl --------------------------
(***************************************************************************)
(* Model checking of a whole mission.                                      *)
(***************************************************************************)
EXTENDS MissionControl
=============================================================================
