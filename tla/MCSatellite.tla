----------------------------- MODULE MCSatellite -----------------------------
(***************************************************************************)
(* Model checking of the satellite as a whole.  The configurations differ  *)
(* in what the environment does: commands, cancel signals, jitter.         *)
(***************************************************************************)
EXTENDS Satellite
=============================================================================
