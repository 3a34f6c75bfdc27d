---------------------------- MODULE MCSensorWatch ----------------------------
(***************************************************************************)
(* Model checking of a sensor and its watchdog.                            *)
(***************************************************************************)
EXTENDS SensorWatch
=============================================================================
