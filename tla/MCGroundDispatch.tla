-------------------------- MODULE MCGroundDispatch --------------------------
(* Model checking of what the ground station's uplink sends. *)
EXTENDS GroundDispatch
=============================================================================
