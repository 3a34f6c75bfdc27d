--------------------------- MODULE MCGroundControl ---------------------------
(* Model checking of the ground station. *)
EXTENDS GroundControl
=============================================================================
