--------------------------- MODULE MCSensorBuffer ---------------------------
(***************************************************************************)
(* Model checking of SensorBuffer.  The behaviour is finite because every  *)
(* sensor stops after MaxSamples readings; the buffer is then drained.     *)
(***************************************************************************)
EXTENDS SensorBuffer
=============================================================================
