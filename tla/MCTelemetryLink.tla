--------------------------- MODULE MCTelemetryLink ---------------------------
(* Model checking of the telemetry of one sensor. *)
EXTENDS TelemetryLink

\* The second and the third reading have one timestamp.
TiedStamp == [n \in 0..MaxSeq |-> IF n < 2 THEN n ELSE n - 1]

\* Every reading with a timestamp of its own.
OwnStamp == [n \in 0..MaxSeq |-> n]
=============================================================================
