---------------------------- MODULE ThermalSensor ----------------------------
(***************************************************************************)
(* The thermal task (satellite/src/sensor.rs): it counts consecutive       *)
(* samples outside the jitter limit, declares a fault when there are too   *)
(* many, and pushes every sample into the buffer.  The other two sensor    *)
(* tasks only push.                                                        *)
(***************************************************************************)
EXTENDS SatelliteShared

VARIABLES tpc,              \* "recv" at the select!, "push" after the alert
          consecutive_miss  \* saturating one above MissAlert

thermalVars == <<tpc, consecutive_miss>>

ThermalInit == tpc = "recv" /\ consecutive_miss = 0

\* A sample arrives from the timing thread.  The counter is compared after it
\* is updated; the mode is written under its mutex unless the mission is over.
ThermalSample(miss) ==
  /\ "thermal" \in running
  /\ tpc = "recv"
  /\ consecutive_miss' =
       IF ~miss THEN 0
       ELSE IF consecutive_miss > MissAlert THEN consecutive_miss
            ELSE consecutive_miss + 1
  /\ state' = IF consecutive_miss' >= MissAlert /\ state # "MissionAbort"
              THEN "Fault" ELSE state
  /\ tpc' = "push"
  /\ UNCHANGED <<buf, rq, faultCh, cancelled, running, resetDuring,
                 sentInAbort>>

\* The sample enters the buffer.
ThermalPush ==
  /\ "thermal" \in running
  /\ tpc = "push"
  /\ Push("crit")
  /\ tpc' = "recv"
  /\ UNCHANGED <<state, rq, faultCh, cancelled, running, resetDuring,
                 sentInAbort, consecutive_miss>>

ThermalCancel ==
  /\ tpc = "recv"
  /\ Return("thermal")
  /\ UNCHANGED <<state, buf, rq, faultCh, cancelled, resetDuring,
                 sentInAbort, thermalVars>>

ThermalNext == \/ \E miss \in Jitter : ThermalSample(miss)
               \/ ThermalPush
               \/ ThermalCancel

\* The power and the IMU task, from sample to buffer.
SoftSensorPush(t) ==
  /\ t \in running
  /\ Push("rest")
  /\ UNCHANGED <<state, rq, faultCh, cancelled, running, resetDuring,
                 sentInAbort>>

SoftSensorCancel(t) ==
  /\ Return(t)
  /\ UNCHANGED <<state, buf, rq, faultCh, cancelled, resetDuring,
                 sentInAbort>>

ThermalTypeOK == /\ tpc \in {"recv", "push"}
                 /\ consecutive_miss \in 0..(MissAlert + 1)
=============================================================================
