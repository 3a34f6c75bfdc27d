------------------------------- MODULE Packets -------------------------------
(***************************************************************************)
(* Vocabulary shared by the satellite and the ground station: the sensors, *)
(* the priority a telemetry packet gets from its sensor, and the commands  *)
(* the ground station may send (shared/src/packets.rs).                    *)
(***************************************************************************)
EXTENDS Naturals

SensorId == {"Thermal", "Power", "Imu"}

\* TelemetryPacket::new: 1 is the highest priority, 3 the lowest.
PriorityOf ==
  [s \in SensorId |-> IF s = "Thermal" THEN 1
                      ELSE IF s = "Power" THEN 2 ELSE 3]

CommandType ==
  {"NoOp", "EmergencyStop", "SafeMode", "ResetSensor", "AdjustAntenna",
   "RequestTelemetry", "Heartbeat"}
=============================================================================
