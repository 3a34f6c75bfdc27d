------------------------------ MODULE UplinkRx ------------------------------
(***************************************************************************)
(* The task that executes the ground station's commands                    *)
(* (satellite/src/uplink_rx.rs).                                           *)
(***************************************************************************)
EXTENDS SatelliteShared

\* The match of handle_command: the mode a command leaves behind.
CommandEffect(cmd) ==
  CASE cmd = "EmergencyStop" -> "MissionAbort"
    [] cmd = "SafeMode" /\ state \notin {"Fault", "MissionAbort"} -> "SafeMode"
    [] cmd = "ResetSensor" /\ state \in {"Fault", "SafeMode"} -> "Nominal"
    [] OTHER -> state

\* Every command but RequestTelemetry acts on the mode, under its mutex.
HandleCommand(cmd) ==
  /\ "uplink" \in running
  /\ cmd # "RequestTelemetry"
  /\ state' = CommandEffect(cmd)
  /\ resetDuring' = IF state \in {"Fault", "SafeMode"} /\ state' = "Nominal"
                    THEN "applied" ELSE resetDuring
  /\ UNCHANGED <<buf, rq, faultCh, cancelled, running, sentInAbort>>

\* RequestTelemetry: the packet, of either class, is in the telemetry cache and
\* is queued for retransmission; a full queue loses its oldest entries first.
\* A request that finds nothing in the cache changes nothing.
RequestTelemetry(c) ==
  /\ "uplink" \in running
  /\ rq' = Append(IF Len(rq) >= MaxRetransmit
                  THEN SubSeq(rq, Len(rq) - MaxRetransmit + 2, Len(rq))
                  ELSE rq, c)
  /\ UNCHANGED <<state, buf, faultCh, cancelled, running, resetDuring,
                 sentInAbort>>

\* The cancel branch, or the end of the connection: the task returns and no
\* further command is executed, while the other tasks go on.
UplinkClosed ==
  /\ "uplink" \in running
  /\ running' = running \ {"uplink"}
  /\ UNCHANGED <<state, buf, rq, faultCh, cancelled, resetDuring,
                 sentInAbort>>

UplinkCancel ==
  /\ Return("uplink")
  /\ UNCHANGED <<state, buf, rq, faultCh, cancelled, resetDuring,
                 sentInAbort>>

UplinkNext == \/ \E cmd \in Commands : HandleCommand(cmd)
              \/ "RequestTelemetry" \in Commands
                   /\ \E c \in Class : RequestTelemetry(c)
              \/ UplinkClosed
              \/ UplinkCancel
=============================================================================
