--------------------------- MODULE SatelliteShared ---------------------------
(***************************************************************************)
(* What the satellite's tasks share (satellite/src/main.rs): the mode, the *)
(* sensor buffer and the retransmission queue, each under a mutex of its   *)
(* own, the channel of fault packets, and the cancel signal.  Each action  *)
(* of a task is what it does between two points where it may be suspended  *)
(* with no mutex held.                                                     *)
(*                                                                         *)
(* Readings are told apart only by what the downlink does with them:       *)
(* "crit" is priority 1 (thermal), "rest" is priority 2 and 3.  The buffer *)
(* is then two counts; module SensorBuffer has the buffer itself.          *)
(***************************************************************************)
EXTENDS Packets, Integers, Sequences, FiniteSets

CONSTANTS Capacity,        \* SENSOR_BUFFER_CAPACITY
          Batch,           \* packets downlink_tx sends per window (10)
          MissAlert,       \* THERMAL_MISS_ALERT
          RecoveryPolls,   \* polls of the mode within FAULT_RECOVERY_LIMIT_MS
          MaxRetransmit,   \* MAX_RETRANSMIT_QUEUE
          FaultChCap,      \* capacity of the channel of fault packets (100)
          SoftSensors,     \* the sensor tasks besides the thermal one
          Jitter,          \* may a thermal sample miss its jitter limit?
          Commands,        \* commands the ground station sends
          Cancellers       \* who may send the cancel signal

ASSUME ConstantsAssumption ==
  /\ Capacity \in Nat \ {0} /\ Batch \in Nat \ {0}
  /\ MissAlert \in Nat \ {0} /\ RecoveryPolls \in Nat \ {0}
  /\ MaxRetransmit \in Nat \ {0} /\ FaultChCap \in Nat \ {0}
  /\ SoftSensors \subseteq {"power", "imu"}
  /\ Jitter \subseteq BOOLEAN
  /\ Commands \subseteq CommandType
  /\ Cancellers \subseteq {"ui", "main"}

VARIABLES state,      \* SystemState
          buf,        \* readings of each class in the sensor buffer
          rq,         \* retransmit_q, by class of packet
          faultCh,    \* fault packets waiting in the channel
          cancelled,  \* who has sent the cancel signal
          running,    \* tasks that have not returned
          resetDuring, \* history: ResetSensor since the last injected fault
          sentInAbort  \* history: telemetry sends begun after the abort

shared == <<state, buf, rq, faultCh, cancelled, running, resetDuring,
            sentInAbort>>

SystemState == {"Nominal", "Degraded", "SafeMode", "Fault", "MissionAbort"}
Class == {"crit", "rest"}
Task == {"thermal", "downlink", "uplink", "injector"} \cup SoftSensors

Size == buf["crit"] + buf["rest"]

\* SensorBuffer::is_degraded, true to the fill level at all times
\* (SensorBuffer!DegradedIsCurrent).
IsDegraded == 5 * Size >= 4 * Capacity

\* A mutant: a full buffer takes one reading more.
Push_OffByOne(c) ==
  buf' = IF Size <= Capacity THEN [buf EXCEPT ![c] = @ + 1] ELSE buf

\* SensorBuffer::push: a full buffer makes room for a critical reading while
\* it holds others; otherwise what is dropped is of the class of the incoming
\* reading and the counts stay.
Push(c) ==
  buf' = IF Size < Capacity THEN [buf EXCEPT ![c] = @ + 1]
         ELSE IF c = "crit" /\ buf["rest"] > 0
              THEN [buf EXCEPT !["crit"] = @ + 1, !["rest"] = @ - 1]
              ELSE buf

\* SensorBuffer::pop takes a critical reading while there is one.
Pop(c) == /\ buf[c] > 0
          /\ c = "rest" => buf["crit"] = 0
          /\ buf' = [buf EXCEPT ![c] = @ - 1]

\* A task's select! takes its cancel branch: it breaks and returns.
Return(t) == /\ t \in running
             /\ cancelled # {}
             /\ running' = running \ {t}

SharedInit ==
  /\ state = "Nominal"
  /\ buf = [c \in Class |-> 0]
  /\ rq = <<>>
  /\ faultCh = 0
  /\ cancelled = {}
  /\ running = Task
  /\ resetDuring = "no"
  /\ sentInAbort = 0

\* Types of the shared state.
SharedTypeOK ==
  /\ state \in SystemState
  /\ buf \in [Class -> Nat]
  /\ Size <= Capacity
  /\ rq \in Seq(Class)
  /\ Len(rq) <= MaxRetransmit
  /\ faultCh \in 0..FaultChCap
  /\ cancelled \subseteq Cancellers
  /\ running \subseteq Task
  /\ resetDuring \in {"no", "applied", "missed"}
  /\ sentInAbort \in Nat
=============================================================================
