------------------------ MODULE MissionControlProofs ------------------------
(***************************************************************************)
(* Proofs about a whole mission, for any number of faults dealt with at    *)
(* one time, any capacity of the socket and of the fault channel, any      *)
(* number of polls of the mode, and shutdown from either side or both.     *)
(***************************************************************************)
EXTENDS MissionControl, CommonFacts, FiniteSetTheorems, TLAPS

\* What is proved of the station by itself.  None of it that is used here is
\* about the history of its dispatches.
GndProofs == INSTANCE GroundControlProofs
               WITH NumSensors <- 1, GapLimit <- 1, MaxQueue <- 1,
                    LinkCloses <- TRUE, slipped <- 0, lead <- 0

LEMMA StationConstants == GndProofs!GroundAssumption
<1> QED BY MissionAssumption DEF GndProofs!GroundAssumption

\* The station by itself does the same, whichever instance it is named in.
LEMMA SameStation ==
  /\ Gnd!Init => GndProofs!Init
  /\ [Gnd!Next]_Gnd!vars => [GndProofs!Next]_GndProofs!vars
<1>1. Gnd!Faults => GndProofs!Faults
  BY DEF Gnd!Faults, GndProofs!Faults, Gnd!FaultMgrNext,
         GndProofs!FaultMgrNext, Gnd!ReceiveFault, GndProofs!ReceiveFault,
         Gnd!ApplyInterlock, GndProofs!ApplyInterlock, Gnd!RaiseAlert,
         GndProofs!RaiseAlert, Gnd!CommandSafeMode,
         GndProofs!CommandSafeMode, Gnd!uplinkVars, GndProofs!uplinkVars,
         Gnd!telemetryVars, GndProofs!telemetryVars, Gnd!Enqueue,
         GndProofs!Enqueue, Gnd!Urgency, GndProofs!Urgency, Gnd!Emergency,
         GndProofs!Emergency
<1>2. Gnd!Timers => GndProofs!Timers
  BY DEF Gnd!Timers, GndProofs!Timers, Gnd!TimerNext, GndProofs!TimerNext,
         Gnd!LiftInterlock, GndProofs!LiftInterlock, Gnd!CommandReset,
         GndProofs!CommandReset, Gnd!uplinkVars, GndProofs!uplinkVars,
         Gnd!telemetryVars, GndProofs!telemetryVars, Gnd!Enqueue,
         GndProofs!Enqueue, Gnd!Urgency, GndProofs!Urgency, Gnd!Emergency,
         GndProofs!Emergency
<1>3. Gnd!Uplink => GndProofs!Uplink
  BY DEF Gnd!Uplink, GndProofs!Uplink, Gnd!UplinkTxNext,
         GndProofs!UplinkTxNext, Gnd!TakeCommand, GndProofs!TakeCommand,
         Gnd!NextLane, GndProofs!NextLane, Gnd!CheckState,
         GndProofs!CheckState, Gnd!Blocking, GndProofs!Blocking,
         Gnd!Urgency, GndProofs!Urgency, Gnd!Emergency, GndProofs!Emergency,
         Gnd!Dispatch, GndProofs!Dispatch, Gnd!faultVars,
         GndProofs!faultVars, Gnd!telemetryVars, GndProofs!telemetryVars
<1>4. Gnd!Heartbeat => GndProofs!Heartbeat
  BY DEF Gnd!Heartbeat, GndProofs!Heartbeat, Gnd!HeartbeatNext,
         GndProofs!HeartbeatNext, Gnd!HeartbeatDue, GndProofs!HeartbeatDue,
         Gnd!QueueHeartbeat, GndProofs!QueueHeartbeat, Gnd!RoomFor,
         GndProofs!RoomFor, Gnd!faultVars, GndProofs!faultVars,
         Gnd!telemetryVars, GndProofs!telemetryVars, Gnd!Enqueue,
         GndProofs!Enqueue, Gnd!Urgency, GndProofs!Urgency, Gnd!Emergency,
         GndProofs!Emergency
<1>5. Gnd!TelemetryRxNext => GndProofs!TelemetryRxNext
  BY DEF Gnd!TelemetryRxNext, GndProofs!TelemetryRxNext, Gnd!FrameUnseen,
         GndProofs!FrameUnseen, Gnd!FirstFrame, GndProofs!FirstFrame,
         Gnd!FrameInOrder, GndProofs!FrameInOrder, Gnd!FrameAfterGap,
         GndProofs!FrameAfterGap, Gnd!FrameSettled, GndProofs!FrameSettled,
         Gnd!Quiet, GndProofs!Quiet, Gnd!QuietSettled,
         GndProofs!QuietSettled, Gnd!AskForLate, GndProofs!AskForLate,
         Gnd!LinkClosed, GndProofs!LinkClosed, Gnd!Receiving,
         GndProofs!Receiving, Gnd!Saturated, GndProofs!Saturated,
         Gnd!RoomFor, GndProofs!RoomFor, Gnd!TelemetryReset,
         GndProofs!TelemetryReset, Gnd!Enqueue, GndProofs!Enqueue,
         Gnd!Urgency, GndProofs!Urgency, Gnd!Emergency, GndProofs!Emergency
<1>6. Gnd!FaultArrives => GndProofs!FaultArrives
  BY DEF Gnd!FaultArrives, GndProofs!FaultArrives, Gnd!FaultFrame,
         GndProofs!FaultFrame, Gnd!Receiving, GndProofs!Receiving,
         Gnd!Pending, GndProofs!Pending, Gnd!faultVars, GndProofs!faultVars,
         Gnd!uplinkVars, GndProofs!uplinkVars, Gnd!telemetryVars,
         GndProofs!telemetryVars
<1>7. Gnd!CleanUp => GndProofs!CleanUp
  BY DEF Gnd!CleanUp, GndProofs!CleanUp, Gnd!ClearQueue,
         GndProofs!ClearQueue, Gnd!Joined, GndProofs!Joined, Gnd!Dropped, GndProofs!Dropped, Gnd!Task,
         GndProofs!Task, Gnd!Ended, GndProofs!Ended, Gnd!TelemetryReset,
         GndProofs!TelemetryReset, Gnd!faultVars, GndProofs!faultVars,
         Gnd!uplinkVars, GndProofs!uplinkVars, Gnd!telemetryVars,
         GndProofs!telemetryVars
<1>8. Gnd!Cancellation => GndProofs!Cancellation
  BY DEF Gnd!Cancellation, GndProofs!Cancellation, Gnd!StopAccepting,
         GndProofs!StopAccepting, Gnd!TaskCancelled,
         GndProofs!TaskCancelled, Gnd!AtSelect, GndProofs!AtSelect,
         Gnd!Task, GndProofs!Task, Gnd!Ended, GndProofs!Ended,
         Gnd!TelemetryReset, GndProofs!TelemetryReset, Gnd!faultVars,
         GndProofs!faultVars, Gnd!uplinkVars, GndProofs!uplinkVars,
         Gnd!telemetryVars, GndProofs!telemetryVars
<1>9. Gnd!Accept => GndProofs!Accept
  BY DEF Gnd!Accept, GndProofs!Accept, Gnd!Task, GndProofs!Task,
         Gnd!faultVars, GndProofs!faultVars, Gnd!uplinkVars,
         GndProofs!uplinkVars, Gnd!telemetryVars, GndProofs!telemetryVars
<1>10. Gnd!SendCancel => GndProofs!SendCancel
  BY DEF Gnd!SendCancel, GndProofs!SendCancel, Gnd!faultVars,
         GndProofs!faultVars, Gnd!uplinkVars, GndProofs!uplinkVars,
         Gnd!telemetryVars, GndProofs!telemetryVars
<1>11. Gnd!Telemetry => GndProofs!Telemetry
  BY <1>5 DEF Gnd!Telemetry, GndProofs!Telemetry, Gnd!faultVars,
         GndProofs!faultVars, Gnd!uplinkVars, GndProofs!uplinkVars
<1>12. Gnd!Init => GndProofs!Init
  BY DEF Gnd!Init, GndProofs!Init, Gnd!GroundInit, GndProofs!GroundInit,
         Gnd!Task, GndProofs!Task, Gnd!FaultInit, GndProofs!FaultInit,
         Gnd!UplinkInit, GndProofs!UplinkInit, Gnd!TelemetryInit,
         GndProofs!TelemetryInit
<1>13. Gnd!Next => GndProofs!Next
  BY <1>1, <1>2, <1>3, <1>4, <1>6, <1>7, <1>8, <1>9, <1>10, <1>11
     DEF Gnd!Next, GndProofs!Next, Gnd!Work, GndProofs!Work
<1>14. UNCHANGED Gnd!vars => UNCHANGED GndProofs!vars
  BY DEF Gnd!vars, GndProofs!vars, Gnd!ground, GndProofs!ground,
         Gnd!faultVars, GndProofs!faultVars, Gnd!uplinkVars,
         GndProofs!uplinkVars, Gnd!telemetryVars, GndProofs!telemetryVars
<1> QED BY <1>12, <1>13, <1>14

-----------------------------------------------------------------------------
(***************************************************************************)
(* Each side does in a mission what it may do by itself.                   *)
(***************************************************************************)

\* The station's part in each step.
LEMMA StationStep == [Next]_vars => [Gnd!Next]_Gnd!vars
<1> SUFFICES ASSUME [Next]_vars PROVE [Gnd!Next]_Gnd!vars
  OBVIOUS
<1> USE DEF Gnd!Next, Gnd!Work, Gnd!vars, Gnd!ground, Gnd!faultVars, Gnd!uplinkVars,
            Gnd!telemetryVars, faultVars, uplinkVars, telemetryVars
<1>1. CASE UNCHANGED station
  BY <1>1 DEF station
<1>2. CASE FaultReceived
  BY <1>2 DEF FaultReceived
<1>3. CASE DownlinkEnds
  BY <1>3 DEF DownlinkEnds, Gnd!Telemetry, Gnd!TelemetryRxNext
<1>4. CASE CommandSent \/ CommandUnsent
  BY <1>4 DEF CommandSent, CommandUnsent, Gnd!Uplink, Gnd!UplinkTxNext
<1>5. CASE StationAlone
  BY <1>5 DEF StationAlone, NextCommand, Gnd!Uplink, Gnd!UplinkTxNext
<1>6. CASE FaultSent \/ CommandReceived \/ UplinkEnds \/ SatelliteAlone \/ UNCHANGED vars
  <2>1. UNCHANGED station
    BY <1>6 DEF FaultSent, CommandReceived, UplinkEnds, SatelliteAlone, vars
  <2> QED BY <1>1, <2>1
<1> QED BY <1>2, <1>3, <1>4, <1>5, <1>6 DEF Next

Emergencies == {"SafeMode", "ResetSensor"}

\* The satellite's part in each step.
LEMMA SatelliteStep == up \in Seq(Emergencies) /\ [Next]_vars => [Sat!Next]_Sat!vars
<1> SUFFICES ASSUME up \in Seq(Emergencies), [Next]_vars PROVE [Sat!Next]_Sat!vars
  OBVIOUS
<1> USE DEF Sat!Next, Sat!vars, Sat!shared, Sat!thermalVars, Sat!downlinkVars,
            Sat!injectorVars, thermalVars, downlinkVars, injectorVars
<1>1. CASE UNCHANGED satellite
  BY <1>1 DEF satellite
<1>2. CASE FaultSent
  BY <1>2 DEF FaultSent, Sat!Downlink, Sat!DownlinkNext
<1>3. CASE CommandReceived
  <2>1. Head(up) \in {"SafeMode", "ResetSensor"}
    BY <1>3 DEF CommandReceived, Emergencies
  <2> QED BY <1>3, <2>1 DEF CommandReceived, Sat!Uplink, Sat!UplinkNext
<1>4. CASE UplinkEnds
  BY <1>4 DEF UplinkEnds, Sat!Uplink, Sat!UplinkNext
<1>5. CASE SatelliteAlone
  <2>1. CASE Window
    BY <2>1 DEF Window, Sat!Downlink, Sat!DownlinkNext
  <2>2. CASE Sat!Injector
    BY <2>2
  <2>3. CASE SatelliteCancels
    BY <2>3 DEF SatelliteCancels, Sat!Downlink, Sat!DownlinkNext, Sat!Uplink,
                Sat!UplinkNext
  <2>4. CASE \E w \in Cancellers : Sat!Cancel(w)
    BY <2>4
  <2> QED BY <1>5, <2>1, <2>2, <2>3, <2>4 DEF SatelliteAlone
<1>6. CASE \/ FaultReceived \/ DownlinkEnds \/ CommandSent \/ CommandUnsent
           \/ StationAlone \/ UNCHANGED vars
  <2>1. UNCHANGED satellite
    BY <1>6 DEF FaultReceived, DownlinkEnds, CommandSent, CommandUnsent, StationAlone,
                vars
  <2> QED BY <1>1, <2>1
<1> QED BY <1>2, <1>3, <1>4, <1>5, <1>6 DEF Next

\* The station of a mission is the station of module GroundControl: the
\* satellite and the connection only choose among what its environment may do.
THEOREM StationImplements == Spec => Gnd!Spec
<1>1. Init => Gnd!Init
  BY DEF Init
<1> QED BY <1>1, StationStep, PTL DEF Spec, Gnd!Spec

-----------------------------------------------------------------------------
(***************************************************************************)
(* Only emergencies travel: the heartbeat and the requests are silent.     *)
(***************************************************************************)

StationTypes == /\ queue \in [1..3 -> Seq(Gnd!Command)]
                /\ inbox \in Nat /\ armed \in Nat /\ clearing \in Nat
                /\ upc = "tick" <=> ucmd = "none"
                /\ session # "up" => "telemetry_rx" \notin alive

PipeInv == /\ StationTypes
           /\ queue[2] = <<>> /\ queue[3] = <<>> /\ queue[1] \in Seq(Emergencies)
           /\ ucmd \in Emergencies \cup {"none"} /\ up \in Seq(Emergencies)
           /\ down \in Nat /\ owed \in Int /\ unsent \in BOOLEAN

LEMMA StationInvTypes ==
  GndProofs!IInv => StationTypes /\ \A i \in DOMAIN queue[1] : queue[1][i] \in Emergencies
<1> SUFFICES ASSUME GndProofs!IInv
             PROVE  StationTypes /\ \A i \in DOMAIN queue[1] : queue[1][i] \in Emergencies
  OBVIOUS
<1>1. GndProofs!QueueOK /\ GndProofs!RestOK /\ GndProofs!NobodyLeft
  BY DEF GndProofs!IInv
<1>2. queue \in [1..3 -> Seq(Gnd!Command)]
  BY <1>1 DEF GndProofs!QueueOK, GndProofs!Command, GndProofs!Emergency, Gnd!Command,
              Gnd!Emergency
<1>3. inbox \in Nat /\ armed \in Nat /\ clearing \in Nat /\ (upc = "tick" <=> ucmd = "none")
  BY <1>1, MissionAssumption
     DEF GndProofs!RestOK, GndProofs!FaultTypeOK, GndProofs!UplinkTypeOK
<1>4. ASSUME NEW i \in DOMAIN queue[1] PROVE queue[1][i] \in Emergencies
  <2>1. GndProofs!Urgency(queue[1][i]) = 1
    BY <1>1 DEF GndProofs!QueueOK
  <2> QED BY <2>1 DEF GndProofs!Urgency, GndProofs!Emergency, Emergencies
<1>5. session # "up" => "telemetry_rx" \notin alive
  BY <1>1 DEF GndProofs!NobodyLeft
<1> QED BY <1>2, <1>3, <1>4, <1>5 DEF StationTypes

LEMMA SeqOfEmergencies ==
  ASSUME NEW q \in Seq(Gnd!Command), \A i \in DOMAIN q : q[i] \in Emergencies
  PROVE  q \in Seq(Emergencies)
<1>1. q \in [1..Len(q) -> Emergencies] /\ Len(q) \in Nat
  OBVIOUS
<1> QED BY <1>1

LEMMA EmergenciesAreQueued ==
  ASSUME PipeInv, NEW cmd \in Emergencies, Gnd!Enqueue(cmd)
  PROVE  queue' = [queue EXCEPT ![1] = Append(queue[1], cmd)]
<1> QED BY DEF Gnd!Enqueue, Gnd!Urgency, Gnd!Emergency, Emergencies

-----------------------------------------------------------------------------
(***************************************************************************)
(* What a step does to the commands of the station, which is all that      *)
(* matters below: one is queued, one is taken, none moves, or the session  *)
(* comes to an end.                                                        *)
(***************************************************************************)

Timing == armed + clearing

Queued(cmd) == /\ queue' = [queue EXCEPT ![1] = Append(queue[1], cmd)]
               /\ ucmd' = ucmd

Taken == /\ queue[1] # <<>> /\ ucmd = "none"
         /\ ucmd' = Head(queue[1])
         /\ queue' = [queue EXCEPT ![1] = Tail(queue[1])]

Broken == /\ ~Connected'
          /\ queue' \in {queue, [p \in 1..3 |-> <<>>]} /\ ucmd' \in {ucmd, "none"}

Move == \/ Queued("SafeMode") /\ Timing' = Timing + 1 /\ Gnd!Pending' = Gnd!Pending
        \/ Queued("ResetSensor") /\ Timing' = Timing - 1 /\ Gnd!Pending' = Gnd!Pending - 1
        \/ Taken /\ Timing' = Timing /\ Gnd!Pending' = Gnd!Pending
        \/ UNCHANGED <<queue, ucmd>> /\ Timing' = Timing /\ Gnd!Pending' = Gnd!Pending
        \/ Broken

LEMMA StationAloneMoves == ASSUME PipeInv, StationAlone PROVE Move
<1> USE DEF PipeInv, StationTypes, Timing, Gnd!Pending
<1>1. CASE Gnd!Faults
  <2>0. ucmd' = ucmd
    BY <1>1 DEF Gnd!Faults, Gnd!uplinkVars
  <2>1. CASE Gnd!CommandSafeMode
    <3>1. Queued("SafeMode")
      BY <2>0, <2>1, EmergenciesAreQueued DEF Gnd!CommandSafeMode, Queued, Emergencies
    <3> QED BY <2>1, <3>1 DEF Gnd!CommandSafeMode, Move
  <2>2. CASE Gnd!ReceiveFault
    BY <2>0, <2>2 DEF Gnd!ReceiveFault, Move
  <2>3. CASE Gnd!ApplyInterlock \/ Gnd!RaiseAlert
    BY <2>0, <2>3 DEF Gnd!ApplyInterlock, Gnd!RaiseAlert, Move
  <2> QED BY <1>1, <2>1, <2>2, <2>3 DEF Gnd!Faults, Gnd!FaultMgrNext
<1>2. CASE Gnd!Timers
  <2>0. ucmd' = ucmd
    BY <1>2 DEF Gnd!Timers, Gnd!uplinkVars
  <2>1. CASE Gnd!CommandReset
    <3>1. Queued("ResetSensor")
      BY <2>0, <2>1, EmergenciesAreQueued DEF Gnd!CommandReset, Queued, Emergencies
    <3> QED BY <2>1, <3>1 DEF Gnd!CommandReset, Move
  <2>2. CASE Gnd!LiftInterlock
    BY <2>0, <2>2 DEF Gnd!LiftInterlock, Move
  <2> QED BY <1>2, <2>1, <2>2 DEF Gnd!Timers, Gnd!TimerNext
<1>3. CASE NextCommand
  <2>0. Timing' = Timing /\ Gnd!Pending' = Gnd!Pending
    BY <1>3 DEF NextCommand, faultVars, Gnd!TakeCommand, Gnd!CheckState
  <2>1. CASE Gnd!TakeCommand
    <3>1. PICK p \in 1..3 : /\ queue[p] # <<>> /\ ucmd' = Head(queue[p])
                            /\ queue' = [queue EXCEPT ![p] = Tail(queue[p])]
      BY <2>1 DEF Gnd!TakeCommand, Gnd!NextLane
    <3>2. p = 1 /\ ucmd = "none"
      BY <2>1, <3>1 DEF Gnd!TakeCommand
    <3> QED BY <2>0, <3>1, <3>2 DEF Taken, Move
  <2>2. CASE Gnd!CheckState
    <3>1. ucmd \in Emergencies
      BY <2>2 DEF Gnd!CheckState
    <3>2. UNCHANGED <<queue, ucmd>>
      BY <2>2, <3>1 DEF Gnd!CheckState, Gnd!Urgency, Gnd!Emergency, Emergencies
    <3> QED BY <2>0, <3>2 DEF Move
  <2> QED BY <1>3, <2>1, <2>2 DEF NextCommand
<1>4. ASSUME NEW t \in Gnd!Task, Gnd!Ended(t) PROVE Move
  <2>1. CASE t = "heartbeat"
    <3>1. UNCHANGED <<queue, ucmd, armed, clearing, inbox, fpc>>
      BY <1>4, <2>1 DEF Gnd!Ended
    <3> QED BY <3>1 DEF Move
  <2>2. CASE t # "heartbeat"
    <3>1. t \notin alive' /\ t \in {"telemetry_rx", "uplink_tx", "fault_mgr"}
      BY <1>4, <2>2 DEF Gnd!Ended, Gnd!Task
    <3> QED BY <1>4, <3>1 DEF Gnd!Ended, Connected, Broken, Move
  <2> QED BY <2>1, <2>2
<1>5. CASE Gnd!CleanUp
  <2>1. CASE Gnd!ClearQueue
    <3>1. ~Connected'
      BY <2>1 DEF Gnd!ClearQueue, Connected
    <3> QED BY <2>1, <3>1 DEF Gnd!ClearQueue, Gnd!uplinkVars, Broken, Move
  <2>2. CASE Gnd!Joined
    BY <2>2 DEF Gnd!Joined, Gnd!uplinkVars, Gnd!faultVars, Move
  <2> QED BY <1>4, <1>5, <2>1, <2>2 DEF Gnd!CleanUp, Gnd!Dropped
<1>6. CASE Gnd!Cancellation
  <2>1. CASE Gnd!StopAccepting
    BY <2>1 DEF Gnd!StopAccepting, Gnd!uplinkVars, Gnd!faultVars, Move
  <2> QED BY <1>4, <1>6, <2>1 DEF Gnd!Cancellation, Gnd!TaskCancelled
<1>7. CASE Gnd!SendCancel
  BY <1>7 DEF Gnd!SendCancel, Gnd!uplinkVars, Gnd!faultVars, Move
<1> QED BY <1>1, <1>2, <1>3, <1>5, <1>6, <1>7 DEF StationAlone

LEMMA MoveKeepsPipe ==
  ASSUME PipeInv, Move
  PROVE  /\ queue'[2] = <<>> /\ queue'[3] = <<>> /\ queue'[1] \in Seq(Emergencies)
         /\ ucmd' \in Emergencies \cup {"none"}
<1> USE DEF PipeInv, StationTypes
<1>1. ASSUME NEW cmd \in Emergencies, Queued(cmd)
      PROVE  /\ queue'[2] = <<>> /\ queue'[3] = <<>> /\ queue'[1] \in Seq(Emergencies)
             /\ ucmd' \in Emergencies \cup {"none"}
  <2>1. Append(queue[1], cmd) \in Seq(Emergencies)
    OBVIOUS
  <2> QED BY <1>1, <2>1 DEF Queued
<1>2. CASE Taken
  <2>1. Tail(queue[1]) \in Seq(Emergencies) /\ Head(queue[1]) \in Emergencies
    BY <1>2 DEF Taken
  <2> QED BY <1>2, <2>1 DEF Taken
<1>3. CASE UNCHANGED <<queue, ucmd>>
  BY <1>3
<1>4. CASE Broken
  BY <1>4 DEF Broken
<1> QED BY <1>1, <1>2, <1>3, <1>4 DEF Move, Emergencies

LEMMA PipeStep == PipeInv /\ StationTypes' /\ [Next]_vars => PipeInv'
<1> SUFFICES ASSUME PipeInv, StationTypes', [Next]_vars PROVE PipeInv'
  OBVIOUS
<1> DEFINE Queues == /\ queue[2] = <<>> /\ queue[3] = <<>> /\ queue[1] \in Seq(Emergencies)
                     /\ ucmd \in Emergencies \cup {"none"}
<1> USE DEF PipeInv
<1>1. CASE FaultSent
  <2>1. /\ UNCHANGED <<queue, ucmd, up, unsent>>
        /\ down' \in {down, down + 1} /\ owed' = owed + 1
    BY <1>1 DEF FaultSent, station, uplinkVars
  <2> QED BY <2>1
<1>2. CASE FaultReceived
  <2>1. UNCHANGED <<queue, ucmd, up, owed, unsent>> /\ down > 0 /\ down' = down - 1
    BY <1>2 DEF FaultReceived, Gnd!FaultArrives, Gnd!FaultFrame, Gnd!uplinkVars
  <2> QED BY <2>1
<1>3. CASE DownlinkEnds
  <2>1. UNCHANGED <<queue, ucmd, up, owed, unsent>> /\ down' = 0
    BY <1>3 DEF DownlinkEnds, Gnd!LinkClosed, uplinkVars
  <2> QED BY <2>1
<1>4. CASE CommandSent \/ CommandUnsent
  <2>1. /\ UNCHANGED <<queue, down>> /\ ucmd' = "none" /\ owed' \in {owed, owed - 1}
        /\ ucmd \in Emergencies /\ up' \in {up, Append(up, ucmd)}
        /\ unsent' \in BOOLEAN
    BY <1>4 DEF CommandSent, CommandUnsent, Gnd!Dispatch, StationTypes
  <2>2. Append(up, ucmd) \in Seq(Emergencies)
    BY <2>1
  <2> QED BY <2>1, <2>2
<1>5. CASE CommandReceived
  <2>1. UNCHANGED <<queue, ucmd, down, unsent>> /\ up # <<>> /\ up' = Tail(up)
        /\ owed' \in {owed, owed - 1}
    BY <1>5 DEF CommandReceived, station, uplinkVars
  <2>2. Tail(up) \in Seq(Emergencies)
    BY <2>1
  <2> QED BY <2>1, <2>2
<1>6. CASE UplinkEnds
  <2>1. UNCHANGED <<queue, ucmd, down, owed, unsent>> /\ up' = <<>>
    BY <1>6 DEF UplinkEnds, station, uplinkVars
  <2> QED BY <2>1
<1>7. CASE StationAlone
  <2>1. UNCHANGED <<up, down, owed, unsent>>
    BY <1>7 DEF StationAlone, connection
  <2> QED BY <1>7, <2>1, StationAloneMoves, MoveKeepsPipe
<1>8. CASE SatelliteAlone \/ UNCHANGED vars
  BY <1>8 DEF SatelliteAlone, vars, station, connection, uplinkVars
<1> QED BY <1>1, <1>2, <1>3, <1>4, <1>5, <1>6, <1>7, <1>8 DEF Next

LEMMA PipeInvariant == Spec => []PipeInv
<1>1. Spec => []GndProofs!IInv
  <2>1. Gnd!Spec => GndProofs!Spec
    BY SameStation, PTL DEF Gnd!Spec, GndProofs!Spec
  <2> QED BY <2>1, StationImplements, StationConstants, GndProofs!Invariant, PTL
<1>2. Init /\ GndProofs!IInv => PipeInv
  <2> SUFFICES ASSUME Init, GndProofs!IInv PROVE PipeInv
    OBVIOUS
  <2>1. /\ queue = [p \in 1..3 |-> <<>>] /\ ucmd = "none"
        /\ up = <<>> /\ down = 0 /\ owed = 0 /\ unsent \in BOOLEAN
    BY DEF Init, Gnd!Init, Gnd!GroundInit, Gnd!UplinkInit
  <2> QED BY <2>1, StationInvTypes DEF PipeInv
<1>3. GndProofs!IInv => StationTypes
  BY StationInvTypes
<1>4. PipeInv /\ StationTypes' /\ [Next]_vars => PipeInv'
  BY PipeStep
<1> QED BY <1>1, <1>2, <1>3, <1>4, PTL DEF Spec

\* The satellite of a mission is the satellite of module Satellite: what the
\* station sends it is only ever what its environment may.
THEOREM SatelliteImplements == Spec => Sat!Spec
<1>1. Init => Sat!Init
  BY DEF Init
<1>2. PipeInv => up \in Seq(Emergencies)
  BY DEF PipeInv
<1> QED BY <1>1, <1>2, SatelliteStep, PipeInvariant, PTL DEF Spec, Sat!Spec

-----------------------------------------------------------------------------
(***************************************************************************)
(* Counting resets.                                                        *)
(***************************************************************************)

One(cmd) == IF IsReset(cmd) THEN 1 ELSE 0

ResetsAt(q) == {i \in DOMAIN q : IsReset(q[i])}

LEMMA ResetsCounted ==
  ASSUME NEW S, NEW q \in Seq(S)
  PROVE  /\ IsFiniteSet(ResetsAt(q)) /\ Resets(q) = Cardinality(ResetsAt(q))
         /\ Resets(q) \in Nat
<1>1. IsFiniteSet(1..Len(q)) /\ ResetsAt(q) \in SUBSET (1..Len(q))
  BY FS_Interval DEF ResetsAt
<1>2. IsFiniteSet(ResetsAt(q))
  BY <1>1, FS_Subset
<1> QED BY <1>2, FS_CardinalityType DEF Resets, ResetsAt

LEMMA ResetsAppend ==
  ASSUME NEW S, NEW q \in Seq(S), NEW cmd \in S
  PROVE  Resets(Append(q, cmd)) = Resets(q) + One(cmd)
<1> DEFINE n == Len(q)
           new == Append(q, cmd)
<1>1. /\ n \in Nat /\ DOMAIN q = 1..n /\ DOMAIN new = 1..(n + 1)
      /\ \A i \in 1..n : new[i] = q[i]
      /\ new[n + 1] = cmd /\ new \in Seq(S)
  OBVIOUS
<1> HIDE DEF n, new
<1>2. ResetsAt(new) = IF IsReset(cmd) THEN ResetsAt(q) \cup {n + 1} ELSE ResetsAt(q)
  <2>1. \A i : i \in 1..(n + 1) <=> i \in 1..n \/ i = n + 1
    BY <1>1
  <2>2. \A i : i \in ResetsAt(new) <=> i \in ResetsAt(q) \/ (i = n + 1 /\ IsReset(cmd))
    BY <1>1, <2>1 DEF ResetsAt
  <2> QED BY <2>2
<1>3. n + 1 \notin ResetsAt(q)
  BY <1>1 DEF ResetsAt
<1>4. /\ IsFiniteSet(ResetsAt(q)) /\ Resets(q) = Cardinality(ResetsAt(q)) /\ Resets(q) \in Nat
      /\ Resets(new) = Cardinality(ResetsAt(new))
  BY <1>1, ResetsCounted
<1>5. Cardinality(ResetsAt(q) \cup {n + 1}) = Cardinality(ResetsAt(q)) + 1
  BY <1>3, <1>4, FS_AddElement
<1> QED BY <1>2, <1>4, <1>5 DEF One, new

LEMMA ResetsTail ==
  ASSUME NEW S, NEW q \in Seq(S), q # <<>>
  PROVE  Resets(q) = One(Head(q)) + Resets(Tail(q))
<1> DEFINE n == Len(q) - 1
           rest == Tail(q)
<1>1. /\ n \in Nat /\ DOMAIN q = 1..(n + 1) /\ DOMAIN rest = 1..n
      /\ \A i \in 1..n : rest[i] = q[i + 1]
      /\ Head(q) = q[1] /\ rest \in Seq(S)
  OBVIOUS
<1> HIDE DEF n, rest
<1> DEFINE A == ResetsAt(rest)
           B == ResetsAt(q) \ {1}
           shift == [i \in A |-> i + 1]
<1>2. \A i \in A : i \in 1..n /\ IsReset(rest[i]) /\ i + 1 \in B
  BY <1>1 DEF ResetsAt
<1>3. \A j \in B : j - 1 \in A /\ (j - 1) + 1 = j
  <2> SUFFICES ASSUME NEW j \in B PROVE j - 1 \in A /\ (j - 1) + 1 = j
    OBVIOUS
  <2>1. j \in 1..(n + 1) /\ j # 1 /\ IsReset(q[j])
    BY <1>1 DEF ResetsAt
  <2>2. j - 1 \in 1..n /\ (j - 1) + 1 = j
    BY <1>1, <2>1
  <2> QED BY <1>1, <2>1, <2>2 DEF ResetsAt
<1>4. /\ IsFiniteSet(A) /\ Resets(rest) = Cardinality(A) /\ Resets(rest) \in Nat
      /\ IsFiniteSet(ResetsAt(q)) /\ Resets(q) = Cardinality(ResetsAt(q)) /\ Resets(q) \in Nat
  BY <1>1, ResetsCounted
<1>5. Cardinality(B) = Cardinality(A)
  <2> HIDE DEF A, B
  <2>0. \A i \in A : i \in Int
    BY <1>2
  <2>1. shift \in [A -> B] /\ (\A i, j \in A : shift[i] = shift[j] => i = j)
    BY <1>2, <2>0
  <2>2. \A j \in B : \E i \in A : shift[i] = j
    <3> SUFFICES ASSUME NEW j \in B PROVE \E i \in A : shift[i] = j
      OBVIOUS
    <3>1. j - 1 \in A /\ shift[j - 1] = j
      BY <1>3
    <3> QED BY <3>1
  <2> HIDE DEF shift
  <2>3. shift \in Injection(A, B)
    BY <2>1 DEF Injection, IsInjective
  <2>4. shift \in Surjection(A, B)
    BY <2>1, <2>2 DEF Surjection
  <2>5. ExistsBijection(A, B)
    BY <2>3, <2>4 DEF ExistsBijection, Bijection
  <2> QED BY <1>4, <2>5, FS_Bijection
<1>6. 1 \in ResetsAt(q) <=> IsReset(Head(q))
  BY <1>1 DEF ResetsAt
<1>7. Cardinality(B) = IF 1 \in ResetsAt(q) THEN Cardinality(ResetsAt(q)) - 1
                       ELSE Cardinality(ResetsAt(q))
  BY <1>4, FS_RemoveElement
<1> QED BY <1>4, <1>5, <1>6, <1>7 DEF One, rest

LEMMA ResetsOfOne == ASSUME NEW cmd PROVE Resets(<<cmd>>) = One(cmd)
<1>1. <<>> \in Seq({cmd}) /\ Append(<<>>, cmd) = <<cmd>>
  OBVIOUS
<1>2. Resets(<<>>) = 0
  BY FS_EmptySet DEF Resets
<1>3. One(cmd) \in Nat
  BY DEF One
<1>4. cmd \in {cmd}
  OBVIOUS
<1>5. Resets(Append(<<>>, cmd)) = Resets(<<>>) + One(cmd)
  BY <1>1, <1>4, ResetsAppend
<1> QED BY <1>1, <1>2, <1>3, <1>5

-----------------------------------------------------------------------------
(***************************************************************************)
(* Every fault is accounted for.                                           *)
(***************************************************************************)

\* The three places where commands are, one by one.
LEMMA ResetsSentNow ==
  ASSUME PipeInv
  PROVE  /\ Resets(queue[1]) \in Nat /\ Resets(up) \in Nat /\ One(ucmd) \in Nat
         /\ ResetsSent = Resets(queue[1]) + One(ucmd) + Resets(up)
         /\ Gnd!Pending \in Nat
<1>1. Resets(queue[1]) \in Nat /\ Resets(up) \in Nat /\ Gnd!Pending \in Nat
  BY ResetsCounted DEF PipeInv, StationTypes, Gnd!Pending
<1>2. One(ucmd) \in Nat
  BY DEF One
<1>3. Resets(<<ucmd>>) = One(ucmd)
  BY ResetsOfOne
<1> QED BY <1>1, <1>2, <1>3 DEF ResetsSent

LEMMA Ones == One("ResetSensor") = 1 /\ One("SafeMode") = 0 /\ One("none") = 0
<1> QED BY DEF One, IsReset

\* The tasks of a session do not come back.
LEMMA ConnectedBefore == [Next]_vars /\ Connected' => Connected
<1> SUFFICES ASSUME [Next]_vars PROVE alive' \subseteq alive /\ running' \subseteq running
  BY DEF Connected
<1>1. CASE FaultSent
  BY <1>1 DEF FaultSent, station, Sat!ForwardFault
<1>2. CASE FaultReceived
  BY <1>2 DEF FaultReceived, Gnd!FaultArrives, Gnd!FaultFrame, satellite
<1>3. CASE DownlinkEnds
  BY <1>3 DEF DownlinkEnds, Gnd!LinkClosed, satellite
<1>4. CASE CommandSent \/ CommandUnsent
  BY <1>4 DEF CommandSent, CommandUnsent, Gnd!Dispatch, satellite
<1>5. CASE CommandReceived
  BY <1>5 DEF CommandReceived, Sat!HandleCommand, station
<1>6. CASE UplinkEnds
  BY <1>6 DEF UplinkEnds, Sat!UplinkClosed, station
<1>7. CASE SatelliteAlone
  <2>1. CASE Window
    BY <1>7, <2>1 DEF SatelliteAlone, Window, Sat!WindowOpens, Sat!ReadFlags,
                      Sat!AdjustMode, Sat!PickNothing, Sat!shared, station
  <2>2. CASE Sat!Injector
    <3>1. running' \subseteq running
      BY <2>2 DEF Sat!Injector, Sat!InjectorNext, Sat!InjectFault, Sat!FaultCondition,
                  Sat!Notify, Sat!Recovered, Sat!PollAgain, Sat!CancelledInWait,
                  Sat!TimedOut, Sat!AbortMission, Sat!StopOnOpenCircuit,
                  Sat!InjectorCancel, Sat!Return, Sat!shared
    <3> QED BY <1>7, <3>1 DEF SatelliteAlone, station
  <2>3. CASE SatelliteCancels
    BY <1>7, <2>3 DEF SatelliteAlone, SatelliteCancels, Sat!DownlinkCancel,
                      Sat!UplinkCancel, Sat!Return, station
  <2>4. CASE \E w \in Cancellers : Sat!Cancel(w)
    BY <1>7, <2>4 DEF SatelliteAlone, Sat!Cancel, station
  <2> QED BY <1>7, <2>1, <2>2, <2>3, <2>4 DEF SatelliteAlone
<1>8. CASE StationAlone
  <2>0. UNCHANGED running
    BY <1>8 DEF StationAlone, satellite
  <2>1. CASE Gnd!Faults \/ Gnd!Timers \/ NextCommand
    BY <2>0, <2>1 DEF Gnd!Faults, Gnd!FaultMgrNext, Gnd!ReceiveFault,
                      Gnd!ApplyInterlock, Gnd!RaiseAlert, Gnd!CommandSafeMode,
                      Gnd!Timers, Gnd!TimerNext, Gnd!LiftInterlock, Gnd!CommandReset,
                      NextCommand, Gnd!TakeCommand, Gnd!CheckState
  <2>2. CASE Gnd!CleanUp \/ Gnd!Cancellation
    BY <2>0, <2>2 DEF Gnd!CleanUp, Gnd!ClearQueue, Gnd!Joined, Gnd!Dropped, Gnd!Ended,
                      Gnd!Cancellation, Gnd!StopAccepting, Gnd!TaskCancelled
  <2>3. CASE Gnd!SendCancel
    BY <2>0, <2>3 DEF Gnd!SendCancel
  <2> QED BY <1>8, <2>1, <2>2, <2>3 DEF StationAlone
<1>9. CASE UNCHANGED vars
  BY <1>9 DEF vars, satellite, station
<1> QED BY <1>1, <1>2, <1>3, <1>4, <1>5, <1>6, <1>7, <1>8, <1>9 DEF Next

LEMMA AccountStep ==
  ASSUME PipeInv, PipeInv', [Next]_vars, Connected', EveryFaultIsAccountedFor
  PROVE  EveryFaultIsAccountedFor'
<1> DEFINE R == Resets(queue[1])
           U == Resets(up)
           F == Gnd!Pending
<1> HIDE DEF R, U, F
<1>0. Connected /\ owed = down + F + (R + One(ucmd) + U) /\ "uplink_tx" \in alive
      /\ "telemetry_rx" \in alive /\ "downlink" \in running /\ "uplink" \in running
  BY ConnectedBefore, ResetsSentNow DEF EveryFaultIsAccountedFor, Connected, R, U, F
<1>1. /\ R \in Nat /\ U \in Nat /\ F \in Nat /\ One(ucmd) \in Nat
      /\ down \in Nat /\ owed \in Int
  BY ResetsSentNow DEF PipeInv, R, U, F
<1>2. R' \in Nat /\ U' \in Nat /\ F' \in Nat /\ One(ucmd') \in Nat
      /\ ResetsSent' = R' + One(ucmd') + U'
  <2>1. PICK q, u, c : q = queue'[1] /\ u = up' /\ c = ucmd'
    OBVIOUS
  <2>2. q \in Seq(Emergencies) /\ u \in Seq(Emergencies)
    BY <2>1 DEF PipeInv
  <2>3. Resets(q) \in Nat /\ Resets(u) \in Nat /\ Resets(<<c>>) = One(c) /\ One(c) \in Nat
    BY <2>2, ResetsCounted, ResetsOfOne DEF One
  <2>4. F' \in Nat
    <3>1. PICK i, m, a, l : /\ i = inbox' /\ m = (IF fpc' = "recv" THEN 0 ELSE 1)
                            /\ a = armed' /\ l = clearing'
      OBVIOUS
    <3>2. i \in Nat /\ m \in Nat /\ a \in Nat /\ l \in Nat
      BY <3>1 DEF PipeInv, StationTypes
    <3>3. F' = i + m + a + l
      BY <3>1 DEF F, Gnd!Pending
    <3>4. i + m + a + l \in Nat
      BY <3>2
    <3> QED BY <3>3, <3>4
  <2> QED BY <2>1, <2>3, <2>4 DEF ResetsSent, R, U
<1>3. PICK r, u, f, c : /\ r = R' /\ u = U' /\ f = F' /\ c = One(ucmd')
                        /\ r \in Nat /\ u \in Nat /\ f \in Nat /\ c \in Nat
  BY <1>2
<1> SUFFICES owed' = down' + f + (r + c + u)
  BY <1>2, <1>3 DEF EveryFaultIsAccountedFor, F
<1>4. CASE FaultSent
  <2>1. /\ UNCHANGED <<queue, ucmd, up, inbox, fpc, armed, clearing>>
        /\ down' = down + 1 /\ owed' = owed + 1
    BY <1>0, <1>4 DEF FaultSent, StationGone, station, uplinkVars, faultVars
  <2>2. R' = R /\ U' = U /\ F' = F
    BY <2>1 DEF R, U, F, Gnd!Pending
  <2> QED BY <1>0, <1>1, <1>3, <2>1, <2>2
<1>5. CASE FaultReceived
  <2>1. /\ UNCHANGED <<queue, ucmd, up, fpc, armed, clearing, owed>>
        /\ down' = down - 1 /\ inbox' = inbox + 1
    BY <1>5 DEF FaultReceived, Gnd!FaultArrives, Gnd!FaultFrame, Gnd!uplinkVars,
                Gnd!faultVars
  <2>2. R' = R /\ U' = U
    BY <2>1 DEF R, U
  <2>3. F' = F + 1
    <3>1. inbox \in Nat /\ armed \in Nat /\ clearing \in Nat
      BY DEF PipeInv, StationTypes
    <3> QED BY <2>1, <3>1 DEF F, Gnd!Pending
  <2> QED BY <1>0, <1>1, <1>3, <2>1, <2>2, <2>3
<1>6. CASE CommandSent
  <2>1. /\ UNCHANGED <<queue, inbox, fpc, armed, clearing, down, owed>>
        /\ ucmd \in Emergencies /\ ucmd' = "none" /\ up' = Append(up, ucmd)
    BY <1>6 DEF CommandSent, Gnd!Dispatch, faultVars, PipeInv, StationTypes
  <2>2. R' = R /\ F' = F /\ One(ucmd') = 0
    BY <2>1, Ones DEF R, F, Gnd!Pending
  <2>3. U' = U + One(ucmd)
    <3>1. PICK v : v = Append(up, ucmd)
      OBVIOUS
    <3>2. Resets(v) = Resets(up) + One(ucmd)
      BY <2>1, <3>1, ResetsAppend DEF PipeInv
    <3> QED BY <2>1, <3>1, <3>2 DEF U
  <2> QED BY <1>0, <1>1, <1>3, <2>1, <2>2, <2>3
<1>7. CASE CommandReceived
  <2>1. /\ UNCHANGED <<queue, ucmd, inbox, fpc, armed, clearing, down>>
        /\ up # <<>> /\ up' = Tail(up)
        /\ owed' = owed - One(Head(up))
    BY <1>1, <1>7 DEF CommandReceived, station, uplinkVars, faultVars, One
  <2>2. R' = R /\ F' = F /\ One(ucmd') = One(ucmd)
    BY <2>1 DEF R, F, Gnd!Pending
  <2>3. U = One(Head(up)) + U'
    <3>1. PICK v : v = Tail(up)
      OBVIOUS
    <3>2. Resets(up) = One(Head(up)) + Resets(v)
      BY <2>1, <3>1, ResetsTail DEF PipeInv
    <3> QED BY <2>1, <3>1, <3>2 DEF U
  <2>4. One(Head(up)) \in Nat
    BY DEF One
  <2>5. PICK h : h = One(Head(up))
    OBVIOUS
  <2>6. owed' = owed - h /\ down' = down /\ U = h + u /\ f = F /\ r = R /\ c = One(ucmd)
    BY <1>3, <2>1, <2>2, <2>3, <2>5
  <2>7. owed = down + F + (R + One(ucmd) + U) /\ h \in Nat
    BY <1>0, <2>4, <2>5
  <2> QED BY <1>1, <1>3, <2>6, <2>7
<1>8. CASE StationAlone
  <2>0. UNCHANGED <<up, down, owed>> /\ U' = U /\ Move
    BY <1>8, StationAloneMoves DEF StationAlone, connection, U
  <2> SUFFICES f + (r + c) = F + (R + One(ucmd))
    <3>1. owed' = owed /\ down' = down /\ u = U
      BY <1>3, <2>0
    <3>2. owed = down + F + (R + One(ucmd) + U)
      BY <1>0
    <3> QED BY <1>1, <1>3, <3>1, <3>2
  <2>1. ASSUME NEW cmd \in Emergencies, Queued(cmd)
        PROVE  R' = R + One(cmd) /\ One(ucmd') = One(ucmd)
    <3>1. PICK q : q = Append(queue[1], cmd)
      OBVIOUS
    <3>2. queue'[1] = q /\ ucmd' = ucmd
      BY <2>1, <3>1 DEF Queued, PipeInv, StationTypes
    <3>3. Resets(q) = Resets(queue[1]) + One(cmd)
      BY <3>1, ResetsAppend DEF PipeInv
    <3> QED BY <3>2, <3>3 DEF R
  <2>2. CASE Queued("SafeMode") /\ F' = F
    <3>1. R' = R + One("SafeMode") /\ One(ucmd') = One(ucmd)
      BY <2>1, <2>2 DEF Emergencies
    <3> QED BY <1>1, <1>3, <2>2, <3>1, Ones
  <2>3. CASE Queued("ResetSensor") /\ F' = F - 1
    <3>1. R' = R + One("ResetSensor") /\ One(ucmd') = One(ucmd)
      BY <2>1, <2>3 DEF Emergencies
    <3> QED BY <1>1, <1>3, <2>3, <3>1, Ones
  <2>4. CASE Taken /\ F' = F
    <3>1. PICK q, x : q = Tail(queue[1]) /\ x = Head(queue[1])
      OBVIOUS
    <3>2. queue'[1] = q /\ ucmd' = x /\ ucmd = "none" /\ queue[1] # <<>>
      BY <2>4, <3>1 DEF Taken, PipeInv, StationTypes
    <3>3. Resets(queue[1]) = One(x) + Resets(q)
      BY <3>1, <3>2, ResetsTail DEF PipeInv
    <3>4. R = One(ucmd') + R' /\ One(ucmd) = 0
      BY <3>2, <3>3, Ones DEF R
    <3> QED BY <1>1, <1>3, <2>4, <3>4
  <2>5. CASE UNCHANGED <<queue, ucmd>> /\ F' = F
    BY <1>3, <2>5 DEF R
  <2> QED BY <2>0, <2>2, <2>3, <2>4, <2>5 DEF Move, Broken, F
<1>9. CASE SatelliteAlone \/ UNCHANGED vars
  <2>1. UNCHANGED <<queue, ucmd, up, inbox, fpc, armed, clearing, down, owed>>
    BY <1>9 DEF SatelliteAlone, vars, station, connection, uplinkVars, faultVars
  <2>2. R' = R /\ U' = U /\ F' = F
    BY <2>1 DEF R, U, F, Gnd!Pending
  <2> QED BY <1>0, <1>3, <2>1, <2>2
<1>10. ~DownlinkEnds /\ ~UplinkEnds
  BY <1>0 DEF DownlinkEnds, UplinkEnds
<1>11. CASE CommandUnsent
  <2>1. /\ UNCHANGED <<queue, inbox, fpc, armed, clearing, down, up>>
        /\ ucmd' = "none" /\ owed' = owed - One(ucmd)
    BY <1>1, <1>11 DEF CommandUnsent, Gnd!Dispatch, faultVars, One
  <2>2. R' = R /\ F' = F /\ U' = U /\ One(ucmd') = 0
    BY <2>1, Ones DEF R, F, U, Gnd!Pending
  <2> QED BY <1>0, <1>1, <1>3, <2>1, <2>2
<1> QED BY <1>4, <1>5, <1>6, <1>7, <1>8, <1>9, <1>10, <1>11 DEF Next

\* However many faults are on their way, and whatever order both sides and the
\* network take, no fault packet is lost and none is answered twice while both
\* sides are connected: what the satellite was not yet told is still somewhere.
THEOREM FaultsAreAccountedFor == Spec => []EveryFaultIsAccountedFor
<1>1. Init => EveryFaultIsAccountedFor
  <2> SUFFICES ASSUME Init PROVE owed = down + Gnd!Pending + ResetsSent
    BY DEF EveryFaultIsAccountedFor
  <2>1. /\ queue[1] = <<>> /\ ucmd = "none" /\ up = <<>> /\ down = 0 /\ owed = 0
        /\ inbox = 0 /\ fpc = "recv" /\ armed = 0 /\ clearing = 0
    BY DEF Init, Gnd!Init, Gnd!GroundInit, Gnd!UplinkInit, Gnd!FaultInit
  <2>2. Resets(<<>>) = 0 /\ Resets(<<"none">>) = 0
    BY FS_EmptySet, ResetsOfOne, Ones DEF Resets
  <2> QED BY <2>1, <2>2 DEF ResetsSent, Gnd!Pending
<1>2. PipeInv /\ PipeInv' /\ [Next]_vars /\ EveryFaultIsAccountedFor
        => EveryFaultIsAccountedFor'
  <2>1. ~Connected' => EveryFaultIsAccountedFor'
    BY DEF EveryFaultIsAccountedFor
  <2> QED BY <2>1, AccountStep
<1> QED BY <1>1, <1>2, PipeInvariant, PTL DEF Spec

-----------------------------------------------------------------------------
(***************************************************************************)
(* Safe mode is temporary.  A SafeMode command is followed by a reset, or  *)
(* by a timer that will queue one, wherever the command is: on its way     *)
(* (u), in the hands of the uplink (c) or in the queue (q), with t timers  *)
(* behind; only the last reset may have been given up (l).  The mode s of   *)
(* the satellite is what the last command made it.                         *)
(***************************************************************************)

\* A reset is in the queue or will be.
Coming(q, t) == t > 0 \/ HasReset(q)

Recovers(s, u, c, q, t, l) ==
  /\ Followed(q, t > 0)
  /\ c = "SafeMode" => Coming(q, t)
  /\ Followed(u, l \/ c = "ResetSensor" \/ Coming(q, t))
  /\ s = "SafeMode" => l \/ HasReset(u) \/ c = "ResetSensor" \/ Coming(q, t)

RecoveryInv == Connected => Recovers(state, up, ucmd, queue[1], Timing, unsent)

\* SafeMode is queued and its timer started.
LEMMA SafeModeQueued ==
  ASSUME NEW s, NEW u \in Seq(Emergencies), NEW c, NEW q \in Seq(Emergencies),
         NEW t \in Nat, NEW t2 \in Nat, t2 = t + 1, NEW l
  PROVE  Recovers(s, u, c, Append(q, "SafeMode"), t2, l)
<1>1. t2 > 0
  OBVIOUS
<1> QED BY <1>1, Zenon DEF Recovers, Followed, Coming

\* A timer queues its reset.
LEMMA ResetQueued ==
  ASSUME NEW s, NEW u \in Seq(Emergencies), NEW c, NEW q \in Seq(Emergencies),
         NEW t \in Nat, NEW t2 \in Nat, NEW l, Recovers(s, u, c, q, t, l)
  PROVE  Recovers(s, u, c, Append(q, "ResetSensor"), t2, l)
<1>0. PICK before \in BOOLEAN, after \in BOOLEAN :
        (before <=> t > 0) /\ (after <=> t2 > 0)
  OBVIOUS
<1>1. HasReset(Append(q, "ResetSensor"))
  BY HasResetAppend DEF Emergencies
<1>2. Followed(Append(q, "ResetSensor"), after)
  <2>1. Followed(q, before)
    BY <1>0 DEF Recovers, Followed
  <2> QED BY <2>1, FollowedAppend DEF Emergencies
<1>3. Coming(Append(q, "ResetSensor"), t2)
  BY <1>1 DEF Coming
<1>4. Followed(u, l \/ c = "ResetSensor" \/ Coming(Append(q, "ResetSensor"), t2))
  BY <1>3, FollowedWeakened DEF Recovers
<1>5. Followed(Append(q, "ResetSensor"), t2 > 0)
  BY <1>0, <1>2 DEF Followed
<1> QED BY <1>3, <1>4, <1>5 DEF Recovers

\* The uplink takes the head of the queue.
LEMMA HeadTaken ==
  ASSUME NEW s, NEW u \in Seq(Emergencies), NEW q \in Seq(Emergencies), q # <<>>,
         NEW t \in Nat, NEW l, Recovers(s, u, "none", q, t, l)
  PROVE  Recovers(s, u, Head(q), Tail(q), t, l)
<1>0. PICK behind \in BOOLEAN : behind <=> t > 0
  OBVIOUS
<1>1. Followed(q, behind)
  BY <1>0 DEF Recovers, Followed
<1>2. /\ Followed(Tail(q), behind)
      /\ Head(q) = "SafeMode" => behind \/ HasReset(Tail(q))
      /\ HasReset(q) => Head(q) = "ResetSensor" \/ HasReset(Tail(q))
  BY <1>1, ResetsInTail
<1>3. Coming(q, t) => Head(q) = "ResetSensor" \/ Coming(Tail(q), t)
  BY <1>2 DEF Coming
<1>4. Followed(u, l \/ Head(q) = "ResetSensor" \/ Coming(Tail(q), t))
  BY <1>3, FollowedWeakened DEF Recovers
<1>5. Followed(Tail(q), t > 0)
  BY <1>0, <1>2 DEF Followed
<1>6. Head(q) = "SafeMode" => Coming(Tail(q), t)
  BY <1>0, <1>2 DEF Coming
<1> QED BY <1>3, <1>4, <1>5, <1>6 DEF Recovers

\* The uplink sends what it holds.
LEMMA HeldSent ==
  ASSUME NEW s, NEW u \in Seq(Emergencies), NEW c \in Emergencies,
         NEW q \in Seq(Emergencies), NEW t \in Nat, NEW l, NEW l2,
         Recovers(s, u, c, q, t, l), l2 = (l /\ c # "ResetSensor")
  PROVE  Recovers(s, Append(u, c), "none", q, t, l2)
<1>0. PICK before \in BOOLEAN, after \in BOOLEAN :
        /\ before = (l \/ c = "ResetSensor" \/ Coming(q, t))
        /\ after = (l2 \/ Coming(q, t))
  BY DEF Coming
<1>1. Followed(u, before) /\ (c = "SafeMode" => after)
  BY <1>0 DEF Recovers
<1>2. Followed(Append(u, c), after)
  BY <1>0, <1>1, FollowedAppend
<1>3. HasReset(Append(u, c)) <=> HasReset(u) \/ c = "ResetSensor"
  BY HasResetAppend
<1>4. Followed(Append(u, c), l2 \/ "none" = "ResetSensor" \/ Coming(q, t))
  BY <1>0, <1>2, FollowedWeakened
<1> QED BY <1>3, <1>4 DEF Recovers

\* The uplink gives up what it holds.
LEMMA HeldGivenUp ==
  ASSUME NEW s, NEW u, NEW c, NEW q, NEW t, NEW l, NEW l2,
         Recovers(s, u, c, q, t, l), l2 = (l \/ c = "ResetSensor")
  PROVE  Recovers(s, u, "none", q, t, l2)
<1>1. Followed(u, l2 \/ "none" = "ResetSensor" \/ Coming(q, t))
  BY FollowedWeakened DEF Recovers
<1> QED BY <1>1 DEF Recovers

\* The satellite executes a command: only SafeMode brings safe mode about, and
\* ResetSensor ends it.
LEMMA HeadExecuted ==
  ASSUME NEW s, NEW s2, NEW u \in Seq(Emergencies), u # <<>>, NEW c,
         NEW q \in Seq(Emergencies), NEW t \in Nat, NEW l,
         Recovers(s, u, c, q, t, l), s2 = "SafeMode" => Head(u) = "SafeMode"
  PROVE  Recovers(s2, Tail(u), c, q, t, l)
<1>0. PICK behind \in BOOLEAN : behind = (l \/ c = "ResetSensor" \/ Coming(q, t))
  BY DEF Coming
<1>1. Followed(u, behind)
  BY <1>0 DEF Recovers
<1>2. /\ Followed(Tail(u), behind)
      /\ Head(u) = "SafeMode" => behind \/ HasReset(Tail(u))
  BY <1>1, ResetsInTail
<1> QED BY <1>0, <1>2 DEF Recovers

LEMMA ModeChanges ==
  ASSUME PipeInv, [Next]_vars, ~CommandReceived
  PROVE  state' = "SafeMode" => state = "SafeMode"
<1>1. CASE FaultSent
  BY <1>1 DEF FaultSent, Sat!ForwardFault
<1>2. CASE \/ FaultReceived \/ DownlinkEnds \/ CommandSent \/ CommandUnsent
           \/ StationAlone \/ UNCHANGED vars
  BY <1>2 DEF FaultReceived, DownlinkEnds, CommandSent, CommandUnsent, StationAlone, vars,
              satellite
<1>3. CASE UplinkEnds
  BY <1>3 DEF UplinkEnds, Sat!UplinkClosed
<1>4. CASE SatelliteAlone
  <2>1. CASE Window
    BY <2>1 DEF Window, Sat!WindowOpens, Sat!ReadFlags, Sat!AdjustMode,
                Sat!PickNothing, Sat!shared
  <2>2. CASE Sat!Injector
    BY <2>2 DEF Sat!Injector, Sat!InjectorNext, Sat!InjectFault, Sat!FaultCondition,
                Sat!Notify, Sat!Recovered, Sat!PollAgain, Sat!CancelledInWait,
                Sat!TimedOut, Sat!AbortMission, Sat!StopOnOpenCircuit,
                Sat!InjectorCancel, Sat!shared
  <2>3. CASE SatelliteCancels
    BY <2>3 DEF SatelliteCancels, Sat!DownlinkCancel, Sat!UplinkCancel
  <2>4. CASE \E w \in Cancellers : Sat!Cancel(w)
    BY <2>4 DEF Sat!Cancel
  <2> QED BY <1>4, <2>1, <2>2, <2>3, <2>4 DEF SatelliteAlone
<1> QED BY <1>1, <1>2, <1>3, <1>4 DEF Next

LEMMA RecoveryStep ==
  ASSUME PipeInv, PipeInv', [Next]_vars, Connected', RecoveryInv
  PROVE  Recovers(state', up', ucmd', queue'[1], Timing', unsent')
<1>1. PICK s, u, c, q, t, l : /\ s = state /\ u = up /\ c = ucmd
                              /\ q = queue[1] /\ t = Timing /\ l = unsent
  OBVIOUS
<1>2. PICK s2, u2, c2, q2, t2, l2 : /\ s2 = state' /\ u2 = up' /\ c2 = ucmd'
                                    /\ q2 = queue'[1] /\ t2 = Timing' /\ l2 = unsent'
  OBVIOUS
<1>3. /\ Connected /\ "uplink_tx" \in alive /\ "downlink" \in running
      /\ "uplink" \in running
  BY ConnectedBefore DEF Connected
<1>4. Recovers(s, u, c, q, t, l)
  BY <1>1, <1>3 DEF RecoveryInv
<1>5. /\ u \in Seq(Emergencies) /\ q \in Seq(Emergencies)
      /\ c \in Emergencies \cup {"none"} /\ t \in Nat /\ t2 \in Nat
  <2>1. u \in Seq(Emergencies) /\ q \in Seq(Emergencies) /\ c \in Emergencies \cup {"none"}
    BY <1>1 DEF PipeInv
  <2>2. t \in Nat
    BY <1>1 DEF PipeInv, StationTypes, Timing
  <2>3. PICK a, b : a = armed' /\ b = clearing'
    OBVIOUS
  <2>4. a \in Nat /\ b \in Nat
    BY <2>3 DEF PipeInv, StationTypes
  <2>5. t2 = a + b
    BY <1>2, <2>3 DEF Timing
  <2> QED BY <2>1, <2>2, <2>4, <2>5
<1> SUFFICES Recovers(s2, u2, c2, q2, t2, l2)
  BY <1>2
<1>6. ASSUME u2 = u, c2 = c, q2 = q, t2 = t, l2 = l, ~CommandReceived
      PROVE  Recovers(s2, u2, c2, q2, t2, l2)
  <2>1. s2 = "SafeMode" => s = "SafeMode"
    BY <1>1, <1>2, <1>6, ModeChanges
  <2> QED BY <1>4, <1>6, <2>1 DEF Recovers
<1>7. CASE CommandReceived
  <2>1. u # <<>> /\ u2 = Tail(u) /\ c2 = c /\ q2 = q /\ t2 = t /\ l2 = l
    BY <1>1, <1>2, <1>7 DEF CommandReceived, station, uplinkVars, faultVars, Timing
  <2>2. s2 = "SafeMode" => Head(u) = "SafeMode"
    <3>1. Head(u) \in Emergencies
      BY <1>5, <2>1
    <3>2. state' = Sat!CommandEffect(Head(u))
      BY <1>1, <1>7 DEF CommandReceived, Sat!HandleCommand
    <3> QED BY <1>2, <3>1, <3>2 DEF Sat!CommandEffect, Emergencies
  <2> QED BY <1>4, <1>5, <2>1, <2>2, HeadExecuted
<1>8. CASE CommandSent
  <2>1. /\ c \in Emergencies /\ u2 = Append(u, c) /\ c2 = "none"
        /\ q2 = q /\ t2 = t /\ s2 = s /\ l2 = (l /\ c # "ResetSensor")
    BY <1>1, <1>2, <1>5, <1>8
       DEF CommandSent, Gnd!Dispatch, faultVars, satellite, PipeInv, StationTypes,
           Timing, IsReset
  <2> QED BY <1>4, <1>5, <2>1, HeldSent
<1>9. CASE StationAlone
  <2>0. u2 = u /\ s2 = s /\ l2 = l /\ Move /\ ~CommandReceived
    <3>1. u2 = u /\ s2 = s /\ l2 = l /\ Move
      BY <1>1, <1>2, <1>9, StationAloneMoves DEF StationAlone, connection, satellite
    <3>2. CASE CommandReceived
      BY <1>5, <1>1, <1>2, <3>1, <3>2 DEF CommandReceived
    <3> QED BY <3>1, <3>2
  <2>1. CASE Queued("SafeMode") /\ Timing' = Timing + 1
    <3>1. q2 = Append(q, "SafeMode") /\ c2 = c /\ t2 = t + 1
      BY <1>1, <1>2, <2>1 DEF Queued, PipeInv, StationTypes
    <3> QED BY <1>5, <2>0, <3>1, SafeModeQueued
  <2>2. CASE Queued("ResetSensor")
    <3>1. q2 = Append(q, "ResetSensor") /\ c2 = c
      BY <1>1, <1>2, <2>2 DEF Queued, PipeInv, StationTypes
    <3> QED BY <1>4, <1>5, <2>0, <3>1, ResetQueued
  <2>3. CASE Taken /\ Timing' = Timing
    <3>1. q # <<>> /\ c = "none" /\ c2 = Head(q) /\ q2 = Tail(q) /\ t2 = t
      BY <1>1, <1>2, <2>3 DEF Taken, PipeInv, StationTypes
    <3> QED BY <1>4, <1>5, <2>0, <3>1, HeadTaken
  <2>4. CASE UNCHANGED <<queue, ucmd>> /\ Timing' = Timing
    BY <1>1, <1>2, <1>6, <2>0, <2>4
  <2> QED BY <2>0, <2>1, <2>2, <2>3, <2>4 DEF Move, Broken
<1>10. CASE FaultSent \/ FaultReceived \/ SatelliteAlone \/ UNCHANGED vars
  <2>1. UNCHANGED <<queue, ucmd, up, armed, clearing, unsent>>
    BY <1>10 DEF FaultSent, FaultReceived, Gnd!FaultArrives, Gnd!FaultFrame,
                 Gnd!uplinkVars, Gnd!faultVars, SatelliteAlone, vars, station,
                 connection, uplinkVars, faultVars
  <2>2. u2 = u /\ c2 = c /\ q2 = q /\ t2 = t /\ l2 = l
    BY <1>1, <1>2, <2>1 DEF Timing
  <2> QED BY <1>6, <1>7, <2>2
<1>11. ~DownlinkEnds /\ ~UplinkEnds
  BY <1>3 DEF DownlinkEnds, UplinkEnds
<1>12. CASE CommandUnsent
  <2>1. /\ u2 = u /\ c2 = "none" /\ q2 = q /\ t2 = t /\ s2 = s
        /\ l2 = (l \/ c = "ResetSensor")
    BY <1>1, <1>2, <1>12
       DEF CommandUnsent, Gnd!Dispatch, faultVars, satellite, Timing, IsReset
  <2> QED BY <1>4, <2>1, HeldGivenUp
<1> QED BY <1>7, <1>8, <1>9, <1>10, <1>11, <1>12 DEF Next

\* A reset that is queued, held or on its way is counted.
LEMMA ResetsSentPositive ==
  ASSUME PipeInv,
         HasReset(up) \/ ucmd = "ResetSensor" \/ Coming(queue[1], Timing)
  PROVE  Gnd!Pending + ResetsSent > 0
<1>1. ASSUME NEW q \in Seq(Emergencies), HasReset(q) PROVE Resets(q) > 0
  <2>1. ResetsAt(q) # {}
    BY <1>1 DEF HasReset, ResetsAt, IsReset
  <2>2. /\ IsFiniteSet(ResetsAt(q)) /\ Resets(q) = Cardinality(ResetsAt(q))
        /\ Resets(q) \in Nat
    BY ResetsCounted
  <2>3. Resets(q) # 0
    BY <2>1, <2>2, FS_EmptySet
  <2> QED BY <2>2, <2>3
<1>2. /\ Resets(queue[1]) \in Nat /\ Resets(up) \in Nat /\ One(ucmd) \in Nat
      /\ ResetsSent = Resets(queue[1]) + One(ucmd) + Resets(up)
      /\ Gnd!Pending \in Nat
  BY ResetsSentNow
<1>3. CASE HasReset(up)
  <2>1. Resets(up) > 0
    BY <1>1, <1>3 DEF PipeInv
  <2> QED BY <1>2, <2>1
<1>4. CASE ucmd = "ResetSensor"
  BY <1>2, <1>4, Ones
<1>5. CASE HasReset(queue[1])
  <2>1. Resets(queue[1]) > 0
    BY <1>1, <1>5 DEF PipeInv
  <2> QED BY <1>2, <2>1
<1>6. CASE Timing > 0
  <2>1. Gnd!Pending > 0
    BY <1>6 DEF Timing, Gnd!Pending, PipeInv, StationTypes
  <2> QED BY <1>2, <2>1
<1> QED BY <1>3, <1>4, <1>5, <1>6 DEF Coming

\* As long as the connection is up no satellite is left in safe mode: whatever
\* faults overlap, the reset that ends it is still to come, behind the last
\* SafeMode command, unless the last one sent was given up.
THEOREM SafeModeEnds == Spec => []SafeModeIsTemporary
<1>1. Init => RecoveryInv
  <2> SUFFICES ASSUME Init PROVE Recovers(state, up, ucmd, queue[1], Timing, unsent)
    BY DEF RecoveryInv
  <2>1. queue[1] = <<>> /\ ucmd = "none" /\ up = <<>> /\ state = "Nominal"
    BY DEF Init, Gnd!Init, Gnd!GroundInit, Gnd!UplinkInit, Sat!Init, Sat!SharedInit
  <2> QED BY <2>1 DEF Recovers, Followed
<1>2. PipeInv /\ PipeInv' /\ [Next]_vars /\ RecoveryInv => RecoveryInv'
  <2>1. ~Connected' => RecoveryInv'
    BY DEF RecoveryInv
  <2>2. ASSUME PipeInv, PipeInv', [Next]_vars, Connected', RecoveryInv
        PROVE  RecoveryInv'
    BY <2>2, RecoveryStep DEF RecoveryInv
  <2> QED BY <2>1, <2>2
<1>3. PipeInv /\ RecoveryInv => SafeModeIsTemporary
  BY ResetsSentPositive DEF RecoveryInv, Recovers, SafeModeIsTemporary
<1> QED BY <1>1, <1>2, <1>3, PipeInvariant, PTL DEF Spec
=============================================================================
