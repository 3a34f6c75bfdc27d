------------------------------ MODULE Satellite ------------------------------
(***************************************************************************)
(* The satellite: its tasks side by side on a multi-threaded runtime, the  *)
(* ground station that sends any of Commands at any time, and the two      *)
(* places that send the cancel signal (satellite/src/main.rs).             *)
(***************************************************************************)
EXTENDS ThermalSensor, UplinkRx, DownlinkTx, FaultInjector

vars == <<shared, thermalVars, downlinkVars, injectorVars>>

Init == SharedInit /\ ThermalInit /\ DownlinkInit /\ InjectorInit

Thermal == ThermalNext /\ UNCHANGED <<downlinkVars, injectorVars>>
SoftSensor(t) == /\ SoftSensorPush(t) \/ SoftSensorCancel(t)
                 /\ UNCHANGED <<thermalVars, downlinkVars, injectorVars>>
Uplink == UplinkNext /\ UNCHANGED <<thermalVars, downlinkVars, injectorVars>>
Downlink == DownlinkNext /\ UNCHANGED <<thermalVars, injectorVars>>
Injector == InjectorNext /\ UNCHANGED <<thermalVars, downlinkVars>>

\* The dashboard's 'q' or main's timer sends the cancel signal.  The tasks
\* that return on it need no record of having seen it; the injector does.
Cancel(w) ==
  /\ w \notin cancelled
  /\ cancelled' = cancelled \cup {w}
  /\ unseen' = TRUE
  /\ UNCHANGED <<state, buf, rq, faultCh, running, resetDuring,
                 sentInAbort, thermalVars, downlinkVars,
                 ipc, circuit, waited, outcome>>

Next == \/ Thermal \/ Uplink \/ Downlink \/ Injector
        \/ \E t \in SoftSensors : SoftSensor(t)
        \/ \E w \in Cancellers : Cancel(w)

Spec == Init /\ [][Next]_vars

-----------------------------------------------------------------------------
(***************************************************************************)
(* Fairness.  The runtime schedules every task that can go on, a socket    *)
(* the ground station reads from takes what is written to it, and timers   *)
(* fire: weak fairness of each task's own work.  A select! with several    *)
(* ready branches picks one at random, so a cancel branch that is ready    *)
(* again and again is taken: strong fairness.  Samples and commands need   *)
(* not ever come, and 'q' need not be pressed.                             *)
(***************************************************************************)
DownlinkWork == /\ \/ WindowOpens \/ ForwardFault \/ ReadFlags \/ AdjustMode
                   \/ PickRetransmit \/ PickReading \/ PickNothing
                   \/ Send
                /\ UNCHANGED <<thermalVars, injectorVars>>

InjectorWork == /\ \/ InjectFault \/ FaultCondition \/ Notify
                   \/ Recovered \/ PollAgain \/ TimedOut
                   \/ AbortMission \/ StopOnOpenCircuit
                /\ UNCHANGED <<thermalVars, downlinkVars>>

TasksAreFair ==
  /\ WF_vars(ThermalPush /\ UNCHANGED <<downlinkVars, injectorVars>>)
  /\ WF_vars(DownlinkWork)
  /\ WF_vars(InjectorWork)

CancelsAreSeen ==
  /\ SF_vars(ThermalCancel /\ UNCHANGED <<downlinkVars, injectorVars>>)
  /\ SF_vars(DownlinkCancel /\ UNCHANGED <<thermalVars, injectorVars>>)
  /\ SF_vars(UplinkCancel /\ UNCHANGED <<thermalVars, downlinkVars, injectorVars>>)
  /\ SF_vars(InjectorCancel /\ UNCHANGED <<thermalVars, downlinkVars>>)
  /\ \A t \in SoftSensors :
       SF_vars(SoftSensorCancel(t)
                 /\ UNCHANGED <<thermalVars, downlinkVars, injectorVars>>)

FairSpec == Spec /\ TasksAreFair /\ CancelsAreSeen

-----------------------------------------------------------------------------

\* Types of the whole state; in particular the buffer, the retransmission
\* queue and the fault channel respect their capacities.
TypeOK == SharedTypeOK /\ ThermalTypeOK /\ DownlinkTypeOK /\ InjectorTypeOK

\* What four tasks write to the mode, two of them on the strength of a flag
\* read earlier, adds up to the state machine of MissionModes: an abort is
\* final, safe mode and fault are left only by a reset, a fault or an abort,
\* and only a nominal satellite is degraded by its buffer.
Modes == INSTANCE MissionModes
           WITH mode <- state, Nominal <- "Nominal", Degraded <- "Degraded",
                SafeMode <- "SafeMode", Fault <- "Fault",
                MissionAbort <- "MissionAbort"

\* The mode only ever changes as MissionModes allows.  That a reset does not
\* end an abort (uplink_rx.rs:136-146) is not what the ground station's comment
\* says of the command (fault_mgr.rs:109: "to clear its fault/abort state").
ImplementsModes == Modes!Spec

\* The downlink looks at the mode once per window (downlink.rs:131-135), so an
\* abort that comes between that look and the loop does not stop the packets
\* of the window; but it stops everything after them.
AtMostOneBatchAfterAbort == sentInAbort <= Batch

\* The injector gives up, and so ends, only in an aborted mission: an open
\* circuit never coexists with a satellite that works on without injector.
OpenCircuitMeansAbort == circuit = "Open" => state = "MissionAbort"

\* A recovery the injector counts is one the ground station brought about with
\* ResetSensor after the fault was injected, or an artefact of shutting down.
RecoveryIsEarned ==
  outcome = "recovered" => resetDuring # "no" \/ cancelled # {}

\* No fault is permanent unless the program is told to stop: the ground station
\* resets it, or the next injection times out and aborts the mission.  This is
\* also the only way out of a fault the thermal task declared, which sends no
\* fault packet.
FaultEnds == state = "Fault" ~> state # "Fault" \/ cancelled # {}

\* Every fault packet leaves the channel for the ground station, in whatever
\* mode, unless the downlink is shut down.
FaultsAreForwarded == faultCh > 0 ~> (faultCh = 0 \/ "downlink" \notin running)

\* Once main has sent the cancel signal every task returns, so that main's
\* loop over the join handles ends, even if the injector consumed the signal
\* inside wait_for_nominal and took it for a recovery.
ShutdownCompletes == ("main" \in cancelled) ~> (running = {})

-----------------------------------------------------------------------------
(* What a comment in the code says, and the code does not do. *)

\* state.rs:7: the mission is aborted when recovery takes too long, so a
\* reset executed before the last polls of the mode prevents the abort.
ResetInTimeRecovers == outcome = "aborted" => resetDuring # "missed"
=============================================================================
