--------------------------- MODULE MissionControl ---------------------------
(***************************************************************************)
(* Satellite and ground station as one system: the satellite that          *)
(* connected, the session that serves it, and between them the two         *)
(* directions of the TCP connection.  What each side leaves open as its    *)
(* environment is here what the other does: a fault packet arrives because *)
(* the downlink forwarded it, a command is executed because the uplink     *)
(* dispatched it, and a direction ends because the task that holds its     *)
(* write half returned.                                                    *)
(*                                                                         *)
(* This module is about faults and their recovery and about shutting down. *)
(* The sensors and the heartbeat are silent: readings travel in            *)
(* TelemetryLink, and what else telemetry_rx does, and what else competes  *)
(* for the uplink, is in GroundControl.                                    *)
(* The satellite connects once (satellite/src/main.rs:103) and is the only *)
(* one the station serves.                                                 *)
(***************************************************************************)
EXTENDS Integers, Sequences, FiniteSets

CONSTANTS RecoveryPolls,  \* the satellite's, as in SatelliteShared
          FaultChCap,
          Cancellers,
          Late,           \* the station's, as in GroundShared
          MayCancel,
          BothEnd,        \* may both sides be told to shut down?
          MaxPending,     \* bound: faults being dealt with at one time
          Socket          \* bound: frames a direction of the connection holds

ASSUME MissionAssumption ==
  /\ RecoveryPolls \in Nat \ {0} /\ FaultChCap \in Nat \ {0}
  /\ Cancellers \subseteq {"ui", "main"} /\ Late \subseteq BOOLEAN
  /\ MayCancel \in BOOLEAN /\ BothEnd \in BOOLEAN
  /\ MaxPending \in Nat \ {0} /\ Socket \in Nat \ {0}

VARIABLES
  state, buf, rq, faultCh, cancelled, running, resetDuring, sentInAbort,
  tpc, consecutive_miss, dpc, degraded, iter, pkt,
  ipc, circuit, unseen, waited, outcome,
  gstate, queue, inbox, session, alive, fpc, armed, clearing, upc, ucmd, hpc,
  rpc, unheard, consecutive_gap, delayed_fail_streak, asked, gcancelled,
  down,  \* fault packets on their way to the station
  up,    \* commands on their way to the satellite
  owed,  \* history: fault packets sent less resets executed or given up
  unsent \* history: the last reset handed to the writer was given up

Sat == INSTANCE Satellite
         WITH Capacity <- 1, Batch <- 1, MissAlert <- 1, MaxRetransmit <- 1,
              SoftSensors <- {}, Jitter <- {},
              Commands <- {"SafeMode", "ResetSensor"}
Gnd == INSTANCE GroundControl
         WITH NumSensors <- 1, GapLimit <- 1, MaxQueue <- 1, LinkCloses <- TRUE

thermalVars == <<tpc, consecutive_miss>>
downlinkVars == <<dpc, degraded, iter, pkt>>
injectorVars == <<ipc, circuit, unseen, waited, outcome>>
satellite == <<state, buf, rq, faultCh, cancelled, running, resetDuring,
               sentInAbort, thermalVars, downlinkVars, injectorVars>>

faultVars == <<fpc, armed, clearing>>
uplinkVars == <<upc, ucmd, hpc>>
telemetryVars == <<rpc, unheard, consecutive_gap, delayed_fail_streak, asked>>
station == <<gstate, queue, inbox, session, alive, faultVars, uplinkVars,
             telemetryVars, gcancelled>>

connection == <<down, up, owed, unsent>>
vars == <<satellite, station, connection>>

Init == Sat!Init /\ Gnd!Init /\ down = 0 /\ up = <<>> /\ owed = 0
        /\ unsent = FALSE

\* Both halves of its end of the connection are dropped: it is closed.
StationGone == {"telemetry_rx", "uplink_tx"} \cap alive = {}
SatelliteGone == {"downlink", "uplink"} \cap running = {}

-----------------------------------------------------------------------------
(* From the satellite to the station. *)

\* A fault packet enters the socket; one that is closed fails at once.
FaultSent ==
  /\ Sat!ForwardFault
  /\ IF StationGone THEN UNCHANGED down ELSE down < Socket /\ down' = down + 1
  /\ owed' = owed + 1
  /\ UNCHANGED <<thermalVars, injectorVars, station, up, unsent>>

FaultReceived ==
  /\ down > 0
  /\ Gnd!FaultArrives
  /\ down' = down - 1
  /\ UNCHANGED <<satellite, gcancelled, up, owed, unsent>>

\* The downlink has returned, and all it sent was read; or was not, because
\* the satellite has closed its end.
DownlinkEnds ==
  /\ "downlink" \notin running
  /\ down = 0 \/ SatelliteGone
  /\ Gnd!LinkClosed
  /\ down' = 0
  /\ UNCHANGED <<satellite, faultVars, uplinkVars, gcancelled, up, owed, unsent>>

-----------------------------------------------------------------------------
(* From the station to the satellite. *)

IsReset(cmd) == cmd = "ResetSensor"

\* Neither the writer nor the socket behind it takes another command.
NoRoom == SatelliteGone \/ Len(up) >= Socket

\* A mutant: a command that misses its deadline is sent once more, although
\* the writer has it.
CommandSent_Retried ==
  /\ Gnd!Dispatch
  /\ ~NoRoom
  /\ up' \in {Append(up, ucmd), up \o <<ucmd, ucmd>>}
  /\ unsent' = (unsent /\ ~IsReset(ucmd))
  /\ UNCHANGED <<satellite, faultVars, telemetryVars, gcancelled, down, owed>>

\* The writer takes the command: it reaches the socket in time or, if the
\* flush misses its deadline, with the next.
CommandSent ==
  /\ Gnd!Dispatch
  /\ ~NoRoom
  /\ up' = Append(up, ucmd)
  /\ unsent' = (unsent /\ ~IsReset(ucmd))
  /\ UNCHANGED <<satellite, faultVars, telemetryVars, gcancelled, down, owed>>

\* The deadline passes before the writer has room, or the write fails: the
\* command is counted as a miss and is gone.
CommandUnsent ==
  /\ Gnd!Dispatch
  /\ NoRoom
  /\ unsent' = (unsent \/ IsReset(ucmd))
  /\ owed' = IF IsReset(ucmd) THEN owed - 1 ELSE owed
  /\ UNCHANGED <<satellite, faultVars, telemetryVars, gcancelled, down, up>>

\* A command is executed.
CommandReceived ==
  /\ up # <<>>
  /\ Sat!HandleCommand(Head(up))
  /\ up' = Tail(up)
  /\ owed' = IF IsReset(Head(up)) THEN owed - 1 ELSE owed
  /\ UNCHANGED <<thermalVars, downlinkVars, injectorVars, station, down, unsent>>

\* The station's uplink has returned, and all its commands were executed; or
\* were not, because the station has closed its end.
UplinkEnds ==
  /\ "uplink_tx" \notin alive
  /\ up = <<>> \/ StationGone
  /\ Sat!UplinkClosed
  /\ up' = <<>>
  /\ UNCHANGED <<thermalVars, downlinkVars, injectorVars, station, down, owed, unsent>>

-----------------------------------------------------------------------------
(* Each side by itself. *)

\* The rest of a window: with nothing in the buffer it ends at once.
Window == /\ Sat!WindowOpens \/ Sat!ReadFlags \/ Sat!AdjustMode \/ Sat!PickNothing
          /\ UNCHANGED <<thermalVars, injectorVars>>

SatelliteCancels ==
  \/ Sat!DownlinkCancel /\ UNCHANGED <<thermalVars, injectorVars>>
  \/ Sat!UplinkCancel /\ UNCHANGED <<thermalVars, downlinkVars, injectorVars>>

SatelliteAlone ==
  /\ \/ Window \/ Sat!Injector \/ SatelliteCancels
     \/ (BothEnd \/ ~gcancelled) /\ \E w \in Cancellers : Sat!Cancel(w)
  /\ UNCHANGED <<station, connection>>

NextCommand == /\ Gnd!TakeCommand \/ Gnd!CheckState
               /\ UNCHANGED <<faultVars, telemetryVars>>

StationAlone ==
  /\ \/ (BothEnd \/ cancelled = {}) /\ Gnd!SendCancel
     \/ /\ Gnd!Faults \/ Gnd!Timers \/ NextCommand
           \/ Gnd!CleanUp \/ Gnd!Cancellation
        /\ UNCHANGED gcancelled
  /\ UNCHANGED <<satellite, connection>>

Next == \/ FaultSent \/ FaultReceived \/ DownlinkEnds
        \/ CommandSent \/ CommandUnsent \/ CommandReceived \/ UplinkEnds
        \/ SatelliteAlone \/ StationAlone

Spec == Init /\ [][Next]_vars

-----------------------------------------------------------------------------
(***************************************************************************)
(* Fairness, less than that of the two sides apart.  Each side goes on     *)
(* with what it began, the network delivers, and a select! takes a cancel  *)
(* branch that is ready again and again.  No fault need be injected and no *)
(* cancel signal be sent.                                                  *)
(***************************************************************************)
StationWork ==
  \/ CommandSent \/ CommandUnsent
  \/ /\ Gnd!Faults \/ Gnd!Timers \/ NextCommand \/ Gnd!CleanUp
     /\ UNCHANGED <<gcancelled, satellite, connection>>

SatelliteIsFair ==
  /\ WF_vars(FaultSent \/ (Window /\ UNCHANGED <<station, connection>>))
  /\ WF_vars(CommandReceived \/ UplinkEnds)
  /\ SF_vars(SatelliteCancels /\ UNCHANGED <<station, connection>>)

StationIsFair ==
  /\ WF_vars(StationWork)
  /\ SF_vars(FaultReceived \/ DownlinkEnds)
  /\ SF_vars(Gnd!TaskCancelled("telemetry_rx")
               /\ UNCHANGED <<gcancelled, satellite, connection>>)

FairSpec == Spec /\ SatelliteIsFair /\ StationIsFair

-----------------------------------------------------------------------------

Resets(cmds) == Cardinality({i \in DOMAIN cmds : IsReset(cmds[i])})

\* Resets queued, taken from the queue or on their way.
ResetsSent == Resets(queue[1]) + Resets(<<ucmd>>) + Resets(up)

\* Both directions are in use.
Connected == /\ {"telemetry_rx", "uplink_tx", "fault_mgr"} \subseteq alive
             /\ {"downlink", "uplink"} \subseteq running

\* While both sides are connected every fault packet is answered by one
\* ResetSensor, neither lost nor doubled: what the station owes the satellite
\* is on its way, as a packet, with the fault manager, in a timer or a command.
\* Only a reset that finds the writer full for 2 ms is given up
\* (uplink_tx.rs:116-139).
EveryFaultIsAccountedFor ==
  Connected => owed = down + Gnd!Pending + ResetsSent

\* Safe mode is temporary: while the satellite is in it and can hear, the reset
\* that ends it is still to come and did not overtake the SafeMode command,
\* unless the last one sent was given up.
SafeModeIsTemporary ==
  state = "SafeMode" /\ Connected => Gnd!Pending + ResetsSent > 0 \/ unsent

\* The satellite's notice of a fault leads, by downlink, interlock, timer and
\* uplink, to a reset about to be executed, unless the writer has no room for
\* it or a side shuts down.
FaultRoundTrip ==
  faultCh > 0 ~> \/ up # <<>> /\ IsReset(Head(up))
                 \/ upc = "send" /\ IsReset(ucmd) /\ NoRoom
                 \/ ~Connected

\* Once the satellite shuts down the station's session ends and is cleaned up,
\* ready for the next one, with no word but the end of the connection.
SatelliteEndIsNoticed ==
  "main" \in cancelled ~> session \in {"over", "closed"}

\* Once the station shuts down the satellite's uplink task returns, while the
\* satellite works on: it does not wait for commands that cannot come.
StationEndIsNoticed == gcancelled ~> "uplink" \notin running
=============================================================================
