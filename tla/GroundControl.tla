---------------------------- MODULE GroundControl ----------------------------
(***************************************************************************)
(* The ground station: the tasks of a session side by side, the timers of  *)
(* the fault manager, the loop that accepts one connection after the other *)
(* and cleans up in between, and the cancel signal (ground/src/main.rs).   *)
(***************************************************************************)
EXTENDS FaultMgr, UplinkTx, TelemetryRx

VARIABLE gcancelled   \* the cancel signal was sent

vars == <<ground, faultVars, uplinkVars, telemetryVars, gcancelled>>

Init == /\ GroundInit /\ FaultInit /\ UplinkInit /\ TelemetryInit
        /\ gcancelled = FALSE

Faults == FaultMgrNext /\ UNCHANGED <<uplinkVars, telemetryVars>>
Timers == TimerNext /\ UNCHANGED <<uplinkVars, telemetryVars>>
Uplink == UplinkTxNext /\ UNCHANGED <<faultVars, telemetryVars>>
Heartbeat == HeartbeatNext /\ UNCHANGED <<faultVars, telemetryVars>>
Telemetry == TelemetryRxNext /\ UNCHANGED <<faultVars, uplinkVars>>

\* A fault arrives; the bound keeps its two commands within the lane's.
FaultArrives ==
  /\ FaultFrame
  /\ 2 * (Pending + 1) + Len(queue[1]) <= 2 * MaxPending
  /\ UNCHANGED <<faultVars, uplinkVars>>

\* Task t ends and its locals with it: they are as they are when it starts.
Ended(t) ==
  /\ alive' = alive \ {t}
  /\ fpc' = IF t = "fault_mgr" THEN "recv" ELSE fpc
  /\ IF t = "uplink_tx" THEN upc' = "tick" /\ ucmd' = "none"
                        ELSE UNCHANGED <<upc, ucmd>>
  /\ hpc' = IF t = "heartbeat" THEN "tick" ELSE hpc
  /\ IF t = "telemetry_rx" THEN TelemetryReset ELSE UNCHANGED telemetryVars
  /\ UNCHANGED <<gstate, queue, inbox, armed, clearing>>

\* A mutant: the uplink is not wrapped in a select! on the token.
Dropped_NotUplink(t) ==
  /\ session \in {"ending", "cleared"}
  /\ t \in alive \ {"uplink_tx"}
  /\ t = "heartbeat" => hpc = "tick"
  /\ Ended(t)
  /\ UNCHANGED session

\* The cancelled token is seen: a task is dropped where it is suspended, the
\* heartbeat only between two beats.
Dropped(t) ==
  /\ session \in {"ending", "cleared"}
  /\ t \in alive
  /\ t = "heartbeat" => hpc = "tick"
  /\ Ended(t)
  /\ UNCHANGED session

\* A mutant: the queue is left as it is.
ClearQueue_Kept ==
  /\ session = "ending"
  /\ session' = "cleared"
  /\ UNCHANGED <<gstate, queue, inbox, alive, faultVars, uplinkVars,
                 telemetryVars>>

\* 50 ms later the queue is emptied, whether or not the tasks of the session
\* have seen the token: what is left of them may still push.
ClearQueue ==
  /\ session = "ending"
  /\ queue' = [p \in 1..3 |-> <<>>]
  /\ session' = "cleared"
  /\ UNCHANGED <<gstate, inbox, alive, faultVars, uplinkVars, telemetryVars>>

\* Then the session loop waits for them; for the timers nobody does.
Joined ==
  /\ session = "cleared"
  /\ alive = {}
  /\ session' = "over"
  /\ UNCHANGED <<gstate, queue, inbox, alive, faultVars, uplinkVars,
                 telemetryVars>>

\* The next connection: a new channel and new tasks, the old state and queue.
Accept ==
  /\ session = "over"
  /\ session' = "up"
  /\ alive' = Task
  /\ inbox' = 0
  /\ UNCHANGED <<gstate, queue, faultVars, uplinkVars, telemetryVars>>

\* The dashboard's 'q' or main's timer sends the cancel signal, a second time
\* to no effect: nobody is left who has not seen it and could miss it.
SendCancel ==
  /\ MayCancel
  /\ gcancelled' = TRUE
  /\ UNCHANGED <<gstate, queue, inbox, session, alive, faultVars, uplinkVars,
                 telemetryVars>>

\* Where a task waits in the select! that has the cancel branch.
AtSelect(t) == CASE t = "telemetry_rx" -> rpc = "recv"
                 [] t = "uplink_tx" -> upc = "tick"
                 [] t = "fault_mgr" -> fpc = "recv"
                 [] t = "heartbeat" -> hpc = "tick"

\* A mutant: telemetry_rx returns and leaves the session's token alone.
TaskCancelled_NoToken(t) ==
  /\ gcancelled
  /\ t \in alive
  /\ AtSelect(t)
  /\ Ended(t)
  /\ UNCHANGED session

\* A task takes the cancel branch and returns; the end of telemetry_rx cancels
\* the session's token.
TaskCancelled(t) ==
  /\ gcancelled
  /\ t \in alive
  /\ AtSelect(t)
  /\ Ended(t)
  /\ session' = IF t = "telemetry_rx" THEN "ending" ELSE session

\* The session loop takes its cancel branch, between two sessions only.
StopAccepting ==
  /\ gcancelled
  /\ session = "over"
  /\ session' = "closed"
  /\ UNCHANGED <<gstate, queue, inbox, alive, faultVars, uplinkVars,
                 telemetryVars>>

CleanUp == ClearQueue \/ Joined \/ \E t \in Task : Dropped(t)
Cancellation == StopAccepting \/ \E t \in Task : TaskCancelled(t)

\* What does not send the cancel signal.
Work == /\ \/ Faults \/ Timers \/ Uplink \/ Heartbeat \/ Telemetry
           \/ FaultArrives
           \/ CleanUp \/ Accept \/ Cancellation
        /\ UNCHANGED gcancelled

Next == Work \/ SendCancel

Spec == Init /\ [][Next]_vars

-----------------------------------------------------------------------------
(***************************************************************************)
(* Fairness.  The runtime schedules every task that can go on, and sleeps  *)
(* end.  Nothing need ever arrive from the satellite, no connection be     *)
(* made, no key pressed.  A select! with several ready branches picks one  *)
(* at random, so a cancel branch that is ready again and again is taken,   *)
(* the heartbeat's branch on the token too.                                *)
(* (Of the session's tasks only telemetry_rx need see it: the others are   *)
(* dropped with the token it cancels.)                                     *)
(***************************************************************************)
\* What telemetry_rx does to end what it began with a frame or a quiet time.
TelemetryWork == /\ \/ FrameSettled \/ QuietSettled
                    \/ \E n \in 0..NumSensors : AskForLate(n)
                 /\ UNCHANGED <<faultVars, uplinkVars>>

FairSpec == /\ Spec
            /\ WF_vars(Faults /\ UNCHANGED gcancelled)
            /\ WF_vars(Timers /\ UNCHANGED gcancelled)
            /\ WF_vars(Uplink /\ UNCHANGED gcancelled)
            /\ WF_vars(QueueHeartbeat
                         /\ UNCHANGED <<faultVars, telemetryVars, gcancelled>>)
            /\ WF_vars(TelemetryWork /\ UNCHANGED gcancelled)
            /\ WF_vars(CleanUp /\ UNCHANGED gcancelled)
            /\ SF_vars(Dropped("heartbeat") /\ UNCHANGED gcancelled)
            /\ SF_vars(StopAccepting /\ UNCHANGED gcancelled)
            /\ SF_vars(TaskCancelled("telemetry_rx") /\ UNCHANGED gcancelled)

-----------------------------------------------------------------------------

\* Types of the whole state.
TypeOK == /\ GroundTypeOK /\ FaultTypeOK /\ UplinkTypeOK /\ TelemetryTypeOK
          /\ gcancelled \in BOOLEAN

\* While the session lasts, an interlock or an alert is always on its way out:
\* some timer sleeps, or the manager is about to start one.
InterlockIsTimed ==
  gstate \in {"InterlockActive", "CriticalAlert"}
    => armed > 0 \/ ("fault_mgr" \in alive /\ fpc \in {"alert", "enqueue"})

\* While its session lasts every fault packet leads to a ResetSensor that is
\* sent, whatever state the station is in and however many heartbeats and
\* requests compete with it.
FaultIsAnswered ==
  inbox > 0 ~> (upc = "send" /\ ucmd = "ResetSensor") \/ session # "up"

\* A session that ends is cleaned up, whatever its tasks were doing, so that
\* the next connection is accepted.
SessionIsCleanedUp == session = "ending" ~> session = "over"

\* After the cancel signal the session loop ends, so that main's join does,
\* whatever the tasks were doing and even if a connection is accepted after it:
\* the loop itself listens only between sessions (main.rs:121).
GroundShutdownCompletes == gcancelled ~> session = "closed"

\* The queue is emptied before the session's tasks are waited for
\* (main.rs:254-259), so a beat held up on its way to the queue outlasts it.
\* No request for the old session's packets does; and a SafeMode that does
\* is not left without the reset that ends it, in the queue behind it or due
\* from a timer, although what was queued of both may be gone.
LeftoversAreSound ==
  session = "over" =>
    /\ queue[2] = <<>>
    /\ \A i \in DOMAIN queue[1] :
          queue[1][i] = "SafeMode" =>
             \/ armed + clearing > 0
             \/ \E j \in DOMAIN queue[1] : j > i /\ queue[1][j] = "ResetSensor"

=============================================================================
