------------------------------ MODULE UplinkTx ------------------------------
(***************************************************************************)
(* The task that sends the queued commands, one per tick                   *)
(* (ground/src/uplink_tx.rs), and the session's heartbeat (main.rs).  Both *)
(* look at the state of the station once and act on what they saw later.   *)
(***************************************************************************)
EXTENDS GroundShared

VARIABLES upc,   \* "tick", "check" or "send"
          ucmd,  \* the command taken from the queue, or "none"
          hpc    \* the heartbeat: "tick" or "push"

uplinkVars == <<upc, ucmd, hpc>>

UplinkInit == upc = "tick" /\ ucmd = "none" /\ hpc = "tick"

\* A mutant: the comparison of timestamps is not reversed, so that the heap
\* hands out the newest command of a lane.
TakeCommand_Newest ==
  /\ "uplink_tx" \in alive
  /\ upc = "tick"
  /\ \E p \in 1..3 :
        /\ NextLane(p)
        /\ ucmd' = queue[p][Len(queue[p])]
        /\ queue' = [queue EXCEPT ![p] = SubSeq(@, 1, Len(@) - 1)]
  /\ upc' = "check"
  /\ UNCHANGED <<gstate, inbox, session, alive, hpc>>

\* A tick with a command in the queue; without one nothing happens.
TakeCommand ==
  /\ "uplink_tx" \in alive
  /\ upc = "tick"
  /\ \E p \in 1..3 : /\ NextLane(p)
                     /\ ucmd' = Head(queue[p])
                     /\ queue' = [queue EXCEPT ![p] = Tail(@)]
  /\ upc' = "check"
  /\ UNCHANGED <<gstate, inbox, session, alive, hpc>>

\* A mutant: loss of contact alone blocks commands.
CheckState_LossOnly ==
  /\ "uplink_tx" \in alive
  /\ upc = "check"
  /\ IF gstate = "LossOfContact" /\ Urgency(ucmd) > 1
     THEN upc' = "tick" /\ ucmd' = "none"
     ELSE upc' = "send" /\ UNCHANGED ucmd
  /\ UNCHANGED <<gstate, queue, inbox, session, alive, hpc>>

\* The state is read; a rejected command is gone.
CheckState ==
  /\ "uplink_tx" \in alive
  /\ upc = "check"
  /\ IF gstate \in Blocking /\ Urgency(ucmd) > 1
     THEN upc' = "tick" /\ ucmd' = "none"
     ELSE upc' = "send" /\ UNCHANGED ucmd
  /\ UNCHANGED <<gstate, queue, inbox, session, alive, hpc>>

\* The command is handed to the writer, and whether its frame leaves in time,
\* with the next, or finds no room, nothing else here depends on it (module
\* MissionControl tells these apart).
Dispatch ==
  /\ "uplink_tx" \in alive
  /\ upc = "send"
  /\ upc' = "tick"
  /\ ucmd' = "none"
  /\ UNCHANGED <<gstate, queue, inbox, session, alive, hpc>>

UplinkTxNext == TakeCommand \/ CheckState \/ Dispatch

\* The heartbeat's interval ticks; without contact it is left out.
HeartbeatDue ==
  /\ "heartbeat" \in alive
  /\ hpc = "tick"
  /\ RoomFor(1, 3)
  /\ gstate # "LossOfContact"
  /\ hpc' = "push"
  /\ UNCHANGED <<gstate, queue, inbox, session, alive, upc, ucmd>>

QueueHeartbeat ==
  /\ "heartbeat" \in alive
  /\ hpc = "push"
  /\ Enqueue("Heartbeat")
  /\ hpc' = "tick"
  /\ UNCHANGED <<gstate, inbox, session, alive, upc, ucmd>>

HeartbeatNext == HeartbeatDue \/ QueueHeartbeat

UplinkTypeOK == /\ upc \in {"tick", "check", "send"}
                /\ ucmd \in Command \cup {"none"}
                /\ upc = "tick" <=> ucmd = "none"
                /\ hpc \in {"tick", "push"}
=============================================================================
