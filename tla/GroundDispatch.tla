--------------------------- MODULE GroundDispatch ---------------------------
(***************************************************************************)
(* The ground station with a history of the commands its uplink sends, for *)
(* what is promised about their order and about the interlock.  A command  *)
(* counts as sent when it is handed to the writer: what becomes of it      *)
(* there, in time, late or without room, is in MissionControl.             *)
(***************************************************************************)
EXTENDS GroundControl

VARIABLES slipped,  \* other commands dispatched since the state began to block
          lead      \* SafeMode minus ResetSensor commands dispatched

dispatchVars == <<vars, slipped, lead>>

DispatchInit == Init /\ slipped = 0 /\ lead = 0

Remember ==
  LET sent == upc = "send" /\ upc' = "tick" /\ alive' = alive IN
  /\ slipped' = IF gstate' \notin Blocking THEN 0
                ELSE IF sent /\ Urgency(ucmd) > 1 THEN slipped + 1 ELSE slipped
  /\ lead' = IF session' # session THEN 0
             ELSE IF sent /\ ucmd = "SafeMode" THEN lead + 1
             ELSE IF sent /\ ucmd = "ResetSensor" THEN lead - 1 ELSE lead

DispatchSpec == DispatchInit /\ [][Next /\ Remember]_dispatchVars

-----------------------------------------------------------------------------

\* The uplink looks at the state after it took a command and sends it later
\* (uplink_tx.rs:78-106): what is sent in spite of an interlock or of a loss
\* of contact is at most that one command, however long the state lasts.
AtMostOneSlips == slipped <= 1

\* The satellite is told to go to safe mode before it is told to reset: within
\* a session that does not end no ResetSensor overtakes its SafeMode, queued
\* by another task 50 ms earlier, whatever else is in the queue.
ResetFollowsSafeMode == lead >= 0
=============================================================================
