------------------------------ MODULE FaultMgr ------------------------------
(***************************************************************************)
(* The ground station's answer to a fault packet (ground/src/fault_mgr.rs):*)
(* it interlocks the uplink, commands safe mode, and leaves behind a timer *)
(* that lifts the interlock and commands a reset.  The timer is a task of  *)
(* its own that nobody waits for: it outlives the session.                 *)
(***************************************************************************)
EXTENDS GroundShared

VARIABLES fpc,       \* "recv", "apply", "alert" or "enqueue"
          armed,     \* timers sleeping
          clearing   \* timers that have lifted the interlock, not yet reset

faultVars == <<fpc, armed, clearing>>

FaultInit == fpc = "recv" /\ armed = 0 /\ clearing = 0

\* Faults in the hands of the manager or of one of its timers.
Pending == inbox + (IF fpc = "recv" THEN 0 ELSE 1) + armed + clearing

ReceiveFault ==
  /\ "fault_mgr" \in alive
  /\ fpc = "recv"
  /\ inbox > 0
  /\ inbox' = inbox - 1
  /\ fpc' = "apply"
  /\ UNCHANGED <<gstate, queue, session, alive, armed, clearing>>

\* The interlock is set, whatever the state is; then its latency is measured.
ApplyInterlock ==
  /\ "fault_mgr" \in alive
  /\ fpc = "apply"
  /\ gstate' = "InterlockActive"
  /\ \E late \in Late : fpc' = IF late THEN "alert" ELSE "enqueue"
  /\ UNCHANGED <<queue, inbox, session, alive, armed, clearing>>

\* The limit of 100 ms was exceeded.
RaiseAlert ==
  /\ "fault_mgr" \in alive
  /\ fpc = "alert"
  /\ gstate' = "CriticalAlert"
  /\ fpc' = "enqueue"
  /\ UNCHANGED <<queue, inbox, session, alive, armed, clearing>>

\* A mutant: the timer is not spawned.
CommandSafeMode_NoTimer ==
  /\ "fault_mgr" \in alive
  /\ fpc = "enqueue"
  /\ Enqueue("SafeMode")
  /\ fpc' = "recv"
  /\ UNCHANGED <<gstate, inbox, session, alive, armed, clearing>>

\* SafeMode is queued and the timer spawned.
CommandSafeMode ==
  /\ "fault_mgr" \in alive
  /\ fpc = "enqueue"
  /\ Enqueue("SafeMode")
  /\ armed' = armed + 1
  /\ fpc' = "recv"
  /\ UNCHANGED <<gstate, inbox, session, alive, clearing>>

\* A timer fires: an interlock or an alert ends, whichever fault it is for.
LiftInterlock ==
  /\ armed > 0
  /\ armed' = armed - 1
  /\ clearing' = clearing + 1
  /\ gstate' = IF gstate \in {"InterlockActive", "CriticalAlert"}
               THEN "Nominal" ELSE gstate
  /\ UNCHANGED <<queue, inbox, session, alive, fpc>>

\* Then it queues the reset, even if the session it belongs to is over.
CommandReset ==
  /\ clearing > 0
  /\ clearing' = clearing - 1
  /\ Enqueue("ResetSensor")
  /\ UNCHANGED <<gstate, inbox, session, alive, fpc, armed>>

FaultMgrNext == ReceiveFault \/ ApplyInterlock \/ RaiseAlert \/ CommandSafeMode
TimerNext == LiftInterlock \/ CommandReset

FaultTypeOK == /\ fpc \in {"recv", "apply", "alert", "enqueue"}
               /\ armed \in Nat /\ clearing \in Nat
               /\ Pending <= MaxPending
=============================================================================
