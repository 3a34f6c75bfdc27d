----------------------------- MODULE TelemetryRx -----------------------------
(***************************************************************************)
(* The task that receives (ground/src/telemetry_rx.rs): it passes faults   *)
(* on, asks again for packets that are missing or late, and declares loss  *)
(* of contact and its end.  Whether a frame reveals a gap in its sensor's  *)
(* numbers, and whether a try_lock succeeds, is left open; what the task   *)
(* does about it is not.                                                   *)
(***************************************************************************)
EXTENDS GroundShared

VARIABLES rpc,     \* "recv"; in a frame, "frame"; in a quiet time, "quiet" and "late"
          unheard, \* sensors without a packet in this session
          consecutive_gap,      \* saturating at GapLimit, as the next
          delayed_fail_streak,
          asked    \* sensors whose late packet has been asked for

telemetryVars == <<rpc, unheard, consecutive_gap, delayed_fail_streak, asked>>

TelemetryInit == /\ rpc = "recv" /\ unheard = NumSensors /\ asked = 0
                 /\ consecutive_gap = 0 /\ delayed_fail_streak = 0

\* The task's locals are gone, as when it starts.
TelemetryReset == /\ rpc' = "recv" /\ unheard' = NumSensors /\ asked' = 0
                  /\ consecutive_gap' = 0 /\ delayed_fail_streak' = 0

Saturated(n) == IF n > GapLimit THEN GapLimit ELSE n

Receiving == "telemetry_rx" \in alive /\ rpc = "recv"

\* A fault packet goes to the session's channel.
FaultFrame ==
  /\ Receiving
  /\ inbox < MaxPending
  /\ inbox' = inbox + 1
  /\ UNCHANGED <<gstate, queue, session, alive, telemetryVars>>

\* The metrics are locked by someone else: the frame's number is noted, and
\* neither gap nor state are looked at.
FrameUnseen ==
  /\ Receiving
  /\ unheard' \in {unheard, unheard - 1} \cap 0..(NumSensors - 1)
  /\ asked' \in {asked, asked - 1} \cap Nat
  /\ UNCHANGED <<gstate, queue, inbox, session, alive, rpc,
                 consecutive_gap, delayed_fail_streak>>

\* A sensor's first packet, which ends no run of gaps.
FirstFrame ==
  /\ Receiving
  /\ unheard > 0
  /\ unheard' = unheard - 1
  /\ asked' \in {asked, asked - 1} \cap Nat
  /\ rpc' = "frame"
  /\ UNCHANGED <<gstate, queue, inbox, session, alive,
                 consecutive_gap, delayed_fail_streak>>

FrameInOrder ==
  /\ Receiving
  /\ unheard < NumSensors
  /\ consecutive_gap' = 0
  /\ asked' \in {asked, asked - 1} \cap Nat
  /\ rpc' = "frame"
  /\ UNCHANGED <<gstate, queue, inbox, session, alive, unheard,
                 delayed_fail_streak>>

\* Numbers are missing before this one: the first of them is asked for.
FrameAfterGap ==
  /\ Receiving
  /\ unheard < NumSensors
  /\ RoomFor(1, 2)
  /\ consecutive_gap' = Saturated(consecutive_gap + 1)
  /\ Enqueue("RequestTelemetry")
  /\ asked' \in {asked, asked - 1} \cap Nat
  /\ rpc' = "frame"
  /\ UNCHANGED <<gstate, inbox, session, alive, unheard, delayed_fail_streak>>

\* The frame ends a loss of contact, unless it is one gap too many.  The state
\* is left alone when it is locked by someone else.
FrameSettled ==
  /\ "telemetry_rx" \in alive
  /\ rpc = "frame"
  /\ rpc' = "recv"
  /\ \/ /\ gstate' = IF consecutive_gap >= GapLimit THEN "LossOfContact"
                     ELSE IF gstate = "LossOfContact" THEN "Nominal" ELSE gstate
        /\ delayed_fail_streak' = IF consecutive_gap = 0 THEN 0
                                  ELSE delayed_fail_streak
     \/ UNCHANGED <<gstate, delayed_fail_streak>>
  /\ UNCHANGED <<queue, inbox, session, alive, unheard, consecutive_gap, asked>>

\* 200 ms without a frame.  Contact is lost if the last frame is 10 s old.
Quiet ==
  /\ Receiving
  /\ gstate' \in {gstate, "LossOfContact"}
  /\ rpc' = "quiet"
  /\ UNCHANGED <<queue, inbox, session, alive, unheard, consecutive_gap,
                 delayed_fail_streak, asked>>

\* A mutant: what was asked for already is asked for again.
AskForLate_Again(n) ==
  /\ "telemetry_rx" \in alive
  /\ rpc = "quiet"
  /\ RoomFor(n, 2)
  /\ queue' = [queue EXCEPT ![2] = @ \o [i \in 1..n |-> "RequestTelemetry"]]
  /\ asked' = asked + n
  /\ delayed_fail_streak' = Saturated(delayed_fail_streak + n)
  /\ rpc' = "late"
  /\ UNCHANGED <<gstate, inbox, session, alive, unheard, consecutive_gap>>

\* For n sensors whose packet has become late it is asked for, once.
AskForLate(n) ==
  /\ "telemetry_rx" \in alive
  /\ rpc = "quiet"
  /\ asked + n <= NumSensors
  /\ RoomFor(n, 2)
  /\ queue' = [queue EXCEPT ![2] = @ \o [i \in 1..n |-> "RequestTelemetry"]]
  /\ asked' = asked + n
  /\ delayed_fail_streak' = Saturated(delayed_fail_streak + n)
  /\ rpc' = "late"
  /\ UNCHANGED <<gstate, inbox, session, alive, unheard, consecutive_gap>>

\* Too many late packets in a row are a loss of contact.
QuietSettled ==
  /\ "telemetry_rx" \in alive
  /\ rpc = "late"
  /\ rpc' = "recv"
  /\ gstate' \in IF delayed_fail_streak >= GapLimit
                 THEN {gstate, "LossOfContact"} ELSE {gstate}
  /\ UNCHANGED <<queue, inbox, session, alive, unheard, consecutive_gap,
                 delayed_fail_streak, asked>>

\* The connection is closed or broken: contact is lost, the task returns, its
\* locals are gone, and the session's token is cancelled.
LinkClosed ==
  /\ LinkCloses
  /\ Receiving
  /\ gstate' \in {gstate, "LossOfContact"}
  /\ alive' = alive \ {"telemetry_rx"}
  /\ session' = "ending"
  /\ TelemetryReset
  /\ UNCHANGED <<queue, inbox>>

TelemetryRxNext == \/ FrameUnseen \/ FirstFrame
                   \/ FrameInOrder \/ FrameAfterGap \/ FrameSettled
                   \/ Quiet \/ QuietSettled
                   \/ \E n \in 0..NumSensors : AskForLate(n)
                   \/ LinkClosed

TelemetryTypeOK == /\ rpc \in {"recv", "frame", "quiet", "late"}
                   /\ unheard \in 0..NumSensors
                   /\ asked \in 0..NumSensors
                   /\ consecutive_gap \in 0..GapLimit
                   /\ delayed_fail_streak \in 0..GapLimit
=============================================================================
