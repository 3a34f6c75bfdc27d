---------------------------- MODULE GroundShared ----------------------------
(***************************************************************************)
(* What the ground station's tasks share (ground/src/main.rs): the state   *)
(* of the station and the queue of commands, each under a mutex of its     *)
(* own, which outlive a connection; and per connection ("session") the     *)
(* channel of fault packets.  Each action of a task is what it does        *)
(* between two points where it may be suspended with no mutex held.        *)
(*                                                                         *)
(* The commands in the queue are known by their kind.  The heap is one     *)
(* lane per priority: it hands out the oldest command of the most urgent   *)
(* lane.  (The order within a lane is that of the timestamps, taken        *)
(* microseconds before the push; the model takes the order of pushes.)     *)
(***************************************************************************)
EXTENDS Packets, Integers, Sequences

CONSTANTS NumSensors,   \* sensors whose packets are expected
          GapLimit,     \* gaps, and delays, in a row that mean loss of contact
          Late,         \* may the interlock be applied too late?
          LinkCloses,   \* may the connection close?
          MayCancel,    \* may the cancel signal be sent?
          MaxPending,   \* bound: faults being dealt with at one time
          MaxQueue      \* bound: commands in one lane

ASSUME GroundAssumption ==
  /\ NumSensors \in Nat \ {0} /\ GapLimit \in Nat \ {0}
  /\ Late \subseteq BOOLEAN /\ LinkCloses \in BOOLEAN /\ MayCancel \in BOOLEAN
  /\ MaxPending \in Nat \ {0} /\ MaxQueue \in Nat \ {0}

VARIABLES gstate,   \* GcsSystemState
          queue,    \* cmd_queue, by priority
          inbox,    \* fault packets in the session's channel
          session,  \* "up", "ending" once its token is cancelled, "cleared"
                    \* with the queue, "over" with its tasks, or "closed"
                    \* when no more connections are accepted
          alive     \* tasks of the session that have not returned

ground == <<gstate, queue, inbox, session, alive>>

GcsSystemState == {"Nominal", "InterlockActive", "LossOfContact", "CriticalAlert"}
Task == {"telemetry_rx", "uplink_tx", "fault_mgr", "heartbeat"}
Phase == {"up", "ending", "cleared", "over", "closed"}
Emergency == {"SafeMode", "ResetSensor"}
Command == Emergency \cup {"RequestTelemetry", "Heartbeat"}

\* The priority each command is built with.
Urgency(cmd) == IF cmd \in Emergency THEN 1
                ELSE IF cmd = "RequestTelemetry" THEN 2 ELSE 3

\* States in which commands other than emergencies are rejected.
Blocking == {"InterlockActive", "LossOfContact"}

RoomFor(n, p) == Len(queue[p]) + n <= MaxQueue

Enqueue(cmd) == queue' = [queue EXCEPT ![Urgency(cmd)] = Append(@, cmd)]

\* A mutant: the comparison of priorities is not reversed, so that the heap
\* hands out the least urgent command.
NextLane_Reversed(p) == queue[p] # <<>> /\ \A r \in (p + 1)..3 : queue[r] = <<>>

\* The lane BinaryHeap::pop takes from.
NextLane(p) == queue[p] # <<>> /\ \A r \in 1..(p - 1) : queue[r] = <<>>

GroundInit ==
  /\ gstate = "Nominal"
  /\ queue = [p \in 1..3 |-> <<>>]
  /\ inbox = 0
  /\ session = "up"
  /\ alive = Task

\* Types of the shared state.
GroundTypeOK ==
  /\ gstate \in GcsSystemState
  /\ queue \in [1..3 -> Seq(Command)]
  /\ \A p \in 1..3 : \A i \in DOMAIN queue[p] : Urgency(queue[p][i]) = p
  /\ inbox \in 0..MaxPending
  /\ session \in Phase
  /\ alive \subseteq Task
=============================================================================
