------------------------- MODULE GroundControlProofs -------------------------
(***************************************************************************)
(* Proofs about the ground station, for any number of sensors, of faults   *)
(* being dealt with and of gaps that mean loss of contact.                 *)
(***************************************************************************)
EXTENDS GroundDispatch, CommonFacts, TLAPS

\* Every lane holds commands of its priority.
QueueOK == /\ queue \in [1..3 -> Seq(Command)]
           /\ \A p \in 1..3 : \A i \in DOMAIN queue[p] : Urgency(queue[p][i]) = p

\* The types but for the queue.
RestOK == /\ gstate \in GcsSystemState /\ inbox \in 0..MaxPending
          /\ session \in Phase /\ alive \subseteq Task
          /\ FaultTypeOK /\ UplinkTypeOK /\ TelemetryTypeOK /\ gcancelled \in BOOLEAN

\* A session that ends has lost telemetry_rx, and is over once all are gone.
NobodyLeft == /\ session # "up" => "telemetry_rx" \notin alive
              /\ session \in {"over", "closed"} => alive = {}

\* Nobody asks for packets after the queue was emptied.
RequestsGone == session \in {"cleared", "over", "closed"} => queue[2] = <<>>

\* Each SafeMode of the lane has its reset behind it, there or with a timer.
ResetsToCome == Followed(queue[1], armed + clearing > 0)

IInv == QueueOK /\ RestOK /\ NobodyLeft /\ RequestsGone /\ ResetsToCome

LEMMA TypesAreBoth == TypeOK <=> QueueOK /\ RestOK
<1> QED BY DEF TypeOK, GroundTypeOK, QueueOK, RestOK

-----------------------------------------------------------------------------

LEMMA Priorities == /\ \A cmd \in Command : Urgency(cmd) \in 1..3
                    /\ {"SafeMode", "ResetSensor", "Heartbeat", "RequestTelemetry"}
                         \subseteq Command
                    /\ Urgency("SafeMode") = 1 /\ Urgency("ResetSensor") = 1
                    /\ Urgency("RequestTelemetry") = 2 /\ Urgency("Heartbeat") = 3
<1> QED BY DEF Command, Emergency, Urgency

LEMMA EnqueueKeeps ==
  ASSUME QueueOK, NEW cmd \in Command, Enqueue(cmd)
  PROVE  QueueOK'
<1> DEFINE u == Urgency(cmd)
<1>1. u \in 1..3 /\ queue' = [queue EXCEPT ![u] = Append(queue[u], cmd)]
  BY Priorities DEF Enqueue
<1> HIDE DEF u
<1>2. Append(queue[u], cmd) \in Seq(Command)
      /\ Len(Append(queue[u], cmd)) = Len(queue[u]) + 1
  BY <1>1 DEF QueueOK
<1>3. queue' \in [1..3 -> Seq(Command)]
  BY <1>1, <1>2 DEF QueueOK
<1>4. ASSUME NEW p \in 1..3, NEW i \in DOMAIN queue'[p]
      PROVE  Urgency(queue'[p][i]) = p
  <2>1. CASE p # u
    BY <1>1, <1>4, <2>1 DEF QueueOK
  <2>2. CASE p = u
    <3>1. queue'[p] = Append(queue[u], cmd)
      BY <1>1, <2>2 DEF QueueOK
    <3>2. i \in 1..(Len(queue[u]) + 1)
      BY <1>1, <1>2, <1>4, <3>1 DEF QueueOK
    <3>3. CASE i = Len(queue[u]) + 1
      <4>1. queue'[p][i] = cmd
        BY <1>1, <3>1, <3>3 DEF QueueOK
      <4> QED BY <2>2, <4>1 DEF u
    <3>4. CASE i \in 1..Len(queue[u])
      <4>1. queue'[p][i] = queue[u][i] /\ i \in DOMAIN queue[u]
        BY <1>1, <3>1, <3>4 DEF QueueOK
      <4> QED BY <1>1, <2>2, <4>1 DEF QueueOK
    <3> QED BY <1>1, <3>2, <3>3, <3>4 DEF QueueOK
  <2> QED BY <2>1, <2>2
<1> QED BY <1>3, <1>4 DEF QueueOK

LEMMA TakeKeeps ==
  ASSUME QueueOK, NEW p \in 1..3, queue[p] # <<>>,
         queue' = [queue EXCEPT ![p] = Tail(queue[p])]
  PROVE  QueueOK' /\ Head(queue[p]) \in Command
<1> DEFINE rest == Tail(queue[p])
<1>1. /\ queue[p] \in Seq(Command) /\ Len(queue[p]) \in Nat \ {0}
      /\ rest \in Seq(Command) /\ Len(rest) = Len(queue[p]) - 1
      /\ \A i \in 1..(Len(queue[p]) - 1) : rest[i] = queue[p][i + 1]
      /\ Head(queue[p]) \in Command
  BY DEF QueueOK
<1>0. queue' = [queue EXCEPT ![p] = rest]
  OBVIOUS
<1> HIDE DEF rest
<1>2. queue' \in [1..3 -> Seq(Command)]
  BY <1>0, <1>1 DEF QueueOK
<1>3. ASSUME NEW q \in 1..3, NEW i \in DOMAIN queue'[q]
      PROVE  Urgency(queue'[q][i]) = q
  <2>1. CASE q # p
    BY <1>0, <1>3, <2>1 DEF QueueOK
  <2>2. CASE q = p
    <3>1. queue'[q] = rest
      BY <1>0, <2>2 DEF QueueOK
    <3>2. i \in 1..(Len(queue[p]) - 1)
      BY <1>1, <1>3, <3>1
    <3>3. queue'[q][i] = queue[p][i + 1]
      BY <1>1, <3>1, <3>2
    <3>4. i + 1 \in DOMAIN queue[p]
      <4>1. DOMAIN queue[p] = 1..Len(queue[p])
        BY <1>1
      <4>2. i + 1 \in 1..Len(queue[p])
        BY <1>1, <3>2
      <4> QED BY <4>1, <4>2
    <3> QED BY <2>2, <3>3, <3>4 DEF QueueOK
  <2> QED BY <2>1, <2>2
<1> QED BY <1>1, <1>2, <1>3 DEF QueueOK

LEMMA RequestsKeep ==
  ASSUME QueueOK, NEW n \in Nat,
         queue' = [queue EXCEPT ![2] = queue[2] \o [i \in 1..n |-> "RequestTelemetry"]]
  PROVE  QueueOK'
<1> DEFINE new == [i \in 1..n |-> "RequestTelemetry"]
           all == queue[2] \o new
<1>1. new \in Seq(Command) /\ Len(new) = n /\ queue[2] \in Seq(Command)
  BY Priorities DEF QueueOK
<1>2. /\ all \in Seq(Command) /\ Len(all) = Len(queue[2]) + n
      /\ \A i \in 1..Len(queue[2]) : all[i] = queue[2][i]
      /\ \A i \in (Len(queue[2]) + 1)..(Len(queue[2]) + n) : all[i] = "RequestTelemetry"
  <2>1. all \in Seq(Command) /\ Len(all) = Len(queue[2]) + n
    BY <1>1
  <2>2. \A i \in 1..Len(queue[2]) : all[i] = queue[2][i]
    BY <1>1
  <2>3. ASSUME NEW i \in (Len(queue[2]) + 1)..(Len(queue[2]) + n)
        PROVE  all[i] = "RequestTelemetry"
    <3>1. i - Len(queue[2]) \in 1..n /\ all[i] = new[i - Len(queue[2])]
      BY <1>1
    <3> QED BY <3>1
  <2> QED BY <2>1, <2>2, <2>3
<1> HIDE DEF new
<1>3. queue' = [queue EXCEPT ![2] = all]
  BY DEF new
<1> HIDE DEF all
<1>4. queue' \in [1..3 -> Seq(Command)]
  BY <1>2, <1>3 DEF QueueOK
<1>5. ASSUME NEW p \in 1..3, NEW i \in DOMAIN queue'[p]
      PROVE  Urgency(queue'[p][i]) = p
  <2>1. CASE p # 2
    BY <1>3, <1>5, <2>1 DEF QueueOK
  <2>2. CASE p = 2
    <3>1. queue'[p] = all
      BY <1>3, <2>2 DEF QueueOK
    <3>2. Len(queue[2]) \in Nat /\ i \in 1..(Len(queue[2]) + n)
      BY <1>1, <1>2, <1>5, <3>1
    <3>3. CASE i <= Len(queue[2])
      <4>1. i \in DOMAIN queue[2] /\ queue'[p][i] = queue[2][i]
        BY <1>1, <1>2, <3>1, <3>2, <3>3
      <4> QED BY <2>2, <4>1 DEF QueueOK
    <3>4. CASE i > Len(queue[2])
      <4>1. queue'[p][i] = "RequestTelemetry"
        BY <1>2, <3>1, <3>2, <3>4
      <4> QED BY <2>2, <4>1, Priorities
    <3> QED BY <3>2, <3>3, <3>4
  <2> QED BY <2>1, <2>2
<1> QED BY <1>4, <1>5 DEF QueueOK

-----------------------------------------------------------------------------

LEMMA InitInv == Init => IInv
<1> SUFFICES ASSUME Init PROVE IInv
  OBVIOUS
<1> USE GroundAssumption DEF Init, GroundInit, FaultInit, UplinkInit, TelemetryInit
<1>1. QueueOK
  BY DEF QueueOK
<1>2. RestOK
  <2>1. FaultTypeOK
    BY DEF FaultTypeOK, Pending
  <2>2. UplinkTypeOK
    BY DEF UplinkTypeOK
  <2>3. TelemetryTypeOK
    BY DEF TelemetryTypeOK
  <2>4. inbox \in 0..MaxPending
    <3>1. inbox = 0 /\ MaxPending \in Nat
      OBVIOUS
    <3> QED BY <3>1
  <2>5. gstate \in GcsSystemState /\ alive \subseteq Task /\ gcancelled \in BOOLEAN
        /\ session \in Phase
    BY DEF GcsSystemState, Phase
  <2> QED BY <2>1, <2>2, <2>3, <2>4, <2>5 DEF RestOK
<1>3. NobodyLeft /\ RequestsGone /\ ResetsToCome
  BY DEF NobodyLeft, RequestsGone, ResetsToCome, Followed
<1> QED BY <1>1, <1>2, <1>3 DEF IInv

\* The steps that touch the queue.
QueueAction ==
  \/ CommandSafeMode \/ CommandReset \/ TakeCommand \/ QueueHeartbeat
  \/ FrameAfterGap \/ (\E n \in 0..NumSensors : AskForLate(n)) \/ ClearQueue

LEMMA OthersKeepTheQueue == [Next]_vars => QueueAction \/ UNCHANGED queue
<1> SUFFICES ASSUME [Next]_vars, ~QueueAction PROVE UNCHANGED queue
  OBVIOUS
<1> USE DEF QueueAction
<1>1. CASE Faults
  BY <1>1 DEF Faults, FaultMgrNext, ReceiveFault, ApplyInterlock, RaiseAlert
<1>2. CASE Timers
  BY <1>2 DEF Timers, TimerNext, LiftInterlock
<1>3. CASE Uplink
  BY <1>3 DEF Uplink, UplinkTxNext, CheckState, Dispatch
<1>4. CASE Heartbeat
  BY <1>4 DEF Heartbeat, HeartbeatNext, HeartbeatDue
<1>5. CASE Telemetry
  BY <1>5 DEF Telemetry, TelemetryRxNext, FrameUnseen, FirstFrame, FrameInOrder,
              FrameSettled, Quiet, QuietSettled, LinkClosed
<1>6. CASE FaultArrives
  BY <1>6 DEF FaultArrives, FaultFrame
<1>7. CASE CleanUp
  BY <1>7 DEF CleanUp, Joined, Dropped, Ended
<1>8. CASE Accept \/ Cancellation
  BY <1>8 DEF Accept, Cancellation, StopAccepting, TaskCancelled, Ended
<1>9. CASE SendCancel \/ UNCHANGED vars
  BY <1>9 DEF SendCancel, vars, ground
<1> QED BY <1>1, <1>2, <1>3, <1>4, <1>5, <1>6, <1>7, <1>8, <1>9 DEF Next, Work

LEMMA QueueStep == QueueOK /\ [Next]_vars => QueueOK'
<1> SUFFICES ASSUME QueueOK, [Next]_vars PROVE QueueOK'
  OBVIOUS
<1>1. CASE CommandSafeMode \/ CommandReset \/ QueueHeartbeat \/ FrameAfterGap
  <2>1. PICK cmd \in Command : Enqueue(cmd)
    BY <1>1, Priorities DEF CommandSafeMode, CommandReset, QueueHeartbeat,
                            FrameAfterGap
  <2> QED BY <2>1, EnqueueKeeps
<1>2. CASE TakeCommand
  <2>1. PICK p \in 1..3 : /\ queue[p] # <<>>
                          /\ queue' = [queue EXCEPT ![p] = Tail(queue[p])]
    BY <1>2 DEF TakeCommand, NextLane
  <2> QED BY <2>1, TakeKeeps
<1>3. ASSUME NEW n \in 0..NumSensors, AskForLate(n) PROVE QueueOK'
  <2>1. n \in Nat
    BY GroundAssumption
  <2> QED BY <1>3, <2>1, RequestsKeep DEF AskForLate
<1>4. CASE ClearQueue
  BY <1>4 DEF ClearQueue, QueueOK
<1>5. CASE UNCHANGED queue
  BY <1>5 DEF QueueOK
<1> QED BY <1>1, <1>2, <1>3, <1>4, <1>5, OthersKeepTheQueue DEF QueueAction

LEMMA Halves ==
  ASSUME NEW n \in Nat, NEW l \in Nat, NEW m \in Nat, 2 * (n + 1) + l <= 2 * m
  PROVE  n + 1 <= m
<1> QED OBVIOUS

LEMMA RestStep == QueueOK /\ RestOK /\ [Next]_vars => RestOK'
<1> SUFFICES ASSUME QueueOK, RestOK, [Next]_vars PROVE RestOK'
  OBVIOUS
<1> USE GroundAssumption DEF RestOK, FaultTypeOK, UplinkTypeOK, TelemetryTypeOK,
                             Pending, GcsSystemState, Phase
<1>1. CASE Faults /\ UNCHANGED gcancelled
  BY <1>1 DEF Faults, FaultMgrNext, ReceiveFault, ApplyInterlock, RaiseAlert,
              CommandSafeMode, uplinkVars, telemetryVars
<1>2. CASE Timers /\ UNCHANGED gcancelled
  BY <1>2 DEF Timers, TimerNext, LiftInterlock, CommandReset, uplinkVars,
              telemetryVars
<1>3. CASE Uplink /\ UNCHANGED gcancelled
  <2>0. UNCHANGED <<faultVars, telemetryVars, gcancelled>>
    BY <1>3 DEF Uplink
  <2>1. CASE TakeCommand
    <3>1. ucmd' \in Command /\ upc' = "check"
      <4>1. PICK p \in 1..3 : /\ queue[p] # <<>> /\ ucmd' = Head(queue[p])
                              /\ queue' = [queue EXCEPT ![p] = Tail(queue[p])]
        BY <2>1 DEF TakeCommand, NextLane
      <4>2. Head(queue[p]) \in Command
        BY <4>1, TakeKeeps
      <4> QED BY <2>1, <4>1, <4>2 DEF TakeCommand
    <3>2. "none" \notin Command
      BY DEF Command, Emergency
    <3> QED BY <2>0, <2>1, <3>1, <3>2 DEF TakeCommand, faultVars, telemetryVars
  <2>2. CASE CheckState
    BY <2>0, <2>2 DEF CheckState, faultVars, telemetryVars
  <2>3. CASE Dispatch
    BY <2>0, <2>3 DEF Dispatch, faultVars, telemetryVars
  <2> QED BY <1>3, <2>1, <2>2, <2>3 DEF Uplink, UplinkTxNext
<1>4. CASE Heartbeat /\ UNCHANGED gcancelled
  BY <1>4 DEF Heartbeat, HeartbeatNext, HeartbeatDue, QueueHeartbeat, faultVars,
              telemetryVars
<1>5. CASE Telemetry /\ UNCHANGED gcancelled
  <2>0. UNCHANGED <<faultVars, uplinkVars, gcancelled>>
    BY <1>5 DEF Telemetry
  <2>1. CASE FrameUnseen
    BY <2>0, <2>1 DEF FrameUnseen, faultVars, uplinkVars
  <2>2. CASE FirstFrame
    BY <2>0, <2>2 DEF FirstFrame, faultVars, uplinkVars
  <2>3. CASE FrameInOrder
    BY <2>0, <2>3 DEF FrameInOrder, faultVars, uplinkVars
  <2>4. CASE FrameAfterGap
    BY <2>0, <2>4 DEF FrameAfterGap, faultVars, uplinkVars, Saturated
  <2>5. CASE FrameSettled
    BY <2>0, <2>5 DEF FrameSettled, faultVars, uplinkVars
  <2>6. CASE Quiet
    BY <2>0, <2>6 DEF Quiet, faultVars, uplinkVars
  <2>7. CASE QuietSettled
    BY <2>0, <2>7 DEF QuietSettled, faultVars, uplinkVars
  <2>8. ASSUME NEW n \in 0..NumSensors, AskForLate(n) PROVE RestOK'
    BY <2>0, <2>8 DEF AskForLate, faultVars, uplinkVars, Saturated
  <2>9. CASE LinkClosed
    BY <2>0, <2>9 DEF LinkClosed, TelemetryReset, faultVars, uplinkVars
  <2> QED BY <1>5, <2>1, <2>2, <2>3, <2>4, <2>5, <2>6, <2>7, <2>8, <2>9
          DEF Telemetry, TelemetryRxNext
<1>6. CASE FaultArrives /\ UNCHANGED gcancelled
  <2>1. Len(queue[1]) \in Nat
    BY DEF QueueOK
  <2>2. Pending + 1 <= MaxPending
    <3> DEFINE m == IF fpc = "recv" THEN 0 ELSE 1
               n == inbox + m + armed + clearing
    <3>1. n \in Nat /\ MaxPending \in Nat
      OBVIOUS
    <3>2. 2 * (n + 1) + Len(queue[1]) <= 2 * MaxPending
      BY <1>6 DEF FaultArrives
    <3> HIDE DEF n
    <3>3. n + 1 <= MaxPending
      BY <2>1, <3>1, <3>2, Halves
    <3> QED BY <3>3 DEF n
  <2>3. Pending' <= MaxPending /\ inbox' \in 0..MaxPending
    BY <1>6, <2>2 DEF FaultArrives, FaultFrame, faultVars
  <2> QED BY <1>6, <2>3 DEF FaultArrives, FaultFrame, faultVars, uplinkVars,
                            telemetryVars
<1>7. ASSUME NEW t \in Task, Ended(t), session' \in {session, "ending"},
             UNCHANGED gcancelled
      PROVE  RestOK'
  <2>1. TelemetryTypeOK'
    BY <1>7 DEF Ended, TelemetryReset, telemetryVars
  <2>2. UplinkTypeOK'
    BY <1>7 DEF Ended
  <2>3. FaultTypeOK'
    BY <1>7 DEF Ended
  <2> QED BY <1>7, <2>1, <2>2, <2>3 DEF Ended
<1>8. CASE CleanUp /\ UNCHANGED gcancelled
  <2>1. CASE ClearQueue \/ Joined
    BY <1>8, <2>1 DEF ClearQueue, Joined, faultVars, uplinkVars, telemetryVars
  <2>2. ASSUME NEW t \in Task, Dropped(t) PROVE RestOK'
    BY <1>7, <1>8, <2>2 DEF Dropped
  <2> QED BY <1>8, <2>1, <2>2 DEF CleanUp
<1>9. CASE Cancellation /\ UNCHANGED gcancelled
  <2>1. CASE StopAccepting
    BY <1>9, <2>1 DEF StopAccepting, faultVars, uplinkVars, telemetryVars
  <2>2. ASSUME NEW t \in Task, TaskCancelled(t) PROVE RestOK'
    BY <1>7, <1>9, <2>2 DEF TaskCancelled
  <2> QED BY <1>9, <2>1, <2>2 DEF Cancellation
<1>10. CASE Accept /\ UNCHANGED gcancelled
  BY <1>10 DEF Accept, faultVars, uplinkVars, telemetryVars
<1>11. CASE SendCancel
  BY <1>11 DEF SendCancel, faultVars, uplinkVars, telemetryVars
<1>12. CASE UNCHANGED vars
  BY <1>12 DEF vars, ground, faultVars, uplinkVars, telemetryVars
<1> QED BY <1>1, <1>2, <1>3, <1>4, <1>5, <1>6, <1>8, <1>9, <1>10, <1>11, <1>12
        DEF Next, Work

LEMMA NobodyStep == RestOK /\ NobodyLeft /\ [Next]_vars => NobodyLeft'
<1> SUFFICES ASSUME RestOK, NobodyLeft, [Next]_vars PROVE NobodyLeft'
  OBVIOUS
<1> USE DEF NobodyLeft
<1>1. CASE Faults
  BY <1>1 DEF Faults, FaultMgrNext, ReceiveFault, ApplyInterlock, RaiseAlert,
              CommandSafeMode
<1>2. CASE Timers
  BY <1>2 DEF Timers, TimerNext, LiftInterlock, CommandReset
<1>3. CASE Uplink
  BY <1>3 DEF Uplink, UplinkTxNext, TakeCommand, CheckState, Dispatch
<1>4. CASE Heartbeat
  BY <1>4 DEF Heartbeat, HeartbeatNext, HeartbeatDue, QueueHeartbeat
<1>5. CASE Telemetry
  BY <1>5 DEF Telemetry, TelemetryRxNext, FrameUnseen, FirstFrame, FrameInOrder,
              FrameAfterGap, FrameSettled, Quiet, QuietSettled, AskForLate, LinkClosed
<1>6. CASE FaultArrives
  BY <1>6 DEF FaultArrives, FaultFrame
<1>7. CASE CleanUp
  BY <1>7 DEF CleanUp, ClearQueue, Joined, Dropped, Ended
<1>8. CASE Accept \/ Cancellation
  BY <1>8 DEF Accept, Cancellation, StopAccepting, TaskCancelled, Ended, RestOK
<1>9. CASE SendCancel \/ UNCHANGED vars
  BY <1>9 DEF SendCancel, vars, ground
<1> QED BY <1>1, <1>2, <1>3, <1>4, <1>5, <1>6, <1>7, <1>8, <1>9 DEF Next, Work

\* Once the queue was emptied the next connection is the only way back.
AfterClear == {"cleared", "over", "closed"}

LEMMA PhaseStep ==
  [Next]_vars /\ ~ClearQueue /\ session' \in AfterClear => session \in AfterClear
<1> SUFFICES ASSUME [Next]_vars, ~ClearQueue, session' \in AfterClear
             PROVE  session \in AfterClear
  OBVIOUS
<1> USE DEF AfterClear
<1>1. CASE Faults
  BY <1>1 DEF Faults, FaultMgrNext, ReceiveFault, ApplyInterlock, RaiseAlert,
              CommandSafeMode
<1>2. CASE Timers
  BY <1>2 DEF Timers, TimerNext, LiftInterlock, CommandReset
<1>3. CASE Uplink
  BY <1>3 DEF Uplink, UplinkTxNext, TakeCommand, CheckState, Dispatch
<1>4. CASE Heartbeat
  BY <1>4 DEF Heartbeat, HeartbeatNext, HeartbeatDue, QueueHeartbeat
<1>5. CASE Telemetry
  BY <1>5 DEF Telemetry, TelemetryRxNext, FrameUnseen, FirstFrame, FrameInOrder,
              FrameAfterGap, FrameSettled, Quiet, QuietSettled, AskForLate, LinkClosed
<1>6. CASE FaultArrives
  BY <1>6 DEF FaultArrives, FaultFrame
<1>7. CASE CleanUp
  BY <1>7 DEF CleanUp, Joined, Dropped
<1>8. CASE Accept \/ Cancellation
  BY <1>8 DEF Accept, Cancellation, StopAccepting, TaskCancelled
<1>9. CASE SendCancel \/ UNCHANGED vars
  BY <1>9 DEF SendCancel, vars, ground
<1> QED BY <1>1, <1>2, <1>3, <1>4, <1>5, <1>6, <1>7, <1>8, <1>9 DEF Next, Work

\* Only telemetry_rx asks for packets, and its end is what ends the session.
LEMMA RequestsStep ==
  QueueOK /\ NobodyLeft /\ RequestsGone /\ [Next]_vars => RequestsGone'
<1> SUFFICES ASSUME QueueOK, NobodyLeft, RequestsGone, [Next]_vars,
                    session' \in AfterClear
             PROVE  queue'[2] = <<>>
  BY DEF RequestsGone, AfterClear
<1>1. CASE ClearQueue
  BY <1>1 DEF ClearQueue
<1>2. CASE ~ClearQueue
  <2>1. queue[2] = <<>> /\ "telemetry_rx" \notin alive
    BY <1>2, PhaseStep DEF AfterClear, RequestsGone, NobodyLeft
  <2>2. CASE CommandSafeMode \/ CommandReset \/ QueueHeartbeat
    <3>1. PICK cmd \in Command : Enqueue(cmd) /\ Urgency(cmd) \in {1, 3}
      BY <2>2, Priorities DEF CommandSafeMode, CommandReset, QueueHeartbeat
    <3> QED BY <2>1, <3>1 DEF Enqueue, QueueOK
  <2>3. CASE TakeCommand
    <3>1. PICK p \in 1..3 : /\ queue[p] # <<>>
                            /\ queue' = [queue EXCEPT ![p] = Tail(queue[p])]
      BY <2>3 DEF TakeCommand, NextLane
    <3> QED BY <2>1, <3>1 DEF QueueOK
  <2>4. ~FrameAfterGap /\ ~\E n \in 0..NumSensors : AskForLate(n)
    BY <2>1 DEF FrameAfterGap, Receiving, AskForLate
  <2> QED BY <1>2, <2>1, <2>2, <2>3, <2>4, OthersKeepTheQueue DEF QueueAction
<1> QED BY <1>1, <1>2

\* Timers start with a SafeMode and end with a reset.
LEMMA TimersStep ==
  ASSUME RestOK, [Next]_vars, ~CommandSafeMode, ~CommandReset
  PROVE  armed' + clearing' = armed + clearing
<1>0. armed \in Nat /\ clearing \in Nat
  BY DEF RestOK, FaultTypeOK
<1>1. CASE Faults
  BY <1>1 DEF Faults, FaultMgrNext, ReceiveFault, ApplyInterlock, RaiseAlert
<1>2. CASE Timers
  BY <1>0, <1>2 DEF Timers, TimerNext, LiftInterlock
<1>3. CASE Uplink
  BY <1>3 DEF Uplink, faultVars
<1>4. CASE Heartbeat
  BY <1>4 DEF Heartbeat, faultVars
<1>5. CASE Telemetry
  BY <1>5 DEF Telemetry, faultVars
<1>6. CASE FaultArrives
  BY <1>6 DEF FaultArrives, faultVars
<1>7. CASE CleanUp
  BY <1>7 DEF CleanUp, ClearQueue, Joined, Dropped, Ended, faultVars
<1>8. CASE Accept \/ Cancellation
  BY <1>8 DEF Accept, Cancellation, StopAccepting, TaskCancelled, Ended, faultVars
<1>9. CASE SendCancel \/ UNCHANGED vars
  BY <1>9 DEF SendCancel, vars, faultVars
<1> QED BY <1>1, <1>2, <1>3, <1>4, <1>5, <1>6, <1>7, <1>8, <1>9 DEF Next, Work

LEMMA ResetsStep ==
  QueueOK /\ RestOK /\ ResetsToCome /\ [Next]_vars => ResetsToCome'
<1> SUFFICES ASSUME QueueOK, RestOK, ResetsToCome, [Next]_vars PROVE ResetsToCome'
  OBVIOUS
<1>0. armed \in Nat /\ clearing \in Nat /\ queue[1] \in Seq(Command)
  BY DEF QueueOK, RestOK, FaultTypeOK
<1>1. PICK before \in BOOLEAN, after \in BOOLEAN :
        (before <=> armed + clearing > 0) /\ (after <=> armed' + clearing' > 0)
  OBVIOUS
<1>2. Followed(queue[1], before)
  BY <1>1 DEF ResetsToCome, Followed
<1> SUFFICES Followed(queue'[1], after)
  BY <1>1 DEF ResetsToCome, Followed
<1>3. CASE CommandSafeMode
  <2>1. armed' = armed + 1 /\ clearing' = clearing
    BY <1>3 DEF CommandSafeMode
  <2>2. after
    BY <1>0, <1>1, <2>1
  <2> QED BY <2>2 DEF Followed
<1>4. CASE CommandReset
  <2>1. queue'[1] = Append(queue[1], "ResetSensor")
    BY <1>4, Priorities DEF CommandReset, Enqueue, QueueOK
  <2> QED BY <1>0, <1>2, <2>1, FollowedAppend, Priorities
<1>5. CASE ~CommandSafeMode /\ ~CommandReset
  <2>1. before = after
    BY <1>1, <1>5, TimersStep
  <2>2. CASE queue'[1] = queue[1]
    BY <1>2, <2>1, <2>2
  <2>3. CASE ClearQueue
    BY <2>3 DEF ClearQueue, Followed
  <2>4. CASE TakeCommand
    <3>1. PICK p \in 1..3 : /\ queue[p] # <<>>
                            /\ queue' = [queue EXCEPT ![p] = Tail(queue[p])]
      BY <2>4 DEF TakeCommand, NextLane
    <3>2. CASE p = 1
      <4>1. queue'[1] = Tail(queue[1]) /\ queue[1] # <<>>
        BY <3>1, <3>2 DEF QueueOK
      <4> QED BY <1>0, <1>2, <2>1, <4>1, ResetsInTail
    <3>3. CASE p # 1
      BY <2>2, <3>1, <3>3 DEF QueueOK
    <3> QED BY <3>2, <3>3
  <2>5. CASE QueueHeartbeat \/ FrameAfterGap
    <3>1. PICK cmd \in Command : Enqueue(cmd) /\ Urgency(cmd) \in {2, 3}
      BY <2>5, Priorities DEF QueueHeartbeat, FrameAfterGap
    <3> QED BY <2>2, <3>1 DEF Enqueue, QueueOK
  <2>6. ASSUME NEW n \in 0..NumSensors, AskForLate(n) PROVE queue'[1] = queue[1]
    BY <2>6 DEF AskForLate, QueueOK
  <2> QED BY <1>5, <2>2, <2>3, <2>4, <2>5, <2>6, OthersKeepTheQueue DEF QueueAction
<1> QED BY <1>3, <1>4, <1>5

LEMMA InvariantStep == IInv /\ [Next]_vars => IInv'
<1> QED BY QueueStep, RestStep, NobodyStep, RequestsStep, ResetsStep DEF IInv

LEMMA Invariant == Spec => []IInv
<1> QED BY InitInv, InvariantStep, PTL DEF Spec

\* Every lane of the queue holds commands of its priority, and the state of
\* every task is what it declares, for any number of sensors and of sessions.
THEOREM TypeCorrect == Spec => []TypeOK
<1>1. IInv => TypeOK
  BY TypesAreBoth DEF IInv
<1> QED BY Invariant, <1>1, PTL

\* Whatever is pushed between the moment the queue is emptied and the moment
\* the last task is gone, the next session finds no request of the old one, and
\* no SafeMode whose reset was lost with the queue.
THEOREM LeftoversSound == Spec => []LeftoversAreSound
<1>1. IInv => LeftoversAreSound
  BY DEF IInv, RequestsGone, ResetsToCome, Followed, LeftoversAreSound
<1> QED BY Invariant, <1>1, PTL

-----------------------------------------------------------------------------
(***************************************************************************)
(* A session that lasts.                                                   *)
(***************************************************************************)

Lasting == session = "up" /\ alive = Task /\ ~gcancelled

LastingInv == RestOK /\ QueueOK /\ Lasting /\ InterlockIsTimed

LEMMA LastingStep ==
  ASSUME LinkCloses = FALSE, MayCancel = FALSE, Lasting, [Next]_vars
  PROVE  Lasting' /\ ~CleanUp /\ ~Accept /\ ~Cancellation /\ ~SendCancel /\ ~LinkClosed
<1> USE DEF Lasting
<1>0. /\ ~CleanUp /\ ~Accept /\ ~Cancellation /\ ~SendCancel /\ ~LinkClosed
  BY DEF CleanUp, ClearQueue, Joined, Dropped, Accept, Cancellation, StopAccepting,
         TaskCancelled, SendCancel, LinkClosed
<1> SUFFICES Lasting'
  BY <1>0
<1>1. CASE Faults /\ UNCHANGED gcancelled
  BY <1>1 DEF Faults, FaultMgrNext, ReceiveFault, ApplyInterlock, RaiseAlert,
              CommandSafeMode
<1>2. CASE Timers /\ UNCHANGED gcancelled
  BY <1>2 DEF Timers, TimerNext, LiftInterlock, CommandReset
<1>3. CASE Uplink /\ UNCHANGED gcancelled
  BY <1>3 DEF Uplink, UplinkTxNext, TakeCommand, CheckState, Dispatch
<1>4. CASE Heartbeat /\ UNCHANGED gcancelled
  BY <1>4 DEF Heartbeat, HeartbeatNext, HeartbeatDue, QueueHeartbeat
<1>5. CASE Telemetry /\ UNCHANGED gcancelled
  BY <1>0, <1>5 DEF Telemetry, TelemetryRxNext, FrameUnseen, FirstFrame,
                    FrameInOrder, FrameAfterGap, FrameSettled, Quiet, QuietSettled,
                    AskForLate
<1>6. CASE FaultArrives /\ UNCHANGED gcancelled
  BY <1>6 DEF FaultArrives, FaultFrame
<1>7. CASE UNCHANGED vars
  BY <1>7 DEF vars, ground
<1> QED BY <1>0, <1>1, <1>2, <1>3, <1>4, <1>5, <1>6, <1>7 DEF Next, Work

LEMMA TimedStep ==
  ASSUME LinkCloses = FALSE, MayCancel = FALSE, LastingInv, [Next]_vars
  PROVE  InterlockIsTimed'
<1>0. /\ Lasting /\ Lasting' /\ ~CleanUp /\ ~Accept /\ ~Cancellation /\ ~SendCancel
      /\ ~LinkClosed
  BY LastingStep DEF LastingInv
<1>9. alive' = Task /\ "fault_mgr" \in Task /\ armed \in Nat /\ alive = Task
  BY <1>0 DEF Lasting, Task, LastingInv, RestOK, FaultTypeOK
<1> USE DEF LastingInv, InterlockIsTimed
<1>1. CASE Faults
  <2>1. CASE ReceiveFault
    BY <1>9, <2>1 DEF ReceiveFault
  <2>2. CASE ApplyInterlock
    BY <1>9, <2>2 DEF ApplyInterlock
  <2>3. CASE RaiseAlert
    BY <1>9, <2>3 DEF RaiseAlert
  <2>4. CASE CommandSafeMode
    BY <1>9, <2>4 DEF CommandSafeMode
  <2> QED BY <1>1, <2>1, <2>2, <2>3, <2>4 DEF Faults, FaultMgrNext
<1>2. CASE Timers
  <2>1. CASE LiftInterlock
    BY <2>1 DEF LiftInterlock
  <2>2. CASE CommandReset
    BY <1>9, <2>2 DEF CommandReset
  <2> QED BY <1>2, <2>1, <2>2 DEF Timers, TimerNext
<1>3. CASE Uplink
  BY <1>3, <1>9 DEF Uplink, UplinkTxNext, TakeCommand, CheckState, Dispatch, faultVars
<1>4. CASE Heartbeat
  BY <1>4, <1>9 DEF Heartbeat, HeartbeatNext, HeartbeatDue, QueueHeartbeat, faultVars
<1>5. CASE Telemetry
  <2>1. UNCHANGED <<armed, fpc>> /\ gstate' \in {gstate, "Nominal", "LossOfContact"}
    BY <1>0, <1>5 DEF Telemetry, TelemetryRxNext, FrameUnseen, FirstFrame,
                      FrameInOrder, FrameAfterGap, FrameSettled, Quiet,
                      QuietSettled, AskForLate, faultVars
  <2> QED BY <1>9, <2>1
<1>6. CASE FaultArrives
  BY <1>6, <1>9 DEF FaultArrives, FaultFrame, faultVars
<1>7. CASE UNCHANGED vars
  BY <1>7, <1>9 DEF vars, ground, faultVars
<1> QED BY <1>0, <1>1, <1>2, <1>3, <1>4, <1>5, <1>6, <1>7 DEF Next, Work

\* In a session that lasts no interlock and no alert is for ever: however many
\* faults overlap and whatever the link does, a timer is there to end it.
THEOREM InterlocksEnd ==
  ASSUME LinkCloses = FALSE, MayCancel = FALSE
  PROVE  Spec => []InterlockIsTimed
<1>1. Init => LastingInv
  <2>1. Init => Lasting /\ InterlockIsTimed
    BY DEF Init, GroundInit, Lasting, InterlockIsTimed
  <2> QED BY <2>1, InitInv DEF LastingInv, IInv
<1>2. LastingInv /\ [Next]_vars => LastingInv'
  BY QueueStep, RestStep, LastingStep, TimedStep DEF LastingInv
<1>3. LastingInv => InterlockIsTimed
  BY DEF LastingInv
<1> QED BY <1>1, <1>2, <1>3, PTL DEF Spec

-----------------------------------------------------------------------------
(***************************************************************************)
(* What slips past an interlock.                                           *)
(***************************************************************************)

\* Once a command has slipped, the uplink holds none it would send but an
\* emergency.
SlipInv == /\ slipped \in 0..1
           /\ slipped = 1 => /\ gstate \in Blocking
                             /\ upc = "send" => Urgency(ucmd) = 1

\* The uplink alone decides to send, and it looks at the state first.
LEMMA SendIsDecided ==
  ASSUME RestOK, [Next]_vars, upc' = "send"
  PROVE  \/ upc = "send" /\ ucmd' = ucmd
         \/ ucmd' = ucmd /\ ~(gstate \in Blocking /\ Urgency(ucmd) > 1)
<1>1. CASE Faults
  BY <1>1 DEF Faults, uplinkVars
<1>2. CASE Timers
  BY <1>2 DEF Timers, uplinkVars
<1>3. CASE Uplink
  BY <1>3 DEF Uplink, UplinkTxNext, TakeCommand, CheckState, Dispatch
<1>4. CASE Heartbeat
  BY <1>4 DEF Heartbeat, HeartbeatNext, HeartbeatDue, QueueHeartbeat
<1>5. CASE Telemetry
  BY <1>5 DEF Telemetry, uplinkVars
<1>6. CASE FaultArrives
  BY <1>6 DEF FaultArrives, uplinkVars
<1>7. CASE CleanUp
  BY <1>7 DEF CleanUp, ClearQueue, Joined, Dropped, Ended, uplinkVars
<1>8. CASE Accept \/ Cancellation
  BY <1>8 DEF Accept, Cancellation, StopAccepting, TaskCancelled, Ended, uplinkVars
<1>9. CASE SendCancel \/ UNCHANGED vars
  BY <1>9 DEF SendCancel, vars, uplinkVars
<1> QED BY <1>1, <1>2, <1>3, <1>4, <1>5, <1>6, <1>7, <1>8, <1>9 DEF Next, Work

LEMMA SlipStep ==
  ASSUME RestOK, SlipInv, [Next /\ Remember]_dispatchVars
  PROVE  SlipInv'
<1>0. [Next]_vars
  BY DEF dispatchVars
<1>1. CASE UNCHANGED dispatchVars
  BY <1>1 DEF dispatchVars, vars, ground, uplinkVars, SlipInv
<1>2. CASE Remember
  <2>1. Urgency(ucmd) \in 1..3 /\ Urgency(ucmd) \in Int
    BY DEF Urgency
  <2>2. CASE slipped' = 0
    BY <2>2 DEF SlipInv
  <2>3. CASE slipped' = slipped /\ slipped = 1 /\ gstate' \in Blocking
    <3>1. upc' = "send" => Urgency(ucmd') = 1
      <4> SUFFICES ASSUME upc' = "send" PROVE Urgency(ucmd') = 1
        OBVIOUS
      <4>1. gstate \in Blocking /\ (upc = "send" => Urgency(ucmd) = 1)
        BY <2>3 DEF SlipInv
      <4> QED BY <1>0, <2>1, <4>1, SendIsDecided
    <3> QED BY <2>3, <3>1 DEF SlipInv
  <2>4. CASE /\ slipped' = slipped + 1 /\ gstate' \in Blocking
             /\ upc = "send" /\ upc' = "tick" /\ Urgency(ucmd) > 1
    <3>1. slipped = 0
      BY <2>4 DEF SlipInv
    <3> QED BY <2>4, <3>1 DEF SlipInv
  <2> QED BY <1>2, <2>2, <2>3, <2>4 DEF Remember, SlipInv
<1> QED BY <1>1, <1>2

\* However long an interlock or a loss of contact lasts, and however often one
\* turns into the other, at most one command is sent that should have waited.
THEOREM OneSlips == DispatchSpec => []AtMostOneSlips
<1>1. DispatchInit => IInv /\ SlipInv
  BY InitInv DEF DispatchInit, SlipInv
<1>2. IInv /\ SlipInv /\ [Next /\ Remember]_dispatchVars => (IInv /\ SlipInv)'
  <2> SUFFICES ASSUME IInv, SlipInv, [Next /\ Remember]_dispatchVars
               PROVE  (IInv /\ SlipInv)'
    OBVIOUS
  <2>1. [Next]_vars
    BY DEF dispatchVars
  <2>2. IInv'
    BY <2>1, InvariantStep
  <2>3. SlipInv'
    BY SlipStep DEF IInv
  <2> QED BY <2>2, <2>3
<1>3. SlipInv => AtMostOneSlips
  BY DEF SlipInv, AtMostOneSlips
<1> QED BY <1>1, <1>2, <1>3, PTL DEF DispatchSpec

-----------------------------------------------------------------------------
(***************************************************************************)
(* The order of SafeMode and ResetSensor.  Read the lane of emergencies    *)
(* from its head and keep the balance of SafeMode less ResetSensor, as if  *)
(* all of it had been sent: it starts with what was sent and what the      *)
(* uplink holds, ends with the number of timers, and is nowhere negative.  *)
(* No prefix of the lane can then bring the resets sent ahead.             *)
(***************************************************************************)

Weight(cmd) == CASE cmd = "SafeMode" -> 1 [] cmd = "ResetSensor" -> -1 [] OTHER -> 0

\* The balance h[i] after the first i commands of lane q goes from a to b.
Course(h, q, a, b) == /\ h \in [0..Len(q) -> Nat]
                      /\ h[0] = a /\ h[Len(q)] = b
                      /\ \A i \in 1..Len(q) : h[i] = h[i - 1] + Weight(q[i])

Balanced(q, a, b) == \E h : Course(h, q, a, b)

LeadInv == /\ lead \in Nat
           /\ Balanced(queue[1], lead + Weight(ucmd), armed + clearing)

LEMMA Weights == /\ \A cmd : Weight(cmd) \in Int
                 /\ \A cmd \in Command : Urgency(cmd) > 1 => Weight(cmd) = 0
                 /\ Weight("SafeMode") = 1 /\ Weight("ResetSensor") = -1
                 /\ Weight("none") = 0
<1> QED BY DEF Weight, Command, Emergency, Urgency

LEMMA BalancedAppend ==
  ASSUME NEW q \in Seq(Command), NEW a, NEW b, Balanced(q, a, b), NEW cmd \in Command,
         NEW c \in Nat, c = b + Weight(cmd)
  PROVE  Balanced(Append(q, cmd), a, c)
<1>1. PICK h : Course(h, q, a, b)
  BY DEF Balanced
<1>2. PICK n \in Nat : n = Len(q)
  OBVIOUS
<1> DEFINE new == Append(q, cmd)
           g == [i \in 0..(n + 1) |-> IF i = n + 1 THEN c ELSE h[i]]
<1>3. /\ Len(new) = n + 1 /\ new[n + 1] = cmd
      /\ \A i \in 1..n : new[i] = q[i]
  BY <1>2
<1>4. /\ h \in [0..n -> Nat] /\ h[0] = a /\ h[n] = b
      /\ \A i \in 1..n : h[i] = h[i - 1] + Weight(q[i])
  BY <1>1, <1>2 DEF Course
<1> HIDE DEF new
<1>5. g \in [0..(n + 1) -> Nat] /\ g[0] = a /\ g[n + 1] = c
  BY <1>4
<1>6. ASSUME NEW i \in 1..(n + 1) PROVE g[i] = g[i - 1] + Weight(new[i])
  <2>1. CASE i = n + 1
    <3>1. i - 1 = n /\ g[n] = b /\ g[i] = c
      BY <1>4, <2>1
    <3> QED BY <1>3, <2>1, <3>1
  <2>2. CASE i \in 1..n
    <3>1. g[i] = h[i] /\ g[i - 1] = h[i - 1]
      BY <2>2
    <3> QED BY <1>3, <1>4, <2>2, <3>1
  <2> QED BY <2>1, <2>2
<1> HIDE DEF g
<1>7. Course(g, new, a, c)
  BY <1>3, <1>5, <1>6 DEF Course
<1> QED BY <1>7 DEF Balanced, new

LEMMA BalancedTail ==
  ASSUME NEW q \in Seq(Command), q # <<>>, NEW a, NEW b, Balanced(q, a, b)
  PROVE  Balanced(Tail(q), a + Weight(Head(q)), b)
<1>1. PICK h : Course(h, q, a, b)
  BY DEF Balanced
<1>2. PICK n \in Nat : Len(q) = n + 1
  <2>1. Len(q) \in Nat \ {0}
    OBVIOUS
  <2> QED BY <2>1
<1> DEFINE rest == Tail(q)
           g == [i \in 0..n |-> h[i + 1]]
<1>3. /\ Len(rest) = n /\ Head(q) = q[1]
      /\ \A i \in 1..n : rest[i] = q[i + 1]
  BY <1>2
<1>4. /\ h \in [0..(n + 1) -> Nat] /\ h[0] = a /\ h[n + 1] = b
      /\ \A i \in 1..(n + 1) : h[i] = h[i - 1] + Weight(q[i])
  BY <1>1, <1>2 DEF Course
<1> HIDE DEF rest
<1>5. g \in [0..n -> Nat] /\ g[0] = a + Weight(Head(q)) /\ g[n] = b
  <2>1. h[1] = h[0] + Weight(q[1])
    BY <1>4
  <2> QED BY <1>3, <1>4, <2>1
<1>6. ASSUME NEW i \in 1..n PROVE g[i] = g[i - 1] + Weight(rest[i])
  <2>1. g[i] = h[i + 1] /\ g[i - 1] = h[i]
    OBVIOUS
  <2>2. h[i + 1] = h[i] + Weight(q[i + 1])
    BY <1>4
  <2> QED BY <1>3, <2>1, <2>2
<1> HIDE DEF g
<1>7. Course(g, rest, a + Weight(Head(q)), b)
  BY <1>3, <1>5, <1>6 DEF Course
<1> QED BY <1>7 DEF Balanced, rest

LEMMA BalancedStart ==
  ASSUME NEW q \in Seq(Command), NEW a, NEW b, Balanced(q, a, b)
  PROVE  a \in Nat
<1> QED BY DEF Balanced, Course

LEMMA SentIsDispatched ==
  ASSUME RestOK, Lasting, LinkCloses = FALSE, MayCancel = FALSE, [Next]_vars,
         upc = "send", upc' = "tick"
  PROVE  Dispatch /\ UNCHANGED faultVars
<1>0. ~CleanUp /\ ~Accept /\ ~Cancellation /\ ~SendCancel
  BY LastingStep
<1>1. CASE Faults
  BY <1>1 DEF Faults, uplinkVars
<1>2. CASE Timers
  BY <1>2 DEF Timers, uplinkVars
<1>3. CASE Uplink
  BY <1>3 DEF Uplink, UplinkTxNext, TakeCommand, CheckState
<1>4. CASE Heartbeat
  BY <1>4 DEF Heartbeat, HeartbeatNext, HeartbeatDue, QueueHeartbeat
<1>5. CASE Telemetry
  BY <1>5 DEF Telemetry, uplinkVars
<1>6. CASE FaultArrives
  BY <1>6 DEF FaultArrives, uplinkVars
<1>7. CASE UNCHANGED vars
  BY <1>7 DEF vars, uplinkVars
<1> QED BY <1>0, <1>1, <1>2, <1>3, <1>4, <1>5, <1>6, <1>7 DEF Next, Work

LEMMA LeadIsWeighed ==
  ASSUME RestOK, Lasting, LinkCloses = FALSE, MayCancel = FALSE, [Next]_vars, Remember,
         lead \in Nat
  PROVE  lead' = IF Dispatch THEN lead + Weight(ucmd) ELSE lead
<1>0. Lasting'
  BY LastingStep
<1>1. session' = session /\ alive' = alive
  BY <1>0 DEF Lasting
<1>2. (upc = "send" /\ upc' = "tick") <=> Dispatch
  <2>1. Dispatch => upc = "send" /\ upc' = "tick"
    BY DEF Dispatch
  <2> QED BY <2>1, SentIsDispatched
<1>3. lead' = IF Dispatch /\ ucmd = "SafeMode" THEN lead + 1
              ELSE IF Dispatch /\ ucmd = "ResetSensor" THEN lead - 1 ELSE lead
  BY <1>1, <1>2 DEF Remember
<1> QED BY <1>3 DEF Weight

LEMMA LeadStep ==
  ASSUME QueueOK, RestOK, Lasting, LinkCloses = FALSE, MayCancel = FALSE, LeadInv,
         [Next /\ Remember]_dispatchVars
  PROVE  LeadInv'
<1>1. CASE UNCHANGED dispatchVars
  BY <1>1 DEF dispatchVars, vars, ground, uplinkVars, faultVars, LeadInv
<1> SUFFICES ASSUME Next, Remember PROVE LeadInv'
  BY <1>1
<1>0. /\ [Next]_vars
      /\ ~CleanUp /\ ~Accept /\ ~Cancellation /\ ~SendCancel /\ ~LinkClosed
  BY LastingStep
<1>2. lead \in Nat /\ lead' = IF Dispatch THEN lead + Weight(ucmd) ELSE lead
  BY <1>0, LeadIsWeighed DEF LeadInv
<1>3. PICK q, a, b : /\ q = queue[1] /\ q \in Seq(Command)
                     /\ a = lead + Weight(ucmd) /\ b = armed + clearing
                     /\ Balanced(q, a, b)
  BY DEF LeadInv, QueueOK
<1>4. armed \in Nat /\ clearing \in Nat /\ b \in Nat /\ a \in Nat
  <2>1. armed \in Nat /\ clearing \in Nat
    BY DEF RestOK, FaultTypeOK
  <2> QED BY <1>3, <2>1, BalancedStart
<1>5. CASE UNCHANGED <<queue, ucmd, armed, clearing>> /\ ~Dispatch
  BY <1>2, <1>5 DEF LeadInv
<1>6. CASE Faults
  <2>0. ~Dispatch /\ ucmd' = ucmd
    BY <1>6 DEF Faults, uplinkVars, Dispatch, RestOK, UplinkTypeOK
  <2>1. CASE CommandSafeMode
    <3>1. queue' = [queue EXCEPT ![1] = Append(queue[1], "SafeMode")]
          /\ armed' = armed + 1 /\ clearing' = clearing
      BY <2>1, Priorities DEF CommandSafeMode, Enqueue
    <3>2. queue'[1] = Append(q, "SafeMode")
      BY <1>3, <3>1 DEF QueueOK
    <3>3. PICK c \in Nat : c = b + 1
      BY <1>4
    <3>4. Balanced(Append(q, "SafeMode"), a, c)
      BY <1>3, <3>3, BalancedAppend, Weights, Priorities
    <3>5. armed' + clearing' = c
      BY <1>3, <1>4, <3>1, <3>3
    <3> QED BY <1>2, <1>3, <2>0, <3>2, <3>4, <3>5 DEF LeadInv
  <2>2. CASE ReceiveFault \/ ApplyInterlock \/ RaiseAlert
    BY <1>5, <2>0, <2>2 DEF ReceiveFault, ApplyInterlock, RaiseAlert
  <2> QED BY <1>6, <2>1, <2>2 DEF Faults, FaultMgrNext
<1>7. CASE Timers
  <2>0. ~Dispatch /\ ucmd' = ucmd
    BY <1>7 DEF Timers, uplinkVars, Dispatch, RestOK, UplinkTypeOK
  <2>1. CASE CommandReset
    <3>1. queue' = [queue EXCEPT ![1] = Append(queue[1], "ResetSensor")]
          /\ armed' = armed /\ clearing' = clearing - 1 /\ clearing > 0
      BY <2>1, Priorities DEF CommandReset, Enqueue
    <3>2. queue'[1] = Append(q, "ResetSensor")
      BY <1>3, <3>1 DEF QueueOK
    <3>3. PICK c \in Nat : c = b + (-1)
      BY <1>3, <1>4, <3>1
    <3>4. Balanced(Append(q, "ResetSensor"), a, c)
      BY <1>3, <3>3, BalancedAppend, Weights, Priorities
    <3>5. armed' + clearing' = c
      BY <1>3, <1>4, <3>1, <3>3
    <3> QED BY <1>2, <1>3, <2>0, <3>2, <3>4, <3>5 DEF LeadInv
  <2>2. CASE LiftInterlock
    <3>1. queue' = queue /\ armed' + clearing' = armed + clearing
      BY <1>4, <2>2 DEF LiftInterlock
    <3> QED BY <1>2, <2>0, <3>1 DEF LeadInv
  <2> QED BY <1>7, <2>1, <2>2 DEF Timers, TimerNext
<1>8. CASE Uplink
  <2>0. armed' + clearing' = b
    BY <1>3, <1>8 DEF Uplink, faultVars
  <2>1. CASE TakeCommand
    <3>0. ~Dispatch /\ ucmd = "none" /\ lead' = lead /\ lead = a
      <4>1. ~Dispatch /\ ucmd = "none"
        BY <2>1 DEF TakeCommand, Dispatch, RestOK, UplinkTypeOK
      <4> QED BY <1>2, <1>3, <4>1, Weights
    <3>1. PICK p \in 1..3 : /\ queue[p] # <<>> /\ ucmd' = Head(queue[p])
                            /\ queue' = [queue EXCEPT ![p] = Tail(queue[p])]
      BY <2>1 DEF TakeCommand, NextLane
    <3>2. CASE p = 1
      <4>1. queue'[1] = Tail(q) /\ ucmd' = Head(q) /\ q # <<>>
        BY <1>3, <3>1, <3>2 DEF QueueOK
      <4>2. Balanced(Tail(q), a + Weight(Head(q)), b)
        BY <1>3, <4>1, BalancedTail
      <4> QED BY <1>2, <2>0, <3>0, <4>1, <4>2 DEF LeadInv
    <3>3. CASE p # 1
      <4>1. queue'[1] = q /\ ucmd' \in Command /\ Urgency(ucmd') > 1
        <5>1. queue'[1] = q
          BY <1>3, <3>1, <3>3 DEF QueueOK
        <5>2. Head(queue[p]) \in Command /\ Head(queue[p]) = queue[p][1]
              /\ 1 \in DOMAIN queue[p]
          BY <3>1 DEF QueueOK
        <5>3. Urgency(ucmd') = p
          BY <3>1, <5>2 DEF QueueOK
        <5> QED BY <3>1, <3>3, <5>1, <5>2, <5>3
      <4>2. lead' + Weight(ucmd') = a
        BY <1>4, <3>0, <4>1, Weights
      <4> QED BY <1>2, <1>3, <2>0, <3>0, <4>1, <4>2 DEF LeadInv
    <3> QED BY <3>2, <3>3
  <2>2. CASE CheckState
    <3>0. ~Dispatch /\ queue' = queue
      BY <2>2 DEF CheckState, Dispatch
    <3>1. Weight(ucmd') = Weight(ucmd)
      BY <2>2, Weights DEF CheckState, RestOK, UplinkTypeOK
    <3> QED BY <1>2, <1>3, <2>0, <3>0, <3>1 DEF LeadInv
  <2>3. CASE Dispatch
    <3>1. lead' = a /\ queue' = queue /\ ucmd' = "none"
      BY <1>2, <1>3, <2>3 DEF Dispatch
    <3>2. lead' + Weight(ucmd') = a
      BY <1>4, <3>1, Weights
    <3> QED BY <1>3, <1>4, <2>0, <3>1, <3>2 DEF LeadInv
  <2> QED BY <1>8, <2>1, <2>2, <2>3 DEF Uplink, UplinkTxNext
<1>9. CASE Heartbeat \/ Telemetry
  <2>1. UNCHANGED <<ucmd, armed, clearing>> /\ ~Dispatch
    <3>1. CASE Heartbeat
      BY <3>1 DEF Heartbeat, HeartbeatNext, HeartbeatDue, QueueHeartbeat, faultVars,
                  Dispatch, RestOK, UplinkTypeOK
    <3>2. CASE Telemetry
      BY <3>2 DEF Telemetry, faultVars, uplinkVars, Dispatch, RestOK, UplinkTypeOK
    <3> QED BY <1>9, <3>1, <3>2
  <2>2. queue'[1] = queue[1]
    <3>1. CASE UNCHANGED queue
      BY <3>1
    <3>2. CASE QueueHeartbeat
      BY <3>2, Priorities DEF QueueHeartbeat, Enqueue, QueueOK
    <3>3. CASE FrameAfterGap
      BY <3>3, Priorities DEF FrameAfterGap, Enqueue, QueueOK
    <3>4. ASSUME NEW n \in 0..NumSensors, AskForLate(n) PROVE queue'[1] = queue[1]
      BY <3>4 DEF AskForLate, QueueOK
    <3>5. ~CommandSafeMode /\ ~CommandReset /\ ~TakeCommand
      <4>1. ~CommandSafeMode /\ ~CommandReset
        BY <2>1, <1>4 DEF CommandSafeMode, CommandReset
      <4>2. ~TakeCommand
        <5> SUFFICES ASSUME TakeCommand PROVE FALSE
          OBVIOUS
        <5>1. PICK p \in 1..3 : /\ queue[p] # <<>> /\ ucmd' = Head(queue[p])
                                /\ queue' = [queue EXCEPT ![p] = Tail(queue[p])]
          BY DEF TakeCommand, NextLane
        <5>2. ucmd' \in Command
          BY <5>1, TakeKeeps
        <5>3. ucmd = "none" /\ "none" \notin Command
          BY DEF TakeCommand, RestOK, UplinkTypeOK, Command, Emergency
        <5> QED BY <2>1, <5>2, <5>3
      <4> QED BY <4>1, <4>2
    <3> QED BY <1>0, <3>1, <3>2, <3>3, <3>4, <3>5, OthersKeepTheQueue
            DEF QueueAction, CleanUp
  <2> QED BY <1>2, <2>1, <2>2 DEF LeadInv
<1>10. CASE FaultArrives
  BY <1>5, <1>10 DEF FaultArrives, FaultFrame, faultVars, uplinkVars, Dispatch,
                     RestOK, UplinkTypeOK
<1> QED BY <1>0, <1>6, <1>7, <1>8, <1>9, <1>10 DEF Next, Work

\* In a session that lasts the satellite is never told to reset more often than
\* to go to safe mode: each reset the uplink sends was preceded by its SafeMode,
\* however many faults overlap and however much is queued.
THEOREM ResetsFollow ==
  ASSUME LinkCloses = FALSE, MayCancel = FALSE
  PROVE  DispatchSpec => []ResetFollowsSafeMode
<1> DEFINE Inv == LastingInv /\ LeadInv
<1>1. DispatchInit => Inv
  <2> SUFFICES ASSUME DispatchInit PROVE Inv
    OBVIOUS
  <2>1. LastingInv
    <3>1. Lasting /\ InterlockIsTimed
      BY DEF DispatchInit, Init, GroundInit, Lasting, InterlockIsTimed
    <3> QED BY <3>1, InitInv DEF DispatchInit, LastingInv, IInv
  <2>2. /\ queue[1] = <<>> /\ ucmd = "none" /\ armed = 0 /\ clearing = 0 /\ lead = 0
    BY DEF DispatchInit, Init, GroundInit, FaultInit, UplinkInit
  <2>3. Balanced(<<>>, 0, 0)
    <3>1. Course([i \in 0..0 |-> 0], <<>>, 0, 0)
      BY DEF Course
    <3> QED BY <3>1 DEF Balanced
  <2>4. lead + Weight(ucmd) = 0 /\ armed + clearing = 0
    BY <2>2, Weights
  <2> QED BY <2>1, <2>2, <2>3, <2>4 DEF LeadInv
<1>2. Inv /\ [Next /\ Remember]_dispatchVars => Inv'
  <2> SUFFICES ASSUME Inv, [Next /\ Remember]_dispatchVars PROVE Inv'
    OBVIOUS
  <2>1. [Next]_vars
    BY DEF dispatchVars
  <2>2. LastingInv'
    BY <2>1, QueueStep, RestStep, LastingStep, TimedStep DEF LastingInv
  <2>3. LeadInv'
    BY LeadStep DEF LastingInv
  <2> QED BY <2>2, <2>3
<1>3. Inv => ResetFollowsSafeMode
  BY DEF LeadInv, ResetFollowsSafeMode
<1> QED BY <1>1, <1>2, <1>3, PTL DEF DispatchSpec
=============================================================================
