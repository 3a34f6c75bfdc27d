--------------------------- MODULE SatelliteProofs ---------------------------
(***************************************************************************)
(* Proofs about Satellite for every capacity, batch, limit and choice of   *)
(* commands.  None of the properties is inductive alone: whether a packet  *)
(* may still be sent depends on what the window saw, and whether a         *)
(* recovery is earned on what happened since the injection.                *)
(***************************************************************************)
EXTENDS Satellite, TLAPS

USE ConstantsAssumption

\* While the mode is not an abort nothing was sent in one; a window that is
\* past its look at the mode has sent no more than its rounds.
BatchInv ==
  /\ state # "MissionAbort" => sentInAbort = 0
  /\ dpc = "mode" => sentInAbort = 0 /\ iter = 0
  /\ dpc \in {"pick", "send"} => sentInAbort <= iter
  /\ dpc \in {"tick", "forward"} => iter = 0
  /\ sentInAbort <= Batch

\* Between an injection and its end the mode is not nominal unless ResetSensor
\* was executed, and a cancel signal not yet seen was sent.
RecoveryInv ==
  /\ ipc \in {"fault", "notify", "wait"} /\ resetDuring = "no"
       => state \in {"Fault", "MissionAbort"}
  /\ unseen => cancelled # {}

Safe == BatchInv /\ OpenCircuitMeansAbort /\ RecoveryIsEarned /\ RecoveryInv

IInv == TypeOK /\ Safe

\* The initial state.
LEMMA InitIInv == Init => IInv
<1> SUFFICES ASSUME Init PROVE IInv
  OBVIOUS
<1> USE DEF Init, SharedInit, ThermalInit, DownlinkInit, InjectorInit
<1>1. SharedTypeOK
  BY DEF SharedTypeOK, SystemState, Class, Size, Task
<1>2. ThermalTypeOK
  BY DEF ThermalTypeOK
<1>3. DownlinkTypeOK
  <2>1. degraded \in BOOLEAN
    OBVIOUS
  <2>2. iter \in 0..(Batch - 1)
    OBVIOUS
  <2> QED
    BY <2>1, <2>2 DEF DownlinkTypeOK
<1>4. InjectorTypeOK
  <2>1. unseen \in BOOLEAN
    OBVIOUS
  <2>2. waited \in 0..RecoveryPolls
    OBVIOUS
  <2> QED
    BY <2>1, <2>2 DEF InjectorTypeOK
<1>5. Safe
  BY DEF Safe, BatchInv, OpenCircuitMeansAbort, RecoveryIsEarned, RecoveryInv
<1> QED
  BY <1>1, <1>2, <1>3, <1>4, <1>5 DEF IInv, TypeOK

\* SensorBuffer::push keeps the counts natural and within the capacity.
LEMMA PushType ==
  ASSUME SharedTypeOK, NEW c \in Class, Push(c)
  PROVE  buf' \in [Class -> Nat] /\ Size' <= Capacity
<1>1. /\ buf \in [Class -> Nat] /\ buf["crit"] \in Nat /\ buf["rest"] \in Nat
      /\ Size <= Capacity
  BY DEF SharedTypeOK, Class
<1>2. CASE Size < Capacity
  <2>1. buf' = [buf EXCEPT ![c] = @ + 1]
    BY <1>2 DEF Push
  <2> QED
    BY <1>1, <1>2, <2>1 DEF Size, Class
<1>3. CASE ~(Size < Capacity) /\ c = "crit" /\ buf["rest"] > 0
  <2>1. buf' = [buf EXCEPT !["crit"] = @ + 1, !["rest"] = @ - 1]
    BY <1>3 DEF Push
  <2> QED
    BY <1>1, <1>3, <2>1 DEF Size, Class
<1>4. CASE ~(Size < Capacity) /\ ~(c = "crit" /\ buf["rest"] > 0)
  <2>1. buf' = buf
    BY <1>4 DEF Push
  <2> QED
    BY <1>1, <2>1 DEF Size
<1> QED
  BY <1>2, <1>3, <1>4

\* So does SensorBuffer::pop.
LEMMA PopType ==
  ASSUME SharedTypeOK, NEW c \in Class, Pop(c)
  PROVE  buf' \in [Class -> Nat] /\ Size' <= Capacity
<1>1. /\ buf \in [Class -> Nat] /\ buf["crit"] \in Nat /\ buf["rest"] \in Nat
      /\ Size <= Capacity
  BY DEF SharedTypeOK, Class
<1>2. buf[c] > 0 /\ buf' = [buf EXCEPT ![c] = @ - 1]
  BY DEF Pop
<1> QED
  BY <1>1, <1>2 DEF Size, Class

\* The thermal task.
LEMMA ThermalIInv == ASSUME IInv, Thermal PROVE IInv'
<1> USE DEF Thermal, thermalVars, downlinkVars, injectorVars
<1>0. TypeOK /\ Safe
  BY DEF IInv
<1>1. CASE \E miss \in Jitter : ThermalSample(miss)
  <2>1. PICK miss \in Jitter : ThermalSample(miss)
    BY <1>1
  <2>2. TypeOK'
    BY <1>0, <2>1
    DEF TypeOK, SharedTypeOK, ThermalTypeOK, DownlinkTypeOK, InjectorTypeOK,
        ThermalSample, SystemState, Size
  <2>3. Safe'
    BY <1>0, <2>1
    DEF Safe, BatchInv, OpenCircuitMeansAbort, RecoveryIsEarned, RecoveryInv,
        ThermalSample
  <2> QED
    BY <2>2, <2>3 DEF IInv
<1>2. CASE ThermalPush
  <2>1. TypeOK'
    BY <1>0, <1>2, PushType
    DEF TypeOK, SharedTypeOK, ThermalTypeOK, DownlinkTypeOK, InjectorTypeOK,
        ThermalPush, Class
  <2>2. Safe'
    BY <1>0, <1>2
    DEF Safe, BatchInv, OpenCircuitMeansAbort, RecoveryIsEarned, RecoveryInv,
        ThermalPush
  <2> QED
    BY <2>1, <2>2 DEF IInv
<1>3. CASE ThermalCancel
  <2>1. TypeOK'
    BY <1>0, <1>3
    DEF TypeOK, SharedTypeOK, ThermalTypeOK, DownlinkTypeOK, InjectorTypeOK,
        ThermalCancel, Return, Size
  <2>2. Safe'
    BY <1>0, <1>3
    DEF Safe, BatchInv, OpenCircuitMeansAbort, RecoveryIsEarned, RecoveryInv,
        ThermalCancel
  <2> QED
    BY <2>1, <2>2 DEF IInv
<1> QED
  BY <1>1, <1>2, <1>3 DEF ThermalNext

\* The other sensor tasks.
LEMMA SoftIInv ==
  ASSUME IInv, NEW t \in SoftSensors, SoftSensor(t)
  PROVE  IInv'
<1> USE DEF SoftSensor, thermalVars, downlinkVars, injectorVars
<1>0. TypeOK /\ Safe
  BY DEF IInv
<1>1. CASE SoftSensorPush(t)
  <2>1. TypeOK'
    BY <1>0, <1>1, PushType
    DEF TypeOK, SharedTypeOK, ThermalTypeOK, DownlinkTypeOK, InjectorTypeOK,
        SoftSensorPush, Class
  <2>2. Safe'
    BY <1>0, <1>1
    DEF Safe, BatchInv, OpenCircuitMeansAbort, RecoveryIsEarned, RecoveryInv,
        SoftSensorPush
  <2> QED
    BY <2>1, <2>2 DEF IInv
<1>2. CASE SoftSensorCancel(t)
  <2>1. TypeOK'
    BY <1>0, <1>2
    DEF TypeOK, SharedTypeOK, ThermalTypeOK, DownlinkTypeOK, InjectorTypeOK,
        SoftSensorCancel, Return, Size
  <2>2. Safe'
    BY <1>0, <1>2
    DEF Safe, BatchInv, OpenCircuitMeansAbort, RecoveryIsEarned, RecoveryInv,
        SoftSensorCancel
  <2> QED
    BY <2>1, <2>2 DEF IInv
<1> QED
  BY <1>1, <1>2 DEF SoftSensor

\* Commands.  An abort survives them all, and a mode that is nominal again
\* in mid-recovery was reset.
LEMMA UplinkIInv == ASSUME IInv, Uplink PROVE IInv'
<1> USE DEF Uplink, thermalVars, downlinkVars, injectorVars
<1>0. TypeOK /\ Safe
  BY DEF IInv
<1>1. ASSUME NEW cmd \in Commands, HandleCommand(cmd) PROVE IInv'
  <2>1. /\ state' \in SystemState
        /\ state = "MissionAbort" => state' = "MissionAbort"
        /\ \/ state # "Fault"
           \/ state' \in {"Fault", "MissionAbort"}
           \/ state' = "Nominal" /\ resetDuring' = "applied"
        /\ resetDuring' \in {resetDuring, "applied"}
    BY <1>0, <1>1
    DEF TypeOK, SharedTypeOK, SystemState, HandleCommand, CommandEffect
  <2>2. TypeOK'
    BY <1>0, <1>1, <2>1
    DEF TypeOK, SharedTypeOK, ThermalTypeOK, DownlinkTypeOK, InjectorTypeOK,
        HandleCommand, Size
  <2>3. Safe'
    BY <1>0, <1>1, <2>1
    DEF Safe, BatchInv, OpenCircuitMeansAbort, RecoveryIsEarned, RecoveryInv,
        HandleCommand
  <2> QED
    BY <2>2, <2>3 DEF IInv
<1>2. ASSUME NEW c \in Class, RequestTelemetry(c) PROVE IInv'
  <2>1. rq' \in Seq(Class) /\ Len(rq') <= MaxRetransmit
    BY <1>0, <1>2 DEF TypeOK, SharedTypeOK, RequestTelemetry
  <2>2. TypeOK'
    BY <1>0, <1>2, <2>1
    DEF TypeOK, SharedTypeOK, ThermalTypeOK, DownlinkTypeOK, InjectorTypeOK,
        RequestTelemetry, Size
  <2>3. Safe'
    BY <1>0, <1>2
    DEF Safe, BatchInv, OpenCircuitMeansAbort, RecoveryIsEarned, RecoveryInv,
        RequestTelemetry
  <2> QED
    BY <2>2, <2>3 DEF IInv
<1>3. CASE UplinkClosed
  <2>1. TypeOK'
    BY <1>0, <1>3
    DEF TypeOK, SharedTypeOK, ThermalTypeOK, DownlinkTypeOK, InjectorTypeOK,
        UplinkClosed, Size
  <2>2. Safe'
    BY <1>0, <1>3
    DEF Safe, BatchInv, OpenCircuitMeansAbort, RecoveryIsEarned, RecoveryInv,
        UplinkClosed
  <2> QED
    BY <2>1, <2>2 DEF IInv
<1>4. CASE UplinkCancel
  <2>1. TypeOK'
    BY <1>0, <1>4
    DEF TypeOK, SharedTypeOK, ThermalTypeOK, DownlinkTypeOK, InjectorTypeOK,
        UplinkCancel, Return, Size
  <2>2. Safe'
    BY <1>0, <1>4
    DEF Safe, BatchInv, OpenCircuitMeansAbort, RecoveryIsEarned, RecoveryInv,
        UplinkCancel
  <2> QED
    BY <2>1, <2>2 DEF IInv
<1> QED
  BY <1>1, <1>2, <1>3, <1>4 DEF UplinkNext

\* A round of the downlink's loop: it goes on below the batch or ends.
LEMMA NextRoundFacts ==
  ASSUME DownlinkTypeOK, NextRound
  PROVE  /\ iter' \in 0..(Batch - 1) /\ degraded' \in BOOLEAN
         /\ \/ dpc' = "pick" /\ iter' = iter + 1
            \/ dpc' = "tick" /\ iter' = 0 /\ iter + 1 = Batch
<1>1. degraded' \in BOOLEAN
  BY DEF DownlinkTypeOK, NextRound, WindowEnds
<1> QED
  BY <1>1 DEF DownlinkTypeOK, NextRound, WindowEnds

\* Taking a packet leaves the downlink in the loop or ends the window.
LEMMA TakenFacts ==
  ASSUME DownlinkTypeOK, NEW c \in Class, Taken(c)
  PROVE  /\ iter' \in 0..(Batch - 1) /\ degraded' \in BOOLEAN
         /\ pkt' \in Class \cup {"none"}
         /\ \/ dpc' = "pick" /\ iter' = iter + 1
            \/ dpc' = "tick" /\ iter' = 0 /\ iter + 1 = Batch
            \/ dpc' = "send" /\ iter' = iter
<1>1. CASE degraded /\ c # "crit"
  BY <1>1, NextRoundFacts DEF Taken, DownlinkTypeOK
<1>2. CASE ~(degraded /\ c # "crit")
  BY <1>2 DEF Taken, DownlinkTypeOK
<1> QED
  BY <1>1, <1>2

\* The downlink.  What it sends in an abort is bounded by the rounds of the
\* window, because the window's look at the mode preceded the abort.
LEMMA DownlinkIInv == ASSUME IInv, Downlink PROVE IInv'
<1> USE DEF Downlink, thermalVars, downlinkVars, injectorVars, shared
<1>0. TypeOK /\ Safe
  BY DEF IInv
<1>00. SharedTypeOK /\ ThermalTypeOK /\ DownlinkTypeOK /\ InjectorTypeOK
  BY <1>0 DEF TypeOK
<1>1. CASE WindowOpens
  <2>1. TypeOK'
    BY <1>00, <1>1
    DEF TypeOK, SharedTypeOK, ThermalTypeOK, DownlinkTypeOK, InjectorTypeOK,
        WindowOpens, Size
  <2>2. Safe'
    BY <1>0, <1>1
    DEF Safe, BatchInv, OpenCircuitMeansAbort, RecoveryIsEarned, RecoveryInv,
        WindowOpens
  <2> QED
    BY <2>1, <2>2 DEF IInv
<1>8. CASE ForwardFault
  <2>1. TypeOK'
    BY <1>00, <1>8
    DEF TypeOK, SharedTypeOK, ThermalTypeOK, DownlinkTypeOK, InjectorTypeOK,
        ForwardFault, Size
  <2>2. Safe'
    BY <1>0, <1>8
    DEF Safe, BatchInv, OpenCircuitMeansAbort, RecoveryIsEarned, RecoveryInv,
        ForwardFault
  <2> QED
    BY <2>1, <2>2 DEF IInv
<1>9. CASE DownlinkCancel
  <2>1. TypeOK'
    BY <1>00, <1>9
    DEF TypeOK, SharedTypeOK, ThermalTypeOK, DownlinkTypeOK, InjectorTypeOK,
        DownlinkCancel, Return, Size
  <2>2. Safe'
    BY <1>0, <1>9
    DEF Safe, BatchInv, OpenCircuitMeansAbort, RecoveryIsEarned, RecoveryInv,
        DownlinkCancel
  <2> QED
    BY <2>1, <2>2 DEF IInv
<1>2. CASE ReadFlags
  <2>1. degraded' \in BOOLEAN
    <3>1. IsDegraded \in BOOLEAN /\ degraded \in BOOLEAN
      BY <1>00 DEF IsDegraded, DownlinkTypeOK
    <3>2. degraded' = IsDegraded \/ degraded' = degraded
      BY <1>2 DEF ReadFlags
    <3> QED
      BY <3>1, <3>2
  <2>2. TypeOK'
    BY <1>00, <1>2, <2>1
    DEF TypeOK, SharedTypeOK, ThermalTypeOK, DownlinkTypeOK, InjectorTypeOK,
        ReadFlags, Size
  <2>3. Safe'
    BY <1>0, <1>2
    DEF Safe, BatchInv, OpenCircuitMeansAbort, RecoveryIsEarned, RecoveryInv,
        ReadFlags
  <2> QED
    BY <2>2, <2>3 DEF IInv
<1>3. CASE AdjustMode
  <2>1. /\ state' \in SystemState
        /\ state \in {"Fault", "SafeMode", "MissionAbort"} => state' = state
        /\ state' # "MissionAbort" \/ state' = state
    BY <1>00, <1>3 DEF AdjustMode, SharedTypeOK, SystemState
  <2>2. TypeOK'
    BY <1>00, <1>3, <2>1
    DEF TypeOK, SharedTypeOK, ThermalTypeOK, DownlinkTypeOK, InjectorTypeOK,
        AdjustMode, Size
  <2>3. Safe'
    BY <1>0, <1>00, <1>3, <2>1
    DEF Safe, BatchInv, OpenCircuitMeansAbort, RecoveryIsEarned, RecoveryInv,
        AdjustMode, DownlinkTypeOK, SystemState
  <2> QED
    BY <2>2, <2>3 DEF IInv
<1>4. CASE PickRetransmit
  <2>1. Head(rq) \in Class /\ Tail(rq) \in Seq(Class) /\ Len(Tail(rq)) <= MaxRetransmit
    BY <1>00, <1>4 DEF PickRetransmit, SharedTypeOK
  <2>2. /\ iter' \in 0..(Batch - 1) /\ degraded' \in BOOLEAN
        /\ pkt' \in Class \cup {"none"}
        /\ \/ dpc' = "pick" /\ iter' = iter + 1
           \/ dpc' = "tick" /\ iter' = 0 /\ iter + 1 = Batch
           \/ dpc' = "send" /\ iter' = iter
    BY <1>00, <1>4, <2>1, TakenFacts DEF PickRetransmit
  <2>3. TypeOK'
    BY <1>00, <1>4, <2>1, <2>2
    DEF TypeOK, SharedTypeOK, ThermalTypeOK, DownlinkTypeOK, InjectorTypeOK,
        PickRetransmit, Size
  <2>4. Safe'
    BY <1>0, <1>00, <1>4, <2>2
    DEF Safe, BatchInv, OpenCircuitMeansAbort, RecoveryIsEarned, RecoveryInv,
        PickRetransmit, SharedTypeOK, DownlinkTypeOK
  <2> QED
    BY <2>3, <2>4 DEF IInv
<1>5. CASE PickReading
  <2>1. PICK c \in Class : Pop(c) /\ Taken(c)
    BY <1>5 DEF PickReading
  <2>2. buf' \in [Class -> Nat] /\ Size' <= Capacity
    BY <1>00, <2>1, PopType
  <2>3. /\ iter' \in 0..(Batch - 1) /\ degraded' \in BOOLEAN
        /\ pkt' \in Class \cup {"none"}
        /\ \/ dpc' = "pick" /\ iter' = iter + 1
           \/ dpc' = "tick" /\ iter' = 0 /\ iter + 1 = Batch
           \/ dpc' = "send" /\ iter' = iter
    BY <1>00, <2>1, TakenFacts
  <2>4. TypeOK'
    BY <1>00, <1>5, <2>2, <2>3
    DEF TypeOK, SharedTypeOK, ThermalTypeOK, DownlinkTypeOK, InjectorTypeOK,
        PickReading
  <2>5. Safe'
    BY <1>0, <1>00, <1>5, <2>3
    DEF Safe, BatchInv, OpenCircuitMeansAbort, RecoveryIsEarned, RecoveryInv,
        PickReading, SharedTypeOK, DownlinkTypeOK
  <2> QED
    BY <2>4, <2>5 DEF IInv
<1>6. CASE PickNothing
  <2>1. TypeOK'
    <3>1. iter' \in 0..(Batch - 1) /\ degraded' \in BOOLEAN
      <4>1. iter' = 0 /\ degraded' = FALSE
        BY <1>6 DEF PickNothing, WindowEnds
      <4>2. 0 \in 0..(Batch - 1)
        OBVIOUS
      <4> QED
        BY <4>1, <4>2, Zenon
    <3> QED
      BY <1>00, <1>6, <3>1
      DEF TypeOK, SharedTypeOK, ThermalTypeOK, DownlinkTypeOK, InjectorTypeOK,
          PickNothing, WindowEnds, Size
  <2>2. Safe'
    BY <1>0, <1>6
    DEF Safe, BatchInv, OpenCircuitMeansAbort, RecoveryIsEarned, RecoveryInv,
        PickNothing, WindowEnds
  <2> QED
    BY <2>1, <2>2 DEF IInv
<1>7. CASE Send
  <2>1. /\ iter' \in 0..(Batch - 1) /\ degraded' \in BOOLEAN
        /\ \/ dpc' = "pick" /\ iter' = iter + 1
           \/ dpc' = "tick" /\ iter' = 0 /\ iter + 1 = Batch
    BY <1>00, <1>7, NextRoundFacts DEF Send
  <2>2. sentInAbort' \in Nat /\ sentInAbort' <= sentInAbort + 1
    BY <1>00, <1>7 DEF Send, SharedTypeOK
  <2>3. TypeOK'
    BY <1>00, <1>7, <2>1, <2>2
    DEF TypeOK, SharedTypeOK, ThermalTypeOK, DownlinkTypeOK, InjectorTypeOK,
        Send, Size
  <2>4. Safe'
    BY <1>0, <1>00, <1>7, <2>1, <2>2
    DEF Safe, BatchInv, OpenCircuitMeansAbort, RecoveryIsEarned, RecoveryInv,
        Send, SharedTypeOK, DownlinkTypeOK
  <2> QED
    BY <2>3, <2>4 DEF IInv
<1> QED
  BY <1>1, <1>2, <1>3, <1>4, <1>5, <1>6, <1>7, <1>8, <1>9 DEF DownlinkNext

\* The fault injector.  The mode it sets, the abort it declares and the
\* recovery it counts keep the invariant.
LEMMA InjectorIInv == ASSUME IInv, Injector PROVE IInv'
<1> USE DEF Injector, thermalVars, downlinkVars, injectorVars, shared
<1>0. TypeOK /\ Safe
  BY DEF IInv
<1>00. SharedTypeOK /\ ThermalTypeOK /\ DownlinkTypeOK /\ InjectorTypeOK
  BY <1>0 DEF TypeOK
<1>1. CASE InjectFault
  <2>1. TypeOK'
    BY <1>00, <1>1
    DEF TypeOK, SharedTypeOK, ThermalTypeOK, DownlinkTypeOK, InjectorTypeOK,
        InjectFault, SystemState, Size
  <2>2. Safe'
    BY <1>0, <1>00, <1>1
    DEF Safe, BatchInv, OpenCircuitMeansAbort, RecoveryIsEarned, RecoveryInv,
        InjectFault, SharedTypeOK, SystemState
  <2> QED
    BY <2>1, <2>2 DEF IInv
<1>2. CASE FaultCondition
  <2>1. TypeOK'
    BY <1>00, <1>2
    DEF TypeOK, SharedTypeOK, ThermalTypeOK, DownlinkTypeOK, InjectorTypeOK,
        FaultCondition, Size
  <2>2. Safe'
    BY <1>0, <1>00, <1>2
    DEF Safe, BatchInv, OpenCircuitMeansAbort, RecoveryIsEarned, RecoveryInv,
        FaultCondition
  <2> QED
    BY <2>1, <2>2 DEF IInv
<1>3. CASE Notify
  <2>1. TypeOK'
    BY <1>00, <1>3
    DEF TypeOK, SharedTypeOK, ThermalTypeOK, DownlinkTypeOK, InjectorTypeOK,
        Notify, Size
  <2>2. Safe'
    BY <1>0, <1>00, <1>3
    DEF Safe, BatchInv, OpenCircuitMeansAbort, RecoveryIsEarned, RecoveryInv,
        Notify
  <2> QED
    BY <2>1, <2>2 DEF IInv
<1>4. CASE Recovered
  <2>1. TypeOK'
    BY <1>00, <1>4
    DEF TypeOK, SharedTypeOK, ThermalTypeOK, DownlinkTypeOK, InjectorTypeOK,
        Recovered, Size
  <2>2. Safe'
    BY <1>0, <1>00, <1>4
    DEF Safe, BatchInv, OpenCircuitMeansAbort, RecoveryIsEarned, RecoveryInv,
        Recovered
  <2> QED
    BY <2>1, <2>2 DEF IInv
<1>5. CASE PollAgain
  <2>1. TypeOK'
    BY <1>00, <1>5
    DEF TypeOK, SharedTypeOK, ThermalTypeOK, DownlinkTypeOK, InjectorTypeOK,
        PollAgain, Size
  <2>2. Safe'
    BY <1>0, <1>00, <1>5
    DEF Safe, BatchInv, OpenCircuitMeansAbort, RecoveryIsEarned, RecoveryInv,
        PollAgain
  <2> QED
    BY <2>1, <2>2 DEF IInv
<1>6. CASE CancelledInWait
  <2>1. TypeOK'
    <3>1. unseen' \in BOOLEAN
      BY <1>6, Zenon DEF CancelledInWait
    <3>2. InjectorTypeOK'
      BY <1>00, <1>6, <3>1 DEF CancelledInWait, InjectorTypeOK
    <3>3. SharedTypeOK' /\ ThermalTypeOK' /\ DownlinkTypeOK'
      BY <1>00, <1>6
      DEF SharedTypeOK, ThermalTypeOK, DownlinkTypeOK, CancelledInWait, Size
    <3> QED
      BY <3>2, <3>3 DEF TypeOK
  <2>2. Safe'
    BY <1>0, <1>00, <1>6
    DEF Safe, BatchInv, OpenCircuitMeansAbort, RecoveryIsEarned, RecoveryInv,
        CancelledInWait
  <2> QED
    BY <2>1, <2>2 DEF IInv
<1>7. CASE TimedOut
  <2>1. TypeOK'
    BY <1>00, <1>7
    DEF TypeOK, SharedTypeOK, ThermalTypeOK, DownlinkTypeOK, InjectorTypeOK,
        TimedOut, Size
  <2>2. Safe'
    BY <1>0, <1>00, <1>7
    DEF Safe, BatchInv, OpenCircuitMeansAbort, RecoveryIsEarned, RecoveryInv,
        TimedOut
  <2> QED
    BY <2>1, <2>2 DEF IInv
<1>8. CASE AbortMission
  <2>1. TypeOK'
    BY <1>00, <1>8
    DEF TypeOK, SharedTypeOK, ThermalTypeOK, DownlinkTypeOK, InjectorTypeOK,
        AbortMission, SystemState, Size
  <2>2. Safe'
    BY <1>0, <1>00, <1>8
    DEF Safe, BatchInv, OpenCircuitMeansAbort, RecoveryIsEarned, RecoveryInv,
        AbortMission, SharedTypeOK
  <2> QED
    BY <2>1, <2>2 DEF IInv
<1>9. CASE StopOnOpenCircuit
  <2>1. TypeOK'
    BY <1>00, <1>9
    DEF TypeOK, SharedTypeOK, ThermalTypeOK, DownlinkTypeOK, InjectorTypeOK,
        StopOnOpenCircuit, Size
  <2>2. Safe'
    BY <1>0, <1>00, <1>9
    DEF Safe, BatchInv, OpenCircuitMeansAbort, RecoveryIsEarned, RecoveryInv,
        StopOnOpenCircuit
  <2> QED
    BY <2>1, <2>2 DEF IInv
<1>10. CASE InjectorCancel
  <2>1. TypeOK'
    BY <1>00, <1>10
    DEF TypeOK, SharedTypeOK, ThermalTypeOK, DownlinkTypeOK, InjectorTypeOK,
        InjectorCancel, Return, Size
  <2>2. Safe'
    BY <1>0, <1>00, <1>10
    DEF Safe, BatchInv, OpenCircuitMeansAbort, RecoveryIsEarned, RecoveryInv,
        InjectorCancel
  <2> QED
    BY <2>1, <2>2 DEF IInv
<1> QED
  BY <1>1, <1>2, <1>3, <1>4, <1>5, <1>6, <1>7, <1>8, <1>9, <1>10 DEF InjectorNext

\* The cancel signal.
LEMMA CancelIInv == ASSUME IInv, NEW w \in Cancellers, Cancel(w) PROVE IInv'
<1>0. TypeOK /\ Safe
  BY DEF IInv
<1>1. TypeOK'
  BY <1>0
  DEF TypeOK, SharedTypeOK, ThermalTypeOK, DownlinkTypeOK, InjectorTypeOK,
      Cancel, thermalVars, downlinkVars, Size
<1>2. Safe'
  BY <1>0
  DEF Safe, BatchInv, OpenCircuitMeansAbort, RecoveryIsEarned, RecoveryInv,
      Cancel, thermalVars, downlinkVars
<1> QED
  BY <1>1, <1>2 DEF IInv

\* Every step preserves the invariant.
LEMMA NextIInv == IInv /\ [Next]_vars => IInv'
<1> SUFFICES ASSUME IInv, [Next]_vars PROVE IInv'
  OBVIOUS
<1>1. CASE Thermal
  BY <1>1, ThermalIInv
<1>2. CASE Uplink
  BY <1>2, UplinkIInv
<1>3. CASE Downlink
  BY <1>3, DownlinkIInv
<1>4. CASE Injector
  BY <1>4, InjectorIInv
<1>5. CASE \E t \in SoftSensors : SoftSensor(t)
  BY <1>5, SoftIInv
<1>6. CASE \E w \in Cancellers : Cancel(w)
  BY <1>6, CancelIInv
<1>7. CASE UNCHANGED vars
  BY <1>7
  DEF vars, shared, thermalVars, downlinkVars, injectorVars, IInv, TypeOK,
      SharedTypeOK, ThermalTypeOK, DownlinkTypeOK, InjectorTypeOK, Size, Safe,
      BatchInv, OpenCircuitMeansAbort, RecoveryIsEarned, RecoveryInv
<1> QED
  BY <1>1, <1>2, <1>3, <1>4, <1>5, <1>6, <1>7 DEF Next

LEMMA Invariance == Spec => []IInv
  BY InitIInv, NextIInv, PTL DEF Spec

\* Every variable of the satellite has its type, and the buffer, the
\* retransmission queue and the fault channel respect their capacities.
THEOREM TypeCorrect == Spec => []TypeOK
<1>1. IInv => TypeOK
  BY DEF IInv
<1> QED
  BY <1>1, Invariance, PTL

\* At most one window's worth of packets is sent after a mission abort,
\* whatever the batch size and whoever aborts.
THEOREM BoundedTelemetryAfterAbort == Spec => []AtMostOneBatchAfterAbort
<1>1. IInv => AtMostOneBatchAfterAbort
  BY DEF IInv, Safe, BatchInv, AtMostOneBatchAfterAbort
<1> QED
  BY <1>1, Invariance, PTL

\* The injector's circuit is open only in an aborted mission.
THEOREM OpenCircuit == Spec => []OpenCircuitMeansAbort
<1>1. IInv => OpenCircuitMeansAbort
  BY DEF IInv, Safe
<1> QED
  BY <1>1, Invariance, PTL

\* A counted recovery follows a ResetSensor, unless the program is being shut
\* down.
THEOREM EarnedRecovery == Spec => []RecoveryIsEarned
<1>1. IInv => RecoveryIsEarned
  BY DEF IInv, Safe
<1> QED
  BY <1>1, Invariance, PTL

\* The four writers of the mode implement the state machine of MissionModes.
THEOREM ModeRefinement == Spec => ImplementsModes
<1> USE DEF thermalVars, downlinkVars, injectorVars, shared
<1>1. Init => Modes!Init
  BY DEF Init, SharedInit, Modes!Init
<1>2. IInv /\ [Next]_vars => [Modes!Next]_state
  <2> SUFFICES ASSUME IInv, [Next]_vars PROVE [Modes!Next]_state
    OBVIOUS
  <2>0. state \in SystemState
    BY DEF IInv, TypeOK, SharedTypeOK
  <2> USE DEF Modes!Next, Modes!Degrade, Modes!Restore, Modes!GoSafe,
              Modes!Fail, Modes!Abort
  <2>1. CASE Thermal
    BY <2>0, <2>1
    DEF Thermal, ThermalNext, ThermalSample, ThermalPush, ThermalCancel,
        SystemState
  <2>2. CASE Uplink
    <3>1. ASSUME NEW cmd \in Commands, HandleCommand(cmd)
          PROVE  [Modes!Next]_state
      BY <2>0, <3>1 DEF HandleCommand, CommandEffect, SystemState
    <3>2. CASE \E c \in Class : RequestTelemetry(c)
      BY <3>2 DEF RequestTelemetry
    <3>3. CASE UplinkClosed \/ UplinkCancel
      BY <3>3 DEF UplinkClosed, UplinkCancel
    <3> QED
      BY <2>2, <3>1, <3>2, <3>3 DEF Uplink, UplinkNext
  <2>3. CASE Downlink
    <3>1. CASE AdjustMode
      BY <2>0, <3>1 DEF AdjustMode, SystemState
    <3>2. CASE ~AdjustMode
      BY <2>3, <3>2
      DEF Downlink, DownlinkNext, WindowOpens, ForwardFault, ReadFlags,
          PickRetransmit, PickReading, PickNothing, Send, DownlinkCancel
    <3> QED
      BY <3>1, <3>2
  <2>4. CASE Injector
    <3>1. CASE InjectFault \/ AbortMission
      BY <2>0, <3>1 DEF InjectFault, AbortMission, SystemState
    <3>2. CASE ~(InjectFault \/ AbortMission)
      BY <2>4, <3>2
      DEF Injector, InjectorNext, FaultCondition, Notify, Recovered, PollAgain,
          CancelledInWait, TimedOut, StopOnOpenCircuit, InjectorCancel
    <3> QED
      BY <3>1, <3>2
  <2>5. CASE \E t \in SoftSensors : SoftSensor(t)
    BY <2>5 DEF SoftSensor, SoftSensorPush, SoftSensorCancel
  <2>6. CASE \E w \in Cancellers : Cancel(w)
    BY <2>6 DEF Cancel
  <2>7. CASE UNCHANGED vars
    BY <2>7 DEF vars
  <2> QED
    BY <2>1, <2>2, <2>3, <2>4, <2>5, <2>6, <2>7 DEF Next
<1> QED
  BY <1>1, <1>2, Invariance, PTL DEF Spec, ImplementsModes, Modes!Spec
=============================================================================
