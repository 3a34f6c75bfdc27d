-------------------------- MODULE SensorWatchProofs --------------------------
(***************************************************************************)
(* Proofs about the sampling thread, its task and the watchdog, for every  *)
(* period, limit, capacity and lateness.                                   *)
(***************************************************************************)
EXTENDS SensorWatch, TLAPS

\* The deadline is the time from which the drift is measured, and no sample is
\* taken before its deadline.
OnTheGrid ==
  /\ next_deadline = Start + (seq + 1) * Period
  /\ thread = "send" => prev >= next_deadline
  /\ thread = "wait" /\ prev # -1 => prev >= next_deadline - Period
  /\ thread = "send" => prev # -1

\* What the last sample says of its lateness.
LastSampleInv ==
  /\ prev = -1 => ~sample.late
  /\ thread = "wait" /\ prev # -1
       => (sample.late <=> prev - (next_deadline - Period) > JitterLimit)
  /\ thread = "send" => (sample.late <=> prev - next_deadline > JitterLimit)

\* Was the sample before the one to be sent next late?
LastLate == IF chan = <<>> THEN latest ELSE chan[Len(chan)].late

\* A sample that is missed is late, or the one before it was.
Covered(s, before) == s.miss => s.late \/ before

\* So it is of the samples in the channel, and of the one being sent.
ChainInv ==
  receiver =>
    /\ \A i \in 1..Len(chan) :
         Covered(chan[i], IF i = 1 THEN latest ELSE chan[i - 1].late)
    /\ thread = "send" => Covered(sample, LastLate)
    /\ thread = "wait" => (sample.late <=> LastLate)

\* No receiver, nothing in the channel.
ReceiverInv == ~receiver => chan = <<>>

\* A run of misses that ends with a late sample has room for one more.
RunInv ==
  /\ consecutive_miss = 0 => lateInRun = 0
  /\ consecutive_miss <= 2 * lateInRun
  /\ consecutive_miss > 0 /\ latest => consecutive_miss <= 2 * lateInRun - 1

\* The heartbeat and the time it was stored.
BeatInv == /\ heartbeat = beatAt \div TicksPerS
           /\ beatAt <= now

IInv == TypeOK /\ OnTheGrid /\ LastSampleInv /\ ChainInv /\ ReceiverInv /\ RunInv

-----------------------------------------------------------------------------

LEMMA InitIsTyped == Init => TypeOK
<1> SUFFICES ASSUME Init PROVE TypeOK
  OBVIOUS
<1>1. sample \in Sample
  BY DEF Init, SensorInit, Sample
<1>2. chan \in Seq(Sample) /\ Len(chan) <= ChannelCap
  <2>1. chan \in Seq(Sample) /\ Len(chan) = 0
    BY DEF Init, SensorInit
  <2> QED BY <2>1, SensorAssumption
<1>3. /\ now \in Nat /\ next_deadline \in Nat /\ since \in Nat
      /\ nextCheck \in Nat
  BY SensorAssumption DEF Init, SensorInit
<1>4. /\ seq \in Nat /\ prev \in Nat \cup {-1} /\ heartbeat \in Nat
      /\ beatAt \in Nat /\ consecutive_miss \in Nat /\ lateInRun \in Nat
  BY DEF Init, SensorInit
<1>5. /\ thread \in {"wait", "send", "done"} /\ receiver \in BOOLEAN
      /\ stop \in BOOLEAN /\ consumer \in {"recv", "busy", "done"}
      /\ latest \in BOOLEAN /\ watching \in BOOLEAN /\ reported \in BOOLEAN
  BY DEF Init, SensorInit
<1> QED BY <1>1, <1>2, <1>3, <1>4, <1>5 DEF TypeOK, SensorTypeOK

LEMMA StepIsTyped == TypeOK /\ [Next]_vars => TypeOK'
<1> SUFFICES ASSUME TypeOK, [Next]_vars PROVE TypeOK'
  OBVIOUS
<1> USE SensorAssumption, WatchAssumption DEF TypeOK, SensorTypeOK
<1>1. CASE TakeSample /\ UNCHANGED <<watching, nextCheck>> /\ reported' \in BOOLEAN
  BY <1>1 DEF TakeSample, consumerVars, Sample
<1>2. CASE Deliver /\ UNCHANGED <<watching, nextCheck>> /\ reported' \in BOOLEAN
  <2>1. now \div TicksPerS \in Nat
    OBVIOUS
  <2> QED BY <1>2, <2>1 DEF Deliver, consumerVars
<1>3. CASE ThreadEnds /\ UNCHANGED <<watching, nextCheck>> /\ reported' \in BOOLEAN
  BY <1>3 DEF ThreadEnds, consumerVars
<1>4. CASE Receive /\ UNCHANGED <<watching, nextCheck>> /\ reported' \in BOOLEAN
  <2>1. chan # <<>> /\ chan' = Tail(chan)
    BY <1>4 DEF Receive
  <2>2. chan' \in Seq(Sample) /\ Len(chan') <= ChannelCap
    BY <2>1
  <2>3. Head(chan) \in Sample
    BY <2>1
  <2>4. latest' \in BOOLEAN
    BY <1>4, <2>3 DEF Receive, Sample
  <2>5. consecutive_miss' \in Nat /\ lateInRun' \in Nat
    BY <1>4, <2>4 DEF Receive
  <2> QED BY <1>4, <2>2, <2>4, <2>5 DEF Receive, threadVars
<1>5. CASE Pushed /\ UNCHANGED <<watching, nextCheck>> /\ reported' \in BOOLEAN
  BY <1>5 DEF Pushed, threadVars
<1>6. CASE Cancelled /\ UNCHANGED <<watching, nextCheck>> /\ reported' \in BOOLEAN
  <2>1. chan' \in Seq(Sample) /\ Len(chan') = 0
    BY <1>6 DEF Cancelled
  <2>2. Len(chan') <= ChannelCap
    BY <2>1
  <2>3. stop' \in BOOLEAN /\ receiver' \in BOOLEAN /\ since' \in Nat
    BY <1>6 DEF Cancelled
  <2>4. consumer' \in {"recv", "busy", "done"}
    BY <1>6 DEF Cancelled
  <2> QED BY <1>6, <2>1, <2>2, <2>3, <2>4 DEF Cancelled, threadVars
<1>7. CASE Check
  BY <1>7 DEF Check, sensorVars, threadVars, consumerVars
<1>8. CASE StopWatching
  BY <1>8 DEF StopWatching, sensorVars, threadVars, consumerVars
<1>9. CASE Advance
  BY <1>9 DEF Advance, threadVars, consumerVars
<1>10. CASE UNCHANGED vars
  BY <1>10 DEF vars, sensorVars, threadVars, consumerVars
<1> QED BY <1>1, <1>2, <1>3, <1>4, <1>5, <1>6, <1>7, <1>8, <1>9, <1>10
        DEF Next, Sensor, SensorNext

\* The types hold for every value of the constants.
THEOREM TypeCorrect == Spec => []TypeOK
<1> QED BY InitIsTyped, StepIsTyped, PTL DEF Spec

-----------------------------------------------------------------------------

LEMMA InitInv == Init => OnTheGrid /\ LastSampleInv /\ ChainInv /\ ReceiverInv
                           /\ RunInv /\ BeatInv
<1> SUFFICES ASSUME Init
    PROVE  OnTheGrid /\ LastSampleInv /\ ChainInv /\ ReceiverInv
             /\ RunInv /\ BeatInv
  OBVIOUS
<1> USE SensorAssumption DEF Init, SensorInit
<1>1. OnTheGrid
  BY DEF OnTheGrid
<1>2. LastSampleInv
  BY DEF LastSampleInv
<1>3. ChainInv
  BY DEF ChainInv, LastLate
<1>4. ReceiverInv /\ RunInv
  BY DEF ReceiverInv, RunInv
<1>5. BeatInv
  <2>1. 0 \div TicksPerS = 0
    OBVIOUS
  <2> QED BY <2>1 DEF BeatInv
<1> QED BY <1>1, <1>2, <1>3, <1>4, <1>5

\* The watchdog and the clock do not touch the sensor.
LEMMA OutsideSteps ==
  Check \/ StopWatching \/ Advance \/ UNCHANGED vars
    => UNCHANGED <<threadVars, chan, consumerVars>>
<1> QED BY DEF Check, StopWatching, Advance, vars, sensorVars

\* The steps of the sensor are those of its thread and its task.
LEMMA Steps ==
  [Next]_vars => \/ TakeSample \/ Deliver \/ ThreadEnds
                 \/ Receive \/ Pushed \/ Cancelled
                 \/ UNCHANGED <<threadVars, chan, consumerVars>>
<1> QED BY OutsideSteps DEF Next, Sensor, SensorNext

LEMMA GridStep == TypeOK /\ OnTheGrid /\ [Next]_vars => OnTheGrid'
<1> SUFFICES ASSUME TypeOK, OnTheGrid, [Next]_vars PROVE OnTheGrid'
  OBVIOUS
<1> USE SensorAssumption DEF TypeOK, SensorTypeOK, OnTheGrid
<1>1. CASE TakeSample
  BY <1>1 DEF TakeSample
<1>2. CASE Deliver
  <2>1. next_deadline' = next_deadline + Period /\ seq' = seq + 1 /\ prev' = prev
        /\ thread = "send" /\ thread' # "send"
    BY <1>2 DEF Deliver
  <2>2. next_deadline' = Start + (seq' + 1) * Period
    BY <2>1
  <2> QED BY <2>1, <2>2
<1>3. CASE ThreadEnds
  BY <1>3 DEF ThreadEnds
<1>4. CASE Receive \/ Pushed \/ Cancelled
  BY <1>4 DEF Receive, Pushed, Cancelled, threadVars
<1>5. CASE UNCHANGED <<threadVars, chan, consumerVars>>
  BY <1>5 DEF threadVars
<1> QED BY <1>1, <1>2, <1>3, <1>4, <1>5, Steps

LEMMA SampleStep ==
  TypeOK /\ OnTheGrid /\ LastSampleInv /\ [Next]_vars => LastSampleInv'
<1> SUFFICES ASSUME TypeOK, OnTheGrid, LastSampleInv, [Next]_vars
             PROVE  LastSampleInv'
  OBVIOUS
<1> USE SensorAssumption DEF TypeOK, SensorTypeOK, LastSampleInv
<1>1. CASE TakeSample
  <2>1. prev' = now /\ thread' = "send" /\ now >= next_deadline
        /\ next_deadline' = next_deadline
    BY <1>1 DEF TakeSample
  <2>2. sample'.late <=> now - next_deadline > JitterLimit
    <3>1. Drift(now) = now - next_deadline
      BY <2>1 DEF Drift, Abs, OnTheGrid
    <3>2. sample'.late = (Drift(now) > JitterLimit)
      BY <1>1 DEF TakeSample
    <3> QED BY <3>1, <3>2
  <2> QED BY <2>1, <2>2
<1>2. CASE Deliver
  BY <1>2 DEF Deliver, OnTheGrid
<1>3. CASE ThreadEnds
  BY <1>3 DEF ThreadEnds
<1>4. CASE Receive \/ Pushed \/ Cancelled
  BY <1>4 DEF Receive, Pushed, Cancelled, threadVars
<1>5. CASE UNCHANGED <<threadVars, chan, consumerVars>>
  BY <1>5 DEF threadVars
<1> QED BY <1>1, <1>2, <1>3, <1>4, <1>5, Steps

\* Jitter is the difference of two drifts, neither negative: if it is over the
\* limit, so is one of them.
LEMMA MissIsCovered ==
  ASSUME TypeOK, OnTheGrid, LastSampleInv, TakeSample, sample'.miss, ~sample'.late
  PROVE  sample.late
<1> USE SensorAssumption DEF TypeOK, SensorTypeOK
<1>1. Jitter(now) > JitterLimit /\ ~(Drift(now) > JitterLimit)
      /\ now >= next_deadline /\ thread = "wait"
  BY DEF TakeSample
<1>2. prev # -1 /\ Abs((now - prev) - Period) > JitterLimit
  BY <1>1 DEF Jitter
<1>3. Drift(now) = now - next_deadline
  BY <1>1 DEF Drift, Abs, OnTheGrid
<1>4. prev >= next_deadline - Period
  BY <1>1, <1>2 DEF OnTheGrid
<1>5. prev - (next_deadline - Period) > JitterLimit
  BY <1>1, <1>2, <1>3, <1>4 DEF Abs
<1> QED BY <1>1, <1>2, <1>5 DEF LastSampleInv

LEMMA ChainStep ==
  TypeOK /\ OnTheGrid /\ LastSampleInv /\ ChainInv /\ ReceiverInv /\ [Next]_vars
    => ChainInv' /\ ReceiverInv'
<1> SUFFICES ASSUME TypeOK, OnTheGrid, LastSampleInv, ChainInv, ReceiverInv,
                    [Next]_vars
             PROVE  ChainInv' /\ ReceiverInv'
  OBVIOUS
<1> USE SensorAssumption DEF TypeOK, SensorTypeOK
<1>1. CASE TakeSample
  <2>1. UNCHANGED <<chan, receiver, latest>> /\ thread = "wait" /\ thread' = "send"
    BY <1>1 DEF TakeSample, consumerVars
  <2>2. LastLate' <=> LastLate
    BY <2>1 DEF LastLate
  <2>3. receiver => Covered(sample', LastLate)
    BY <1>1, <2>1, MissIsCovered DEF Covered, ChainInv
  <2> QED BY <2>1, <2>2, <2>3 DEF ChainInv, ReceiverInv, Covered
<1>2. CASE Deliver
  <2>1. chan' = Append(chan, sample) /\ UNCHANGED <<receiver, latest, sample>>
        /\ receiver /\ thread = "send" /\ thread' # "send"
    BY <1>2 DEF Deliver, consumerVars
  <2>2. chan' \in Seq(Sample) /\ Len(chan') = Len(chan) + 1 /\ chan' # <<>>
        /\ chan'[Len(chan) + 1] = sample
        /\ \A i \in 1..Len(chan) : chan'[i] = chan[i]
    BY <2>1
  <2>3. LastLate' = sample.late
    BY <2>2 DEF LastLate
  <2>4. ASSUME NEW i \in 1..Len(chan')
        PROVE  Covered(chan'[i], IF i = 1 THEN latest ELSE chan'[i - 1].late)
    <3>1. CASE i \in 1..Len(chan)
      BY <2>1, <2>2, <3>1 DEF ChainInv, Covered
    <3>2. CASE i = Len(chan) + 1
      <4>1. LastLate = IF i = 1 THEN latest ELSE chan'[i - 1].late
        BY <2>2, <3>2 DEF LastLate
      <4> QED BY <2>1, <2>2, <3>2, <4>1 DEF ChainInv, Covered
    <3> QED BY <2>2, <3>1, <3>2
  <2> QED BY <2>1, <2>3, <2>4 DEF ChainInv, ReceiverInv
<1>3. CASE ThreadEnds
  <2>1. UNCHANGED <<chan, receiver, latest, sample>> /\ thread' = "done"
    BY <1>3 DEF ThreadEnds, consumerVars
  <2> QED BY <2>1 DEF ChainInv, ReceiverInv, Covered
<1>4. CASE Receive
  <2>1. /\ chan # <<>> /\ chan' = Tail(chan) /\ latest' = Head(chan).late
        /\ UNCHANGED <<receiver, sample, thread>>
    BY <1>4 DEF Receive, threadVars
  <2>2. /\ receiver /\ Len(chan) >= 1 /\ Len(chan') = Len(chan) - 1
        /\ latest' = chan[1].late
        /\ \A i \in 1..Len(chan') : chan'[i] = chan[i + 1]
    BY <2>1 DEF ReceiverInv
  <2>3. LastLate' = LastLate
    <3>1. CASE Len(chan) = 1
      <4>1. chan' = <<>> /\ chan # <<>>
        BY <2>1, <2>2, <3>1
      <4> QED BY <2>2, <3>1, <4>1 DEF LastLate
    <3>2. CASE Len(chan) > 1
      <4>1. Len(chan') \in 1..Len(chan') /\ chan' # <<>> /\ chan # <<>>
        <5>1. Len(chan') \in Nat /\ Len(chan') >= 1
          BY <2>2, <3>2
        <5>2. chan' # <<>>
          BY <5>1
        <5> QED BY <2>1, <5>1, <5>2
      <4>2. chan'[Len(chan')] = chan[Len(chan)]
        BY <2>2, <4>1
      <4> QED BY <4>1, <4>2 DEF LastLate
    <3> QED BY <2>2, <3>1, <3>2
  <2>4. ASSUME NEW i \in 1..Len(chan')
        PROVE  Covered(chan'[i], IF i = 1 THEN latest' ELSE chan'[i - 1].late)
    <3>1. i + 1 \in 1..Len(chan) /\ chan'[i] = chan[i + 1]
      BY <2>2
    <3>2. Covered(chan[i + 1], chan[i].late)
      BY <2>2, <3>1 DEF ChainInv, Covered
    <3>3. i # 1 => chan'[i - 1] = chan[i]
      BY <2>2
    <3> QED BY <2>2, <3>1, <3>2, <3>3 DEF Covered
  <2> QED BY <2>1, <2>2, <2>3, <2>4 DEF ChainInv, ReceiverInv, Covered
<1>5. CASE Pushed
  <2>1. UNCHANGED <<chan, receiver, latest, sample, thread>>
    BY <1>5 DEF Pushed, threadVars
  <2> QED BY <2>1 DEF ChainInv, ReceiverInv, Covered, LastLate
<1>6. CASE Cancelled
  BY <1>6 DEF Cancelled, ChainInv, ReceiverInv
<1>7. CASE UNCHANGED <<threadVars, chan, consumerVars>>
  <2>1. UNCHANGED <<chan, receiver, latest, sample, thread>>
    BY <1>7 DEF threadVars, consumerVars
  <2> QED BY <2>1 DEF ChainInv, ReceiverInv, Covered, LastLate
<1> QED BY <1>1, <1>2, <1>3, <1>4, <1>5, <1>6, <1>7, Steps

\* A late sample makes two misses: of those in a run, a late one that ends it
\* still has one to give.
LEMMA RunStep ==
  TypeOK /\ ChainInv /\ ReceiverInv /\ RunInv /\ [Next]_vars => RunInv'
<1> SUFFICES ASSUME TypeOK, ChainInv, ReceiverInv, RunInv, [Next]_vars
             PROVE  RunInv'
  OBVIOUS
<1> USE DEF TypeOK, SensorTypeOK
<1>1. CASE Receive
  <2>1. /\ receiver /\ Len(chan) >= 1 /\ Head(chan) = chan[1]
        /\ chan[1] \in Sample
    BY <1>1 DEF Receive, ReceiverInv
  <2>2. chan[1].miss => chan[1].late \/ latest
    BY <2>1 DEF ChainInv, Covered
  <2>3. CASE ~chan[1].miss
    BY <1>1, <2>1, <2>3 DEF Receive, RunInv
  <2>4. CASE chan[1].miss
    <3>1. /\ consecutive_miss' = consecutive_miss + 1
          /\ lateInRun' = (IF consecutive_miss = 0 /\ latest THEN 1 ELSE lateInRun)
                            + (IF latest' THEN 1 ELSE 0)
          /\ latest' = chan[1].late
      BY <1>1, <2>1, <2>4 DEF Receive
    <3>2. CASE latest'
      BY <3>1, <3>2 DEF RunInv
    <3>3. CASE ~latest'
      BY <2>2, <2>4, <3>1, <3>3 DEF RunInv
    <3> QED BY <3>2, <3>3
  <2> QED BY <2>3, <2>4
<1>2. CASE TakeSample \/ Deliver \/ ThreadEnds
  BY <1>2 DEF TakeSample, Deliver, ThreadEnds, consumerVars, RunInv
<1>3. CASE Pushed \/ Cancelled
  BY <1>3 DEF Pushed, Cancelled, RunInv
<1>4. CASE UNCHANGED <<threadVars, chan, consumerVars>>
  BY <1>4 DEF consumerVars, RunInv
<1> QED BY <1>1, <1>2, <1>3, <1>4, Steps

LEMMA InvStep == IInv /\ [Next]_vars => IInv'
<1> QED BY StepIsTyped, GridStep, SampleStep, ChainStep, RunStep DEF IInv

\* Misses in a row are at most twice the samples that came late, for every
\* period, limit and capacity, whatever makes the samples late.
THEOREM MissesNeedLateSamples == Spec => []MissesComeFromLateSamples
<1>1. Init => IInv
  BY InitIsTyped, InitInv DEF IInv
<1>2. IInv => MissesComeFromLateSamples
  BY DEF IInv, RunInv, MissesComeFromLateSamples
<1> QED BY <1>1, <1>2, InvStep, PTL DEF Spec

-----------------------------------------------------------------------------

\* Two whole seconds more than the limit apart are more than the limit apart.
LEMMA WholeSeconds ==
  ASSUME NEW a \in Nat, NEW b \in Nat, NEW S \in Nat \ {0}, NEW T \in Nat,
         (a \div S) - (b \div S) > T
  PROVE  a - b > T * S
<1> DEFINE q == a \div S
           r == b \div S
<1>1. q \in Nat /\ r \in Nat
  OBVIOUS
<1>2. a >= S * q /\ b < S * r + S
  OBVIOUS
<1>3. q >= r + T + 1
  BY <1>1
<1>4. S * q >= S * (r + T + 1)
  <2> HIDE DEF q, r
  <2>1. PICK k \in Nat : q = (r + T + 1) + k
    <3>1. q - (r + T + 1) \in Nat
      BY <1>1, <1>3
    <3> WITNESS q - (r + T + 1) \in Nat
    <3> QED BY <1>1
  <2>2. S * q = S * (r + T + 1) + S * k /\ S * k \in Nat
    BY <1>1, <2>1
  <2> QED BY <1>1, <2>2
<1>5. S * (r + T + 1) = S * r + T * S + S
  <2> HIDE DEF q, r
  <2> QED BY <1>1
<1> HIDE DEF q, r
<1>6. S * q \in Nat /\ S * r \in Nat /\ T * S \in Nat
  BY <1>1
<1> QED BY <1>2, <1>4, <1>5, <1>6

LEMMA BeatStep == TypeOK /\ BeatInv /\ [Next]_vars => BeatInv'
<1> SUFFICES ASSUME TypeOK, BeatInv, [Next]_vars PROVE BeatInv'
  OBVIOUS
<1> USE DEF TypeOK, SensorTypeOK, BeatInv
<1>1. CASE Sensor
  <2>1. CASE Deliver
    BY <2>1 DEF Deliver
  <2>2. CASE TakeSample \/ ThreadEnds
    BY <2>2 DEF TakeSample, ThreadEnds
  <2>3. CASE Receive \/ Pushed \/ Cancelled
    BY <2>3 DEF Receive, Pushed, Cancelled, threadVars
  <2> QED BY <1>1, <2>1, <2>2, <2>3 DEF Sensor, SensorNext
<1>2. CASE Check \/ StopWatching
  BY <1>2 DEF Check, StopWatching, sensorVars, threadVars
<1>3. CASE Advance
  BY <1>3 DEF Advance, threadVars
<1>4. CASE UNCHANGED vars
  BY <1>4 DEF vars, sensorVars, threadVars
<1> QED BY <1>1, <1>2, <1>3, <1>4 DEF Next

LEMMA AlarmStep ==
  TypeOK /\ BeatInv /\ NoFalseAlarm /\ [Next]_vars => NoFalseAlarm'
<1> SUFFICES ASSUME TypeOK, BeatInv, NoFalseAlarm, [Next]_vars, reported'
             PROVE  now' - beatAt' > Timeout * TicksPerS
  BY DEF NoFalseAlarm
<1> USE DEF TypeOK, SensorTypeOK
<1> DEFINE limit == Timeout * TicksPerS
<1>0. limit \in Nat
  BY SensorAssumption, WatchAssumption
<1>1. CASE Sensor
  <2>1. now' = now
    BY <1>1 DEF Sensor, SensorNext, TakeSample, Deliver, ThreadEnds, Receive,
                Pushed, Cancelled
  <2> QED BY <1>1, <2>1 DEF Sensor, NoFalseAlarm
<1>2. CASE Check
  <2>1. now' = now /\ beatAt' = beatAt /\ reported' = (reported \/ IsStale(heartbeat))
    BY <1>2 DEF Check, sensorVars, threadVars
  <2>2. CASE IsStale(heartbeat)
    <3>1. (now \div TicksPerS) - (beatAt \div TicksPerS) > Timeout
      BY <2>2 DEF IsStale, BeatInv
    <3>2. now - beatAt > limit
      BY <3>1, WholeSeconds, SensorAssumption, WatchAssumption
    <3> QED BY <2>1, <3>2
  <2> QED BY <2>1, <2>2 DEF NoFalseAlarm
<1>3. CASE Advance
  <2>1. now' = now + 1 /\ beatAt' = beatAt /\ reported
    BY <1>3 DEF Advance, threadVars
  <2>2. now - beatAt > limit
    BY <2>1 DEF NoFalseAlarm
  <2> HIDE DEF limit
  <2>3. now' - beatAt' > limit
    BY <1>0, <2>1, <2>2
  <2> QED BY <2>3 DEF limit
<1>4. CASE StopWatching \/ UNCHANGED vars
  BY <1>4 DEF StopWatching, vars, sensorVars, threadVars, NoFalseAlarm
<1> QED BY <1>1, <1>2, <1>3, <1>4 DEF Next

\* The watchdog reports no task that has beaten within its limit, for every
\* limit and resolution of the clock.
THEOREM AlarmsAreTrue == Spec => []NoFalseAlarm
<1>1. Init => TypeOK /\ BeatInv /\ NoFalseAlarm
  BY InitIsTyped, InitInv DEF Init, NoFalseAlarm
<1>2. TypeOK /\ BeatInv /\ NoFalseAlarm /\ [Next]_vars
        => (TypeOK /\ BeatInv /\ NoFalseAlarm)'
  BY StepIsTyped, BeatStep, AlarmStep
<1> QED BY <1>1, <1>2, PTL DEF Spec

-----------------------------------------------------------------------------

\* Where the clock can be, from the thread's state, and who tells whom to stop.
\* A thread that was held up makes up for it at once, when the task moves on.
TimeInv ==
  /\ (receiver <=> ~stop) /\ (stop <=> consumer = "done") /\ (thread = "done" => stop)
  /\ thread = "wait" => next_deadline <= now + Period
  /\ thread = "send" => next_deadline <= now
  /\ consumer # "recv" /\ (thread = "send" => Len(chan) < ChannelCap)
       => thread = "done" \/ now = since \/ now <= next_deadline + Lateness

\* After the cancel branch the thread has no deadline further off than a period,
\* and no time passes while a send fails.
EndInv ==
  stop => /\ thread = "wait" => next_deadline <= since + Period
          /\ thread = "send" => now = since

LEMMA TimeInit == Init => TimeInv /\ EndInv
<1> SUFFICES ASSUME Init PROVE TimeInv /\ EndInv
  OBVIOUS
<1>1. now = Start /\ since = Start /\ next_deadline = Start + Period
  BY DEF Init, SensorInit
<1>2. thread = "wait" /\ receiver = TRUE /\ stop = FALSE /\ consumer = "recv"
  BY DEF Init, SensorInit
<1> QED BY <1>1, <1>2, SensorAssumption, WatchAssumption DEF TimeInv, EndInv

LEMMA TimeStep == TypeOK /\ TimeInv /\ EndInv /\ [Next]_vars => TimeInv' /\ EndInv'
<1> SUFFICES ASSUME TypeOK, TimeInv, EndInv, [Next]_vars PROVE TimeInv' /\ EndInv'
  OBVIOUS
<1> USE SensorAssumption, WatchAssumption
        DEF TypeOK, SensorTypeOK, TimeInv, EndInv
<1>1. CASE TakeSample
  BY <1>1 DEF TakeSample, consumerVars
<1>2. CASE Deliver
  <2>1. /\ UNCHANGED <<now, receiver, stop, consumer, since>>
        /\ next_deadline' = next_deadline + Period
        /\ thread = "send" /\ Len(chan) < ChannelCap /\ receiver
        /\ thread' = IF stop THEN "done" ELSE "wait"
    BY <1>2 DEF Deliver, consumerVars
  <2> QED BY <2>1
<1>3. CASE ThreadEnds
  BY <1>3 DEF ThreadEnds, consumerVars
<1>4. CASE Receive
  BY <1>4 DEF Receive, threadVars
<1>5. CASE Pushed
  BY <1>5 DEF Pushed, threadVars
<1>6. CASE Cancelled
  BY <1>6 DEF Cancelled, threadVars
<1>7. CASE Check \/ StopWatching
  BY <1>7 DEF Check, StopWatching, sensorVars, threadVars, consumerVars
<1>8. CASE Advance
  <2>1. /\ now' = now + 1
        /\ UNCHANGED <<thread, next_deadline, chan, receiver, stop, consumer, since>>
    BY <1>8 DEF Advance, threadVars, consumerVars
  <2>2. /\ thread = "wait" => now < next_deadline + Lateness
        /\ thread = "send" => receiver /\ Len(chan) = ChannelCap
    BY <1>8 DEF Advance
  <2> QED BY <2>1, <2>2
<1>9. CASE UNCHANGED vars
  BY <1>9 DEF vars, sensorVars, threadVars, consumerVars
<1> QED BY <1>1, <1>2, <1>3, <1>4, <1>5, <1>6, <1>7, <1>8, <1>9
        DEF Next, Sensor, SensorNext

\* A cancelled task does not leave its thread behind for longer than a period,
\* whatever the channel's capacity and however full it was.
THEOREM ThreadsEnd == Spec => []ThreadEndsInTime
<1>1. Init => TypeOK /\ TimeInv /\ EndInv
  BY InitIsTyped, TimeInit
<1>2. TypeOK /\ TimeInv /\ EndInv /\ [Next]_vars => (TypeOK /\ TimeInv /\ EndInv)'
  BY StepIsTyped, TimeStep
<1>3. TypeOK /\ TimeInv /\ EndInv => ThreadEndsInTime
  BY SensorAssumption, WatchAssumption
     DEF TypeOK, SensorTypeOK, TimeInv, EndInv, ThreadEndsInTime
<1> QED BY <1>1, <1>2, <1>3, PTL DEF Spec

-----------------------------------------------------------------------------

\* While the task is stuck with a sample every sign of life of the thread fills
\* a place of the channel.
StuckInv ==
  consumer = "busy" =>
    /\ next_deadline <= since + Period * (Len(chan) + 1)
    /\ beatAt <= since + Period * Len(chan) + Lateness

\* The watchdog's last look was not long ago, and found what it reports.
LookInv ==
  /\ Start <= now /\ Start <= since
  /\ watching => /\ now <= nextCheck + Lateness
                 /\ nextCheck <= now + TicksPerS
                 /\ \/ reported
                    \/ nextCheck < beatAt + (Timeout + 2) * TicksPerS
                    \/ nextCheck < Start + TicksPerS

\* Not a whole second more than the limit apart: less than a second more.
LEMMA WholeSecondsUp ==
  ASSUME NEW a \in Nat, NEW b \in Nat, NEW S \in Nat \ {0}, NEW T \in Nat,
         (a \div S) - (b \div S) <= T
  PROVE  a + S < b + (T + 2) * S
<1> DEFINE q == a \div S
           r == b \div S
<1>1. q \in Nat /\ r \in Nat
  OBVIOUS
<1>2. a < S * q + S /\ b >= S * r
  OBVIOUS
<1>3. q <= r + T
  BY <1>1
<1> HIDE DEF q, r
<1>4. S * q <= S * (r + T)
  <2>1. PICK k \in Nat : r + T = q + k
    <3>1. (r + T) - q \in Nat
      BY <1>1, <1>3
    <3> WITNESS (r + T) - q \in Nat
    <3> QED BY <1>1
  <2>2. S * (r + T) = S * q + S * k /\ S * k \in Nat
    BY <1>1, <2>1
  <2> QED BY <1>1, <2>2
<1>5. S * (r + T) = S * r + S * T /\ (T + 2) * S = S * T + S + S
  BY <1>1
<1>6. S * q \in Nat /\ S * r \in Nat /\ S * T \in Nat
  BY <1>1
<1> QED BY <1>2, <1>4, <1>5, <1>6

LEMMA LookStep ==
  TypeOK /\ BeatInv /\ LookInv /\ [Next]_vars => LookInv'
<1> SUFFICES ASSUME TypeOK, BeatInv, LookInv, [Next]_vars PROVE LookInv'
  OBVIOUS
<1> USE SensorAssumption, WatchAssumption
        DEF TypeOK, SensorTypeOK, LookInv
<1> DEFINE allowed == (Timeout + 2) * TicksPerS
<1>0. allowed \in Nat /\ allowed > TicksPerS
  <2>1. allowed = Timeout * TicksPerS + TicksPerS + TicksPerS
        /\ Timeout * TicksPerS \in Nat
    OBVIOUS
  <2> QED BY <2>1
<1>1. CASE Sensor
  <2>1. now' = now /\ UNCHANGED <<watching, nextCheck>>
        /\ (since' = since \/ since' = now) /\ (beatAt' = beatAt \/ beatAt' = now)
    BY <1>1 DEF Sensor, SensorNext, TakeSample, Deliver, ThreadEnds, Receive,
                Pushed, Cancelled, threadVars, consumerVars
  <2>2. reported => reported' \/ beatAt' = now
    BY <1>1, <2>1 DEF Sensor
  <2>3. beatAt <= now
    BY DEF BeatInv
  <2> HIDE DEF allowed
  <2>4. watching /\ beatAt' = now => nextCheck' < beatAt' + allowed
    BY <1>0, <2>1
  <2> QED BY <2>1, <2>2, <2>4 DEF allowed
<1>2. CASE Check
  <2>1. /\ now >= nextCheck /\ nextCheck' = nextCheck + TicksPerS
        /\ reported' = (reported \/ IsStale(heartbeat))
        /\ UNCHANGED <<now, since, beatAt, watching>> /\ watching
    BY <1>2 DEF Check, sensorVars, threadVars, consumerVars
  <2>2. ~IsStale(heartbeat) => nextCheck' < beatAt' + allowed
    <3>1. SUFFICES ASSUME ~IsStale(heartbeat) PROVE nextCheck' < beatAt' + allowed
      OBVIOUS
    <3>2. (now \div TicksPerS) - (beatAt \div TicksPerS) <= Timeout
      <4> DEFINE seconds == now \div TicksPerS
      <4>1. seconds \in Nat
        OBVIOUS
      <4> HIDE DEF seconds
      <4>2. seconds - heartbeat <= Timeout
        <5>1. (heartbeat = 0 /\ seconds < Timeout) \/ ~(seconds - heartbeat > Timeout)
          BY <3>1 DEF IsStale, seconds
        <5> QED BY <4>1, <5>1
      <4> QED BY <4>2 DEF seconds, BeatInv
    <3>3. now + TicksPerS < beatAt + allowed
      BY <3>2, WholeSecondsUp
    <3> HIDE DEF allowed
    <3> QED BY <1>0, <2>1, <3>3
  <2>3. now' <= nextCheck' + Lateness /\ nextCheck' <= now' + TicksPerS
    BY <2>1
  <2> QED BY <2>1, <2>2, <2>3
<1>3. CASE Advance
  BY <1>3 DEF Advance, threadVars, consumerVars
<1>4. CASE StopWatching \/ UNCHANGED vars
  BY <1>4 DEF StopWatching, vars, sensorVars, threadVars, consumerVars
<1> QED BY <1>1, <1>2, <1>3, <1>4 DEF Next

LEMMA StuckStep ==
  TypeOK /\ TimeInv /\ BeatInv /\ StuckInv /\ [Next]_vars => StuckInv'
<1> SUFFICES ASSUME TypeOK, TimeInv, BeatInv, StuckInv, [Next]_vars,
                    consumer' = "busy"
             PROVE  /\ next_deadline' <= since' + Period * (Len(chan') + 1)
                    /\ beatAt' <= since' + Period * Len(chan') + Lateness
  BY DEF StuckInv
<1> USE SensorAssumption, WatchAssumption
        DEF TypeOK, SensorTypeOK, TimeInv, BeatInv, StuckInv
<1>0. /\ Len(chan) \in Nat /\ Period * Len(chan) \in Nat
      /\ Period * (Len(chan) + 1) = Period * Len(chan) + Period
  OBVIOUS
<1>1. CASE TakeSample
  <2>1. UNCHANGED <<chan, consumer, since, next_deadline, beatAt, now>>
        /\ thread = "wait"
    BY <1>1 DEF TakeSample, consumerVars
  <2> QED BY <1>0, <2>1
<1>2. CASE Deliver
  <2>1. /\ UNCHANGED <<consumer, since, now>> /\ beatAt' = now /\ thread' # "send"
        /\ next_deadline' = next_deadline + Period
        /\ thread = "send" /\ Len(chan) < ChannelCap
    BY <1>2 DEF Deliver, consumerVars
  <2>2. Len(chan') = Len(chan) + 1
    BY <1>2 DEF Deliver
  <2>3. Period * (Len(chan') + 1) = Period * Len(chan) + Period + Period
        /\ Period * Len(chan') = Period * Len(chan) + Period
    BY <1>0, <2>2
  <2> QED BY <1>0, <2>1, <2>3
<1>3. CASE Receive
  <2>1. since' = now /\ UNCHANGED <<now, next_deadline, beatAt, thread>>
        /\ thread # "done"
    BY <1>3 DEF Receive, threadVars
  <2>2. Len(chan') \in Nat
    BY <1>3 DEF Receive
  <2>3. Period * Len(chan') \in Nat
        /\ Period * (Len(chan') + 1) = Period * Len(chan') + Period
    BY <2>2
  <2>4. next_deadline <= now + Period /\ beatAt <= now
    BY <2>1
  <2> QED BY <2>1, <2>3, <2>4
<1>4. CASE ThreadEnds
  BY <1>4 DEF ThreadEnds, consumerVars
<1>5. CASE Pushed \/ Cancelled
  BY <1>5 DEF Pushed, Cancelled
<1>6. CASE Check \/ StopWatching \/ UNCHANGED vars
  BY <1>6 DEF Check, StopWatching, vars, sensorVars, threadVars, consumerVars
<1>7. CASE Advance
  BY <1>7 DEF Advance, threadVars, consumerVars
<1> QED BY <1>1, <1>2, <1>3, <1>4, <1>5, <1>6, <1>7 DEF Next, Sensor, SensorNext

\* A task that is stuck is reported although it has no heartbeat, for every
\* capacity of the channel and every period: the time it takes is bounded by
\* the time the channel takes to fill up and the watchdog to notice.
THEOREM StuckTasksAreReported == Spec => []StuckTaskIsReported
<1> DEFINE SInv == TypeOK /\ TimeInv /\ EndInv /\ BeatInv /\ LookInv /\ StuckInv
<1>1. Init => SInv
  <2>1. Init => LookInv
    BY SensorAssumption, WatchAssumption DEF Init, SensorInit, LookInv
  <2>2. Init => StuckInv
    BY DEF Init, SensorInit, StuckInv
  <2> QED BY <2>1, <2>2, InitIsTyped, InitInv, TimeInit
<1>2. SInv /\ [Next]_vars => SInv'
  BY StepIsTyped, TimeStep, BeatStep, LookStep, StuckStep
<1>3. SInv => StuckTaskIsReported
  <2> SUFFICES ASSUME SInv, watching, consumer = "busy", ~reported,
                      now - since >= NoticedWithin
               PROVE  FALSE
    BY DEF StuckTaskIsReported
  <2> USE SensorAssumption, WatchAssumption DEF TypeOK, SensorTypeOK
  <2> DEFINE allowed == (Timeout + 2) * TicksPerS
             full == ChannelCap * Period
             filled == Period * Len(chan)
  <2>1. full \in Nat /\ filled \in Nat /\ filled <= full
    <3>1. PICK k \in Nat : ChannelCap = Len(chan) + k
      <4>1. ChannelCap - Len(chan) \in Nat
        OBVIOUS
      <4> WITNESS ChannelCap - Len(chan) \in Nat
      <4> QED OBVIOUS
    <3>2. full = filled + Period * k /\ Period * k \in Nat /\ filled \in Nat
      BY <3>1
    <3> QED BY <3>2
  <2>2. allowed = Timeout * TicksPerS + TicksPerS + TicksPerS
        /\ Timeout * TicksPerS \in Nat
    OBVIOUS
  <2>3. now - since >= full + allowed + 2 * Lateness
    BY DEF NoticedWithin
  <2>4. beatAt <= since + filled + Lateness
    BY DEF StuckInv
  <2>5. /\ now <= nextCheck + Lateness /\ Start <= since
        /\ nextCheck < beatAt + allowed \/ nextCheck < Start + TicksPerS
    BY DEF LookInv
  <2> HIDE DEF allowed, full, filled
  <2> QED BY <2>1, <2>2, <2>3, <2>4, <2>5
<1> QED BY <1>1, <1>2, <1>3, PTL DEF Spec
=============================================================================
