----------------------------- MODULE SensorTask -----------------------------
(***************************************************************************)
(* How a sensor is sampled (satellite/src/sensor.rs): a thread of its own  *)
(* keeps the period and measures how well it does, a bounded channel takes *)
(* its samples to the task that counts misses and fills the buffer.  The   *)
(* three sensors differ in their constants; only the thermal task counts.  *)
(* What the count leads to, and the buffer, is in ThermalSensor.           *)
(*                                                                         *)
(* Time is counted in ticks from the start of the simulation.              *)
(***************************************************************************)
EXTENDS Integers, Sequences

CONSTANTS Period,      \* THERMAL_PERIOD_MS
          JitterLimit, \* THERMAL_JITTER_LIMIT_US
          ChannelCap,  \* samples the channel holds (256)
          Start,       \* when the thread starts
          TicksPerS    \* ticks of a second

ASSUME SensorAssumption ==
  /\ Period \in Nat \ {0} /\ ChannelCap \in Nat \ {0} /\ TicksPerS \in Nat \ {0}
  /\ JitterLimit \in Nat /\ Start \in Nat

VARIABLES now,            \* the clock
          thread,         \* "wait", "send" or "done"
          next_deadline,
          seq,
          prev,           \* prev_actual_start_us, or -1 for None
          sample,         \* the sample taken last
          chan,           \* samples in the channel
          receiver,       \* does the channel's receiver exist?
          stop,           \* the flag that ends the thread
          heartbeat,      \* in whole seconds
          beatAt,         \* history: when it was stored
          consumer,       \* the async task: "recv", "busy" or "done"
          consecutive_miss,
          latest,         \* history: was the last sample received late?
          lateInRun,      \* history: late samples in or right before the misses
          since           \* history: when the consumer last changed its state

threadVars == <<thread, next_deadline, seq, prev, sample, heartbeat, beatAt>>
consumerVars == <<stop, receiver, consumer, consecutive_miss, latest,
                  lateInRun, since>>
sensorVars == <<now, threadVars, chan, consumerVars>>

Abs(n) == IF n < 0 THEN -n ELSE n

\* Only whether they exceed the limit is told of the sample's jitter and drift.
Sample == [miss : BOOLEAN, late : BOOLEAN]

SensorInit ==
  /\ now = Start
  /\ thread = "wait" /\ next_deadline = Start + Period
  /\ seq = 0 /\ prev = -1
  /\ sample = [miss |-> FALSE, late |-> FALSE]
  /\ chan = <<>> /\ receiver = TRUE /\ stop = FALSE
  /\ heartbeat = 0 /\ beatAt = 0
  /\ consumer = "recv" /\ consecutive_miss = 0
  /\ latest = FALSE /\ lateInRun = 0 /\ since = Start

-----------------------------------------------------------------------------
(* The thread. *)

\* From the interval since the last sample, the nominal one for the first.
Jitter(start) == IF prev = -1 THEN 0 ELSE Abs((start - prev) - Period)

\* From the time the sample of this number was due.
Drift(start) == Abs(start - (Start + (seq + 1) * Period))

\* The thread wakes up at its deadline, or some time after it.
TakeSample ==
  /\ thread = "wait"
  /\ now >= next_deadline
  /\ ~stop
  /\ sample' = [miss |-> Jitter(now) > JitterLimit, late |-> Drift(now) > JitterLimit]
  /\ prev' = now
  /\ thread' = "send"
  /\ UNCHANGED <<now, next_deadline, seq, heartbeat, beatAt, chan, consumerVars>>

\* A mutant: a sample that finds the channel full is dropped.
Deliver_Dropping ==
  /\ thread = "send"
  /\ receiver
  /\ chan' = IF Len(chan) < ChannelCap THEN Append(chan, sample) ELSE chan
  /\ heartbeat' = now \div TicksPerS
  /\ beatAt' = now
  /\ seq' = seq + 1
  /\ next_deadline' = next_deadline + Period
  /\ thread' = IF stop THEN "done" ELSE "wait"
  /\ UNCHANGED <<now, prev, sample, consumerVars>>

\* The sample is sent, as soon as there is room for it.  The next deadline is
\* counted from this one, so that the thread makes up for lost time.
Deliver ==
  /\ thread = "send"
  /\ receiver
  /\ Len(chan) < ChannelCap
  /\ chan' = Append(chan, sample)
  /\ heartbeat' = now \div TicksPerS
  /\ beatAt' = now
  /\ seq' = seq + 1
  /\ next_deadline' = next_deadline + Period
  /\ thread' = IF stop THEN "done" ELSE "wait"
  /\ UNCHANGED <<now, prev, sample, consumerVars>>

\* The send fails, or the flag is seen when the thread wakes up.
ThreadEnds ==
  /\ \/ thread = "send" /\ ~receiver
     \/ thread = "wait" /\ now >= next_deadline /\ stop
  /\ thread' = "done"
  /\ UNCHANGED <<now, next_deadline, seq, prev, sample, heartbeat, beatAt,
                 chan, consumerVars>>

-----------------------------------------------------------------------------
(* The task. *)

\* A mutant: a sample in time does not end a run of misses.
Receive_NoReset ==
  /\ consumer = "recv"
  /\ chan # <<>>
  /\ chan' = Tail(chan)
  /\ latest' = Head(chan).late
  /\ IF Head(chan).miss
     THEN /\ consecutive_miss' = consecutive_miss + 1
          /\ lateInRun' = (IF consecutive_miss = 0 /\ latest THEN 1 ELSE lateInRun)
                            + (IF latest' THEN 1 ELSE 0)
     ELSE UNCHANGED consecutive_miss /\ lateInRun' = 0
  /\ consumer' = "busy"
  /\ since' = now
  /\ UNCHANGED <<now, threadVars, stop, receiver>>

\* A sample is received; what is done with it takes as long as it takes.
Receive ==
  /\ consumer = "recv"
  /\ chan # <<>>
  /\ chan' = Tail(chan)
  /\ latest' = Head(chan).late
  /\ IF Head(chan).miss
     THEN /\ consecutive_miss' = consecutive_miss + 1
          /\ lateInRun' = (IF consecutive_miss = 0 /\ latest THEN 1 ELSE lateInRun)
                            + (IF latest' THEN 1 ELSE 0)
     ELSE consecutive_miss' = 0 /\ lateInRun' = 0
  /\ consumer' = "busy"
  /\ since' = now
  /\ UNCHANGED <<now, threadVars, stop, receiver>>

\* The sample is in the buffer.
Pushed ==
  /\ consumer = "busy"
  /\ consumer' = "recv"
  /\ since' = now
  /\ UNCHANGED <<now, threadVars, chan, stop, receiver, consecutive_miss,
                 latest, lateInRun>>

\* A mutant: the receiver lives on, with the samples nobody will take.
Cancelled_KeepReceiver ==
  /\ consumer = "recv"
  /\ stop' = TRUE
  /\ consumer' = "done"
  /\ since' = now
  /\ UNCHANGED <<now, threadVars, chan, receiver, consecutive_miss, latest,
                 lateInRun>>

\* The cancel branch: the thread is told, and the receiver is dropped.
Cancelled ==
  /\ consumer = "recv"
  /\ stop' = TRUE
  /\ receiver' = FALSE
  /\ chan' = <<>>
  /\ consumer' = "done"
  /\ since' = now
  /\ UNCHANGED <<now, threadVars, consecutive_miss, latest, lateInRun>>

SensorNext == \/ TakeSample \/ Deliver \/ ThreadEnds
              \/ Receive \/ Pushed \/ Cancelled

SensorTypeOK ==
  /\ now \in Nat /\ next_deadline \in Nat /\ seq \in Nat /\ prev \in Nat \cup {-1}
  /\ thread \in {"wait", "send", "done"} /\ sample \in Sample
  /\ chan \in Seq(Sample) /\ Len(chan) <= ChannelCap
  /\ receiver \in BOOLEAN /\ stop \in BOOLEAN
  /\ heartbeat \in Nat /\ beatAt \in Nat
  /\ consumer \in {"recv", "busy", "done"} /\ since \in Nat
  /\ consecutive_miss \in Nat /\ latest \in BOOLEAN /\ lateInRun \in Nat
=============================================================================
