---------------------------- MODULE SensorWatch ----------------------------
(***************************************************************************)
(* A sensor under the eyes of the watchdog (satellite/src/watchdog.rs; the *)
(* ground station's, ground/src/watchdog.rs, is the same), and the clock.  *)
(* The watchdog looks at the heartbeat once a second and compares whole    *)
(* seconds.  The heartbeat is the thread's: what the watchdog learns of    *)
(* the task behind the channel, it learns from the channel filling up.     *)
(***************************************************************************)
EXTENDS SensorTask

CONSTANTS Timeout,   \* WATCHDOG_TIMEOUT_S
          Lateness,  \* how late the thread, and the watchdog, may wake up
          MaxTime    \* bound: the clock stops here

ASSUME WatchAssumption ==
  /\ Timeout \in Nat /\ Lateness \in Nat /\ MaxTime \in Nat

VARIABLES watching,  \* has the watchdog not been cancelled?
          nextCheck, \* when its interval ticks next
          reported   \* was the task found stale since its last heartbeat?

vars == <<sensorVars, watching, nextCheck, reported>>

Init == /\ SensorInit
        /\ watching = TRUE
        /\ nextCheck \in Start..(Start + TicksPerS - 1)
        /\ reported = FALSE

\* A mutant: a task is stale as soon as the limit is reached.
IsStale_AtLimit(last) ==
  LET seconds == now \div TicksPerS
  IN ~(last = 0 /\ seconds < Timeout) /\ seconds - last >= Timeout

\* A heartbeat that was never stored is excused at first.
IsStale(last) ==
  LET seconds == now \div TicksPerS
  IN ~(last = 0 /\ seconds < Timeout) /\ seconds - last > Timeout

\* The watchdog's interval ticks; missed ticks are made up for.
Check == /\ watching
         /\ now >= nextCheck
         /\ nextCheck' = nextCheck + TicksPerS
         /\ reported' = (reported \/ IsStale(heartbeat))
         /\ UNCHANGED <<sensorVars, watching>>

StopWatching == /\ watching
                /\ watching' = FALSE
                /\ UNCHANGED <<sensorVars, nextCheck, reported>>

\* A heartbeat takes the report back.
Sensor == /\ SensorNext
          /\ reported' = (reported /\ beatAt' = beatAt)
          /\ UNCHANGED <<watching, nextCheck>>

\* Time passes, unless thread or watchdog would be later than they may be.  The
\* task's side of the channel may be kept waiting for any time.
Advance == /\ now < MaxTime
           /\ thread = "wait" => now < next_deadline + Lateness
           /\ thread = "send" => receiver /\ Len(chan) = ChannelCap
           /\ watching => now < nextCheck + Lateness
           /\ now' = now + 1
           /\ UNCHANGED <<threadVars, chan, consumerVars, watching, nextCheck,
                          reported>>

Next == Sensor \/ Check \/ StopWatching \/ Advance

Spec == Init /\ [][Next]_vars

-----------------------------------------------------------------------------

\* Types of the whole state.
TypeOK == SensorTypeOK /\ watching \in BOOLEAN /\ nextCheck \in Nat
            /\ reported \in BOOLEAN

\* Jitter is the change of drift, so a late sample makes two misses, its own
\* and its successor's, and no more: it takes at least two late samples to make
\* the three misses in a row that declare a fault, whether the thread wakes up
\* late, is held up by a full channel, or catches up in a burst.
MissesComeFromLateSamples == consecutive_miss <= 2 * lateInRun

\* The whole seconds the watchdog compares are rounded down twice, but never
\* make a task stale that has sent a sign of life within the limit.
NoFalseAlarm == reported => now - beatAt > Timeout * TicksPerS

\* How long a task may be stuck before the watchdog says so: until the channel
\* is full, and then until the silence is noticed.
NoticedWithin == ChannelCap * Period + (Timeout + 2) * TicksPerS + 2 * Lateness

\* A task stuck with a sample, say on the buffer's mutex, is reported, although
\* it has no heartbeat of its own.
StuckTaskIsReported ==
  watching /\ consumer = "busy" /\ now - since >= NoticedWithin => reported

\* The thread outlives its task by a period at most, even if it was held up by
\* a full channel: the runtime waits for it when the program ends.
ThreadEndsInTime ==
  consumer = "done" /\ now - since > Period + Lateness => thread = "done"
=============================================================================
