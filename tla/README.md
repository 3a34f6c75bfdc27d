# TLA+ verification of the satellite / ground control simulation

This directory holds TLA+ models of the Rust workspace `satellite-gcs-rts`, the TLC
configurations that check them on small instances, and theorems about them checked by
TLAPS. Paths below are relative to `src/satellite-gcs-rts/`. `PROJECT.json` lists the
runs, the source lines behind every definition, the mutants and the hazards.

    tlc -workers 2 -config MCSatellite.cfg MCSatellite
    tlapm SatelliteProofs.tla

## 1. The system

Two programs, each a set of tokio tasks on a multi-threaded runtime, joined by one TCP
connection: the satellite sends telemetry and fault packets, the ground station commands.

### Satellite (`satellite/src`)

| Component | State | Operations | What must hold |
|---|---|---|---|
| sensor buffer, `buffer.rs` | vector of readings, counters, cached degraded flag | `push`, `pop` under one mutex | a bounded best-first queue; each sensor's readings by age; exact counters; flag never stale |
| sensor tasks, `sensor.rs` | a timing thread: deadline, number, last start; a bounded channel; a task: run of jitter misses | sample, deliver, receive, alert, push, cancel | a run of misses takes late samples; an alert declares a fault, never revives an aborted mission; the thread ends with its task |
| command execution, `uplink_rx.rs` | - | one handler per command, end of connection, cancel | only the allowed mode changes |
| downlink, `downlink.rs` | window: degraded flag, abort flag, packet count | forward faults, read flags, adjust mode, up to 10 sends, cancel | bounded telemetry after an abort; faults always forwarded |
| telemetry cache, `telemetry_cache.rs` | last 512 sent packets per sensor | `record`, `get` | a number once; only what was sent |
| fault injector, `fault.rs` | circuit, polls, consumed cancel signal | inject, notify, wait, abort, stop, cancel | a recovery is earned; an open circuit means an aborted mission |
| mode, `state.rs` | `SystemState` under a mutex | written by four tasks | the state machine of `MissionModes` |
| scheduler, `scheduler.rs` | per task: next release, work left, counters | one quantum per tick | deadlines, true preemption log, no release skipped |
| watchdog, `watchdog.rs` | reads heartbeats | logs stale ones once a second | no false alarm; a stuck task is noticed in bounded time |
| `main.rs`, `ui.rs` | cancel signal, join handles | start, cancel, join | the join ends |

### Ground station (`ground/src`)

| Component | State | Operations | What must hold |
|---|---|---|---|
| telemetry reception, `telemetry_rx.rs` | last numbers, runs of gaps and delays | frame, quiet time, end of connection | a loss is noticed; requests come to rest; loss of contact declared and ended |
| fault manager, `fault_mgr.rs` | - | interlock, alert, SafeMode, detached timer with ResetSensor | the interlock ends; SafeMode before ResetSensor |
| uplink, `uplink_tx.rs` | command in hand | take, check state, reject or dispatch | emergencies always pass; others hardly slip through |
| session loop, `main.rs` | session token, task handles | accept, heartbeat, cleanup, end of the program | cleanup ends; what the old session leaves in the queue does the next no harm; a cancel signal ends the loop wherever it is |
| state and queue | `GcsSystemState`, heap of commands; both outlive sessions | written by three tasks and the timers | |
| watchdog | the satellite's program | | as there |
| `perf_monitor.rs`, `ui.rs` | - | log and display | |

### How the parts interact, and what is hard

* The satellite's mode is written by command execution, thermal task, injector and downlink.
  The downlink decides on flags it read before it let go of the mutex, and goes on sending
  on the strength of an abort flag read once per window.
* The injector waits for exactly `Nominal`, polling; another task may change the mode
  between the reset and the next poll. Its wait also listens to the cancel signal and
  consumes it.
* The fault channel is bounded and the downlink forwards without timeout.
* On the ground, the uplink takes a command, then reads the state, then sends: three steps.
* The timer that lifts the interlock and sends the reset is a detached task: it outlives the
  session, while a session may end between setting the interlock and spawning the timer.
* State and queue survive a session; the rest is rebuilt. The queue is emptied before the
  session's tasks are waited for, so that one of them, held up, may still push.
* A command that finds the writer full is given up after 2 ms; one that is flushed late goes out.
* The scheduler's missed ticks fire in a burst, and so do a late sensor's samples.
* A send that times out leaves its frame in the writer; the frame arrives, but is not in the
  cache. Retransmissions take the same road as fresh packets and come out of order.
* The session loop listens to the cancel signal only between sessions; during one the signal
  has to reach it through the tasks of the session.
* Each direction of the connection ends when the one task that holds its write half returns:
  one direction may be dead while the other works.
* A sensor's heartbeat is stored by the thread in front of the channel, not by the task
  behind it.

The full list, line by line, is under `hazards` in `PROJECT.json`.

## 2. The modules

| Module | Models | Uses |
|---|---|---|
| `Packets` | sensors, priorities, commands | |
| `RetentionQueue` | abstract: a bounded best-first queue | |
| `SensorBuffer` | `buffer.rs` as written | `RetentionQueue` |
| `MissionModes` | abstract: the modes and their changes | |
| `SatelliteShared` | what the satellite's tasks share | `Packets` |
| `ThermalSensor`, `UplinkRx`, `DownlinkTx`, `FaultInjector` | one task each | `SatelliteShared` |
| `Satellite` | all tasks, cancel signal, fairness, properties | the four tasks, `MissionModes` |
| `RmsScheduler` | `scheduler.rs` | |
| `SensorTask` | timing thread, channel and task of a sensor, in time | |
| `SensorWatch` | the clock and the watchdog, properties | `SensorTask` |
| `GroundShared` | what the ground station's tasks share | `Packets` |
| `FaultMgr`, `UplinkTx`, `TelemetryRx` | one task each, and the heartbeat | `GroundShared` |
| `GroundControl` | session loop, cancel signal, all tasks, fairness, properties | the three tasks |
| `GroundDispatch` | `GroundControl` with what the uplink has sent remembered | `GroundControl` |
| `TelemetryStream` | abstract: the numbers a station hears, upwards only | |
| `TelemetryLink` | one sensor's packets down, requests up, and the cache | `TelemetryStream` |
| `MissionControl` | both programs and the connection between them | `Satellite`, `GroundControl` |
| `SensorBufferProofs`, `SatelliteProofs`, `TelemetryLinkProofs`, `SensorWatchProofs`, `RmsSchedulerProofs`, `GroundControlProofs`, `MissionControlProofs` | theorems | the module they are named after |
| `CommonFacts` | lemmas: least and greatest elements, induction up to a number, a SafeMode and the reset behind it | |
| `MC...` | instances for TLC | |

**Atomicity.** An action is what a task does between two points where it may be suspended
with no mutex held. A `lock().await` followed by straight code up to the release is one
action. A read under one lock and a write under a later one are two actions.

**State.** A task's position in its loop is a program counter (`dpc`, `ipc`, `tpc`, `fpc`,
`upc`, `hpc`, `rpc`, `tx`, `thread`, `consumer`); locals that survive a suspension are
variables with the names of the source where it has one. Variables marked "history" record
what happened and are read by properties only; none is read by a guard. History that only
one run needs is kept out of the others (`GroundDispatch`).

**Abstractions.** In `SatelliteShared` the buffer is a count of critical (thermal) and of
other readings, because that is all the downlink distinguishes. `SensorBuffer` is the
detailed buffer; that its flag is always current (`DegradedIsCurrent`, proved) is what
allows `IsDegraded` to be computed from the counts. Time is left out of `Satellite`: the
recovery limit is a number of polls (`RecoveryPolls`, 20 in the code), and how a poll falls
relative to other tasks is open. In `TelemetryRx` it is left open whether a frame reveals a
gap, and whether a `try_lock` succeeds. In `GroundShared` the heap of commands is one queue
per priority. `RmsScheduler` counts milliseconds; in the millisecond of a deadline the finer
digits of the clock are a nondeterministic choice.

In `GroundControl` the end of a session has the code's four steps (`main.rs:246-259`): the token is
cancelled ("ending"), 50 ms later the queue is emptied whatever the tasks do ("cleared"), all tasks
have returned ("over"), the next connection is accepted ("up") or the loop ends ("closed"). A task
sees the token when it can, the heartbeat not between its tick and its push.

`TelemetryLink` follows one sensor: rings, last numbers and requests are per sensor in the
code. The buffer is what may leave next: any reading no older than the last. That is what
`PopsInSampleOrder` (proved) gives: a sensor's readings leave by age, and of two with one
timestamp, between which `max_by` chooses by their places in the vector (`buffer.rs:104`), the
later may leave first. `Stamp`, a constant, assigns each number its timestamp. Readings the
buffer dropped or a degraded window threw away are numbers passed over. A frame whose send timed
out (`SendLate`) is on the wire but not in the cache; one whose send failed is in neither.

`MissionControl` instantiates both programs and joins them: what one leaves open as its
environment is what the other does. A fault packet arrives because the downlink forwarded
it, a command because the uplink dispatched it, and a direction ends because the task that
holds its write half returned. A command that the full writer does not take within its
deadline is gone (`CommandUnsent`), one that it takes arrives (`CommandSent`), in time or with the
next. It is about faults and about shutting down: sensors, quiet
times and the heartbeat are silent there, because with them the product of the two programs
is out of reach; what they do is in the modules of their own side.

`SensorTask` counts time in ticks. The thread wakes up at its deadline or at most `Lateness`
later, the channel holds it up as long as it is full, and the task may take any time for a
sample. Of jitter and drift a sample carries whether they exceed the limit.

## 3. The runs

Mutants: every property of a passing run is violated when one definition of the model is
replaced by its `..._Something` variant, a plausible bug of the code that stands next to it.

| Run | Configuration | Question |
|---|---|---|
| `sensor_buffer` | 5 places (so that 80% is hit exactly), 3 readings of each of 3 sensors, 2 timestamps (ties) | Does the scanned vector with `swap_remove` implement `RetentionQueue`, by age, with exact counters? |
| `satellite` | all writers of the mode, one canceller, buffer and window of 2 | Do stale flags and four writers add up to `MissionModes`? Is telemetry after an abort bounded by a window? Is a recovery earned? |
| `satellite_live` | one task of sensors, buffer and window of 1, one poll, two senders of the cancel signal | Does a fault end, does its packet leave, do all tasks return, even if the injector consumed a signal? |
| `rms` | periods 4, 8, 12, work 1, 2, 3; stalls of up to 36 ms in 48 | Are deadlines met with ticks up to 2 ms late (at 3 ms one is missed)? Does the burst after a stall catch up, is no job lost, is the preemption log true? |
| `ground` | one session; two overlapping faults, late interlocks, losses of contact | At most one command slips through; SafeMode precedes ResetSensor; an interlock always has a timer |
| `ground_live` | connections close and open, any number of times; the cancel signal at any moment | A fault is answered by a reset that is sent; cleanup ends; no request outlasts it, and no SafeMode without its reset; the program ends |
| `link` | 5 readings, the second and third of one timestamp, cache of 2, retransmission queue of 1, 2 frames and 2 requests on their way; corruption, contention, late and failed sends | Is a loss noticed? Is the cache free of duplicates? Do retransmissions bring anything that was passed over? Do requests come to rest? |
| `mission` | one fault after the other, one poll, one frame in each direction, so that a command may find no room; either side shuts down | Does every fault's reset come back round, once, unless it finds no room, does safe mode end, does each side notice the other's end? |
| `sensor_watch` | period 2, a second of 3 ticks, channel of 1, lateness 2, limit 1 s, until tick 20 | What makes a miss, when does the watchdog report, how long does a thread outlive its task? |

Why the bounds are enough: a buffer of two with windows of two has all fill levels the
downlink tells apart (empty, below, at the threshold, full), windows that end early and
windows cut off by the count, and makes the abort arrive before, in and after a window. One
miss (`MissAlert = 1`) lets the alert interleave with everything else. Two polls distinguish
the first poll, a later one, and the timeout. The proofs cover all other values. In `ground`,
two faults overlap in every way, and one place per lane of routine commands is enough to
compete with emergencies. `GapLimit` is 3 in the code; 2 and 1 keep the states "none, some,
enough". In `link`, five readings leave two in the cache and push three out; a request may
find its packet, find it evicted, find it never sent, and be dropped on the ground or pushed
out of the queue; two frames on the wire let a repeated one stand before and behind a fresh
one; with the timestamps 0, 1, 1, 2, 3 two readings may leave in reverse, with older and younger ones around them. In `mission` each direction may be empty or full, so that the downlink waits and a command is given up. In
`sensor_watch` a period and a half make a second, so that deadlines fall on every phase of
the watchdog's clock, the channel is full and empty, and 20 ticks exceed the 15 that
`NoticedWithin` allows by a whole sequence of stall and recovery. The properties of `link`
and `sensor_watch` that are invariants are proved for all values.

`CHECK_DEADLOCK FALSE` everywhere: the programs are meant to stop when cancelled, the
buffer's environment stops after `MaxSamples`, the scheduler's clock at `MaxTime` and the
sensor's likewise, the link's sensor at `MaxSeq`, and in `ground` a full lane of the model may
make everything wait for nothing more to arrive.

### What the runs show beyond a yes

* **Retransmission recovers nothing** (`ImplementsStream`). A packet enters the cache after it
  was put on the wire, and TCP delivers in order: what the cache can answer with has been heard
  already, or was corrupted when it was cached and arrives corrupted again. What is missing
  (thrown away by a degraded window, failed, dropped by the buffer) is not in the cache.
* **Readings of one timestamp may leave in reverse** (`PopsInSampleOrder`, `LossIsNoticed`). The
  station then takes the later for a gap and the earlier for news. Two never hide a loss of a
  younger reading; but of three tied readings at the very start the third may come first, then
  the first, and that the second is missing is never noticed: `LossIsNoticed` speaks of readings
  younger than the first of the two around them.
* **What outlasts a session** (`LeftoversAreSound`): a reset whose timer fired after the queue was
  emptied, a SafeMode with its reset behind it, and a heartbeat that was held up between its tick and
  its push. Requests do not, because the task that makes them is gone before.
* **A full writer costs a reset** (`SafeModeIsTemporary`): a reset that finds no room for 2 ms is
  given up and nothing repeats it; the satellite then stays in safe mode until a later fault ends it. It
  takes a satellite that does not read for as long as the socket's buffers last.
* **A repeat causes a gap** (`find_phantom_loss`). `last_seq` follows the repeated packet
  backwards; the next fresh packet then looks like a gap and is answered by one more request.
  One request can so start a chain that lasts as long as the sensor sends; it does come to
  rest once the sensor is silent (`RequestsSettle`).
* **A late sample is two misses**: jitter is the difference of two drifts, so both the late
  sample and the next count. Three misses in a row, a fault, take two late samples
  (`MissesComeFromLateSamples`); a single stall longer than a period makes several late
  samples in its catch-up burst and is enough.
* **The watchdog's excuse for a zero heartbeat is redundant**: in the first ten seconds the
  difference to zero cannot exceed ten. And a task stuck behind the channel is reported
  only when the channel is full: for the thermal sensor after 256 periods of 100 ms and some
  eleven seconds, 37 s in all (`NoticedWithin`).
* **The stop flag and the dropped receiver** each end the timing thread alone, except for one
  blocked on a full channel, which only the dropped receiver releases (`ThreadEndsInTime`).
* **A station that shuts down leaves the satellite's uplink unharmed** but deaf; the satellite
  works on without it, and its next fault ends in an abort (`StationEndIsNoticed`, `FaultEnds`).

### Fairness

`Satellite!FairSpec`: weak fairness of each task's own work, because the runtime polls every
ready task, timers fire and the peer reads its socket (a fault is forwarded without a timeout,
`downlink.rs:127`, so `FaultsAreForwarded` says nothing of a station that no longer reads); strong fairness of each cancel branch,
because `select!` picks a ready branch at random and the branch is ready again at each turn
of the loop. Samples, commands and the quit key need never come: no fairness. In
`GroundControl!FairSpec` likewise for fault manager, timers, uplink, a heartbeat once begun,
the cleanup and the cancel branches, the heartbeat's branch on the session's token among the
strongly fair ones; nothing need ever arrive from the satellite, and no cancel
signal be sent. `FaultIsAnswered` is checked with one fault at a time; overlapping faults are in
`ground` (`InterlockIsTimed`, `ResetFollowsSafeMode`). `TelemetryLink!FairSpec`: weak fairness of downlink, requests and reception,
none of quiet times. `MissionControl!FairSpec` states less than the two sides apart: each
goes on with what it began, the network delivers, cancel branches and the reads that compete
with them in a `select!` are strongly fair, and nothing else is.

### What the comments say and the code does not

Three runs each show one statement of a comment, or of a log line, violated by what the code
does; `findings` in `PROJECT.json` quotes them.

| Run | Statement |
|---|---|
| `find_missed_reset` | the mission is aborted when recovery takes too long: also when a reset in time is not seen by a poll |
| `find_stuck_interlock` | the interlock resolves itself after 50 ms: not if the session ends before the timer is spawned |
| `find_phantom_loss` | a gap is a packet loss, a request is for missed packets: after a repeat, neither |

Other differences, each visible in one definition of the models:

* in an abort telemetry is said to be halted (`downlink.rs:139`), but a window that looked
  earlier goes on (`AtMostOneBatchAfterAbort` bounds it);
* `ResetSensor` is said to be sent "to clear its fault/abort state" (`fault_mgr.rs:109`), but in
  `MissionAbort` the satellite blocks it like every other command (`uplink_rx.rs:136-146`): an abort is
  final, and `ImplementsModes` holds because of it;
* the queue is said to be cleared "so old heartbeats don't persist" (`ground/src/main.rs:253`), but
  one held up between its tick and its push is queued after the clearing (`ClearQueue`, `Joined`;
  `LeftoversAreSound` does not deny it);
* the wait for `Nominal` is said to end only on a reset (`fault.rs:107`), but a cancel signal ends
  it too and counts as a recovery (`RecoveryIsEarned` has the exception);
* the alert is said to take more than three misses (`config.rs:29`), but the third is enough;
* a backlog of jobs is said to collapse to one (`scheduler.rs:98`), but every missed job is run
  (`EveryReleaseRuns`);
* the list of commands gives `ResetSensor` the priority 2 and `RequestTelemetry` 3
  (`packets.rs:86`, `:88`), but they are sent with 1 (`fault_mgr.rs:114`) and 2
  (`telemetry_rx.rs:372`); `Urgency` has what is sent;
* a degraded satellite's buffer is said to be more than 80% full (`state.rs:4`), but exactly 80% is
  enough (`config.rs:22`, `buffer.rs:120`; `DegradedAt`), which the real capacity of 64 never hits
  and the five places of `sensor_buffer` do.

## 4. The proofs

TLAPS proves for every value of the constants, under `CapacityAssumption` and its neighbours
(capacities positive), `ConstantsAssumption`, `LinkAssumption`, `SensorAssumption`,
`WatchAssumption`, `TasksAssumption`, `GroundAssumption` and `MissionAssumption` (capacities,
periods, work and clock resolution positive) and `StampAssumption` (a sensor's timestamps do not go
back from one number to the next). Where a theorem assumes more, it says so.

* `SensorBufferProofs`: `TypeCorrect`, `Conservation`, `FlagIsCurrent`, `SampleOrder`,
  `Refinement`. The inductive invariant is the conjunction of `TypeOK`, `Conserved`,
  `DegradedIsCurrent` and `NothingOvertaken`; the last is what makes `PopsInSampleOrder` follow: a pop takes a reading
  of the buffer, and none is older than its sensor's last one. That numbers go back only among
  readings of one timestamp needs more: numbers and timestamps of a sensor's readings, in the buffer
  or just popped, rise together (`AgesFollowNumbers`). Lemmas about `SwapRemove` and
  `Append` say which elements the vector has afterwards. `Refinement` shows that the vector
  implements `RetentionQueue`: it holds no two equal readings (`Distinct`), so that taking an
  entry out by `swap_remove` takes one element from the set of readings; and a full vector always
  has an entry that the scan for the worst picks (`WorstExists`, by least and greatest elements
  of sets of numbers), so that a reading is turned away only if nothing worse is held.
* `SatelliteProofs`: `TypeCorrect`, `BoundedTelemetryAfterAbort`, `OpenCircuit`,
  `EarnedRecovery`, `ModeRefinement`. `sentInAbort <= Batch` is not inductive: the proof needs
  that what a window may still send, plus what was sent, is at most `Batch` while the abort is
  younger than the window, and that no later window starts (`BatchInv`). A recovery is earned
  because from injection to recovery the mode leaves the non-nominal modes only by a reset
  (`RecoveryInv`). `ModeRefinement` maps `state` to `mode`; each step is a step of
  `MissionModes` or leaves the mode alone.
* `TelemetryLinkProofs`: `TypeCorrect`, `CacheDistinct`, `LossNoticed`, `StreamRefinement`, for
  every assignment of timestamps that `StampAssumption` allows, ties included.
  That no retransmission brings what was passed over is a fact about everything between buffer and
  station: each frame of the wire is corrupted, repeats one before it or one that was heard, or
  bears a reading no older than all those before it (`WireInv`); every copy the satellite keeps was
  sent, or is corrupted (`CopyInv`). So the next frame to arrive is a repeat or no older than any
  yet, a step of `TelemetryStream` or a stutter. For `LossNoticed` the last number noted must be one
  that was received (`LastInv`), although it may have moved backwards.
* `SensorWatchProofs`: `TypeCorrect`, `MissesNeedLateSamples`, `AlarmsAreTrue`,
  `StuckTasksAreReported`, `ThreadsEnd`. The deadline stays on the grid the drift is measured
  from (`OnTheGrid`), so that both drifts are positive and a miss means that this sample or
  the one before was late (`MissIsCovered`); `ChainInv` carries this through the channel to
  the task's count, whose invariant is `RunInv`: a run that ends with a late sample has one
  miss in reserve. `AlarmsAreTrue` rests on arithmetic of whole seconds (`WholeSeconds`).
  `StuckTasksAreReported` bounds the thread's last sign of life by the places of the channel
  filled since the task got stuck (`StuckInv`) and the watchdog's look by the sign of life
  (`LookInv`).
* `RmsSchedulerProofs`: `TypeCorrect`, `PreemptionLogIsTrue`, `ReleasesRun`, for every set of
  tasks, overloaded or not. What a tick leaves each task with (`QuantumFacts`) shows that the
  task it interrupts comes later in the list than the one it runs: every earlier task has no
  work. `ReleasesRun` ties `next_release` to `exec_count`, so that no release can be passed over.
  `ResponseTimesSuffice` proves the deadlines of every set of tasks that passes a response-time
  test (`Schedulable`), and `StallsMadeUp` the recovery after a stall of any length, with no bound
  on the lateness of ticks, of every set that asks for no more than the processor has
  (`CatchesUp`). Both follow, for task `i`, the window of ticks since tasks `1..i` last left one
  to the others: what those tasks may still ask for in the window (`LoadInv`), or have been
  served in it (`StallInv`), is a running total that every tick keeps. The two hypotheses are
  not empty: the corollaries `SatelliteTasksMeetDeadlines` and `SatelliteTasksCatchUp` derive
  them for the satellite's own tasks (periods of 100, 500 and 1000 ms, work of 5, 20 and 50 ms),
  for ticks up to 95 ms late and for any stall. The instance of `rms` satisfies them too, with
  response times 1, 4 and 10 (periods less two of lateness: 2, 6 and 10).
* `GroundControlProofs`: `TypeCorrect`, `LeftoversSound`, `InterlocksEnd`, `OneSlips`,
  `ResetsFollow`, for any number of sensors, of faults dealt with and of sessions.
  `LeftoversSound`: a session that ends has lost `telemetry_rx` (`NobodyLeft`), which alone makes
  requests, so that none is queued once the queue was emptied (`RequestsGone`); and at all times
  each SafeMode in the queue has a reset behind it or a timer that will queue one (`ResetsToCome`),
  because emptying the queue takes both and a timer is spawned with the SafeMode it belongs to.
  `InterlocksEnd` assumes a session that lasts
  (`LinkCloses` and `MayCancel` false); `find_stuck_interlock` shows that it must. `OneSlips`
  rests on `SlipInv`: after one command has slipped, the uplink holds none that would be the
  second, because it decides to send on the state it then reads (`SendIsDecided`).
  `ResetsFollow`, too, assumes a session that lasts. That what was sent has no more resets than
  SafeModes is not inductive, because it depends on the order of what is queued: `LeadInv` says
  that the running balance along the lane of emergencies begins with what was sent and is in
  hand, ends with the number of timers, and is negative nowhere between.
* `MissionControlProofs`: `StationImplements`, `SatelliteImplements`, `FaultsAreAccountedFor`,
  `SafeModeEnds`, about both programs and the connection, for every capacity of channel and
  socket. Each step of the whole is a step of the station and of the satellite, or leaves that
  side alone. The station's part is not proved again: `GroundControlProofs` is instantiated, so
  that its invariant holds of the whole. As sensors are silent here, nothing but emergencies
  travels (`PipeInv`). `FaultsAreAccountedFor` is inductive with it, given how a station step
  changes the number of resets in queue and hand (`Move`, `ResetsAppend`, `ResetsTail`).
  `SafeModeEnds` needs the order again: from the satellite back through the socket, the
  command in hand and the queue to the timers, each SafeMode has a reset behind it, or the last
  reset was given up (`RecoveryInv`).

Every invariant, action property and refinement that a passing run checks is stated by one of
these theorems. Induction over data is not to be had from the library here; where a proof needs
it, the least element of a set of numbers takes its place (`CommonFacts`), running totals are
functions whose neighbouring values are related, and commands are counted by the cardinality of
the set of their places.

Only model-checked is liveness, because fairness and `ENABLED` are out of the prover's reach:
`FaultEnds`, `FaultsAreForwarded` and `ShutdownCompletes` of the satellite, `FaultIsAnswered`,
`SessionIsCleanedUp` and `GroundShutdownCompletes` of the station, `RequestsSettle` of the link,
`FaultRoundTrip`, `SatelliteEndIsNoticed` and `StationEndIsNoticed` of the whole.

## 5. Not modelled

Display and logging (`ui.rs`, `perf_monitor.rs`, histograms, final reports, the displayed
backlog of requests); connecting and its retries, which happen before any task exists; the
measurement of latency; serialization, beyond corrupted packets; the exercise mode of the
environment variable, as far as it goes beyond making an interlock late (its command on loss
of contact, `AdjustAntenna`, has no effect on the satellite); the scheduler task's part in the
satellite's join (its own cancel branch is in `RmsScheduler`); the benchmarks; wrap-around of
the 32-bit numbers, which takes years of samples. `types.rs` and `metrics.rs` are used
by nothing modelled.

Three hazards have no property: loss of contact that cuts an interlock short, the critical alert
that does not block, and the rejected request for a late packet that is not repeated. The models
have all three (`RequestsSettle`, of requests, says that they come to rest, not that they are
answered); nothing in the code says what should hold.

## 6. What could follow

Both sides of `MissionControl` shut down at once, and telemetry frames and quiet times on its
connection: checked on smaller pieces here, since the state space of the whole exceeds what a
run of minutes can do.
