---------------------------- MODULE SensorBuffer ----------------------------
(***************************************************************************)
(* The priority buffer between the three sensor tasks and the downlink     *)
(* (satellite/src/buffer.rs).  It is a vector scanned for its best entry   *)
(* on pop and for its worst entry on a push that finds it full; entries    *)
(* leave by swap_remove, so the vector's order decides only between        *)
(* readings of one sensor with one timestamp.  Every call is made under    *)
(* the buffer's mutex, hence atomic.                                       *)
(*                                                                         *)
(* A sensor pushes its readings in the order it took them.  Timestamps of  *)
(* one sensor never decrease; two may coincide at the clock's resolution.  *)
(* Timestamps of different sensors are never compared, because their       *)
(* priorities differ, so each sensor has a clock of its own.               *)
(***************************************************************************)
EXTENDS Packets, Integers, Sequences, FiniteSets

CONSTANTS Capacity,    \* SENSOR_BUFFER_CAPACITY
          MaxSamples,  \* bound: readings one sensor takes
          MaxTime      \* bound: the latest sample timestamp

ASSUME CapacityAssumption == Capacity \in Nat \ {0}
ASSUME SamplesAssumption == MaxSamples \in Nat
ASSUME TimeAssumption == MaxTime \in Nat

VARIABLES data,    \* SensorBuffer.data
          stats,   \* SensorBuffer.stats
          seq,     \* next sequence number of each sensor
          stamp,   \* timestamp of each sensor's latest sample
          popped,  \* history: readings handed to the downlink
          lastNo,  \* history: number of each sensor's last popped reading
          lastOut  \* history: timestamp of each sensor's last popped reading

bufferVars == <<data, stats>>
vars == <<data, stats, seq, stamp, popped, lastNo, lastOut>>

Reading == [sensor_id : SensorId, seq_no : 0..(MaxSamples - 1),
            sample_timestamp_us : 0..MaxTime]

\* SensorReading::cmp = Greater: a lower priority number, then an older sample.
Outranks(a, b) ==
  \/ PriorityOf[a.sensor_id] < PriorityOf[b.sensor_id]
  \/ /\ PriorityOf[a.sensor_id] = PriorityOf[b.sensor_id]
     /\ a.sample_timestamp_us < b.sample_timestamp_us

\* Vec::swap_remove: the last element takes the place of the removed one.
SwapRemove(s, k) ==
  [i \in 1..(Len(s) - 1) |-> IF i = k THEN s[Len(s)] ELSE s[i]]

\* min_by keeps the first of equal minima.
IsWorst(i) == \A j \in DOMAIN data :
                /\ ~Outranks(data[i], data[j])
                /\ j < i => Outranks(data[j], data[i])

\* A mutant: the comparison stops at the priority and ignores the timestamp.
IsBest_AnyAge(i) == \A j \in DOMAIN data :
                      PriorityOf[data[i].sensor_id] <= PriorityOf[data[j].sensor_id]

\* max_by keeps the last of equal maxima.
IsBest(i) == \A j \in DOMAIN data :
                /\ ~Outranks(data[j], data[i])
                /\ j > i => Outranks(data[i], data[j])

\* fill_pct() >= BUFFER_DEGRADED_PCT, with the percentage 80 as 4/5.
DegradedAt(n) == 5 * n >= 4 * Capacity

\* refresh_stats, given how much the counters of the call grow.
RefreshStats(n, inserted, dropped) ==
  stats' = [total_inserted |-> stats.total_inserted + inserted,
            total_dropped  |-> stats.total_dropped + dropped,
            peak_fill      |-> IF n > stats.peak_fill THEN n ELSE stats.peak_fill,
            degraded_mode  |-> DegradedAt(n)]

-----------------------------------------------------------------------------

Init == /\ data = <<>>
        /\ stats = [total_inserted |-> 0, total_dropped |-> 0,
                    peak_fill |-> 0, degraded_mode |-> FALSE]
        /\ seq = [s \in SensorId |-> 0]
        /\ stamp = [s \in SensorId |-> 0]
        /\ popped = 0
        /\ lastNo = [s \in SensorId |-> -1]
        /\ lastOut = [s \in SensorId |-> 0]

\* A mutant: the capacity test lets one reading too many in.
Insert_OffByOne(r) == /\ Len(data) <= Capacity
                      /\ data' = Append(data, r)
                      /\ RefreshStats(Len(data) + 1, 1, 0)

Insert(r) == /\ Len(data) < Capacity
             /\ data' = Append(data, r)
             /\ RefreshStats(Len(data) + 1, 1, 0)

\* A mutant: the entry overwritten in a full buffer is not counted as dropped.
Replace_Uncounted(r) ==
  /\ Len(data) >= Capacity
  /\ \E i \in DOMAIN data :
        /\ IsWorst(i)
        /\ Outranks(r, data[i])
        /\ data' = Append(SwapRemove(data, i), r)
  /\ RefreshStats(Len(data), 1, 0)

\* The buffer is full and the incoming reading is better than the worst one.
Replace(r) ==
  /\ Len(data) >= Capacity
  /\ \E i \in DOMAIN data :
        /\ IsWorst(i)
        /\ Outranks(r, data[i])
        /\ data' = Append(SwapRemove(data, i), r)
  /\ RefreshStats(Len(data), 1, 1)

\* A mutant: a full buffer always turns the incoming reading away.
Reject_Always(r) ==
  /\ Len(data) >= Capacity
  /\ UNCHANGED data
  /\ RefreshStats(Len(data), 1, 1)

\* The buffer is full of readings the incoming one does not outrank.
Reject(r) ==
  /\ Len(data) >= Capacity
  /\ \A i \in DOMAIN data : IsWorst(i) => ~Outranks(r, data[i])
  /\ UNCHANGED data
  /\ RefreshStats(Len(data), 1, 1)

\* push, called by a sensor task with its next sample.
Push(s) ==
  /\ seq[s] < MaxSamples
  /\ \E now \in stamp[s]..MaxTime :
       LET r == [sensor_id |-> s, seq_no |-> seq[s], sample_timestamp_us |-> now]
       IN /\ Insert(r) \/ Replace(r) \/ Reject(r)
          /\ stamp' = [stamp EXCEPT ![s] = now]
  /\ seq' = [seq EXCEPT ![s] = @ + 1]
  /\ UNCHANGED <<popped, lastNo, lastOut>>

\* A mutant: pop without the trailing refresh_stats.
Pop_NoRefresh ==
  /\ \E i \in DOMAIN data :
        /\ IsBest(i)
        /\ data' = SwapRemove(data, i)
        /\ lastNo' = [lastNo EXCEPT ![data[i].sensor_id] = data[i].seq_no]
        /\ lastOut' = [lastOut EXCEPT ![data[i].sensor_id] =
                                        data[i].sample_timestamp_us]
  /\ popped' = popped + 1
  /\ UNCHANGED <<stats, seq, stamp>>

\* pop, called by the downlink.  An empty buffer returns None and nothing
\* changes.
Pop ==
  /\ \E i \in DOMAIN data :
        /\ IsBest(i)
        /\ data' = SwapRemove(data, i)
        /\ lastNo' = [lastNo EXCEPT ![data[i].sensor_id] = data[i].seq_no]
        /\ lastOut' = [lastOut EXCEPT ![data[i].sensor_id] =
                                        data[i].sample_timestamp_us]
  /\ RefreshStats(Len(data) - 1, 0, 0)
  /\ popped' = popped + 1
  /\ UNCHANGED <<seq, stamp>>

Next == Pop \/ \E s \in SensorId : Push(s)

Spec == Init /\ [][Next]_vars

-----------------------------------------------------------------------------

\* Types of the buffer's fields; the vector never outgrows its capacity.
TypeOK ==
  /\ data \in Seq(Reading)
  /\ Len(data) <= Capacity
  /\ stats \in [total_inserted : Nat, total_dropped : Nat,
                peak_fill : 0..Capacity, degraded_mode : BOOLEAN]
  /\ seq \in [SensorId -> 0..MaxSamples]
  /\ stamp \in [SensorId -> 0..MaxTime]
  /\ popped \in Nat
  /\ lastNo \in [SensorId -> -1..(MaxSamples - 1)]
  /\ lastOut \in [SensorId -> 0..MaxTime]

\* Every reading a sensor ever pushed is in the buffer, was handed to the
\* downlink, or is counted as dropped: the counters the final report prints
\* (main.rs) lose nothing, whichever of push's three exits was taken.
Conserved ==
  stats.total_inserted = Len(data) + popped + stats.total_dropped

\* The degraded flag the downlink reads (is_degraded) is cached, not computed:
\* after every call it agrees with the fill level, and the recorded peak is
\* at least that level.
DegradedIsCurrent ==
  /\ stats.degraded_mode <=> 5 * Len(data) >= 4 * Capacity
  /\ Len(data) <= stats.peak_fill

\* Nothing in the buffer is older than what was already popped from the same
\* sensor, however entries were swapped about by removals and evictions.
NothingOvertaken ==
  /\ \A s \in SensorId : lastOut[s] <= stamp[s]
  /\ \A i \in DOMAIN data :
        /\ lastOut[data[i].sensor_id] <= data[i].sample_timestamp_us
        /\ data[i].sample_timestamp_us <= stamp[data[i].sensor_id]

\* The readings of one sensor leave the buffer by age: a pop never hands out a
\* reading older than that sensor's previous one, and one with a lower number
\* only among readings of one timestamp.  Those may be reversed: pop's max_by
\* takes the last of equals, and swap_remove moves them about.
PopsInSampleOrder ==
  [][\A s \in SensorId :
       /\ lastOut'[s] >= lastOut[s]
       /\ lastNo'[s] < lastNo[s] => lastOut'[s] = lastOut[s]]_vars

\* The abstract queue this buffer implements: the vector is the set of its
\* entries, whatever their places.
Retention == INSTANCE RetentionQueue
               WITH Readings <- Reading,
                    kept <- {data[i] : i \in DOMAIN data},
                    lost <- stats.total_dropped

\* The buffer keeps what a bounded best-first queue keeps: a full buffer gives
\* up a reading that no other is worse than, and pop takes one that no other
\* outranks ("drops the lowest priority packet to make room", buffer.rs:66).
KeepsTheBest == Retention!Spec
=============================================================================
