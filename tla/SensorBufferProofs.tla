------------------------- MODULE SensorBufferProofs -------------------------
(***************************************************************************)
(* Proofs about SensorBuffer for every capacity, number of samples and     *)
(* clock range.  The inductive invariant IInv joins the type invariant,    *)
(* the conservation of readings, the cached flag and the age bound.        *)
(***************************************************************************)
EXTENDS SensorBuffer, CommonFacts, FiniteSetTheorems, TLAPS

USE CapacityAssumption, SamplesAssumption, TimeAssumption

\* What swap_remove leaves: one element fewer, each of them an element of the
\* old vector from a place other than the removed one.
LEMMA SwapRemoveFacts ==
  ASSUME NEW s \in Seq(Reading), NEW k \in 1..Len(s)
  PROVE  /\ SwapRemove(s, k) \in Seq(Reading)
         /\ Len(SwapRemove(s, k)) = Len(s) - 1
         /\ \A i \in 1..(Len(s) - 1) :
              \E j \in 1..Len(s) : j # k /\ SwapRemove(s, k)[i] = s[j]
<1> DEFINE n == Len(s) - 1
           t == [i \in 1..n |-> IF i = k THEN s[Len(s)] ELSE s[i]]
<1>1. n \in Nat
  OBVIOUS
<1>2. \A i \in 1..n : t[i] \in Reading /\ \E j \in 1..Len(s) : j # k /\ t[i] = s[j]
  BY <1>1
<1>3. t \in [1..n -> Reading]
  BY <1>1, <1>2
<1>4. t \in Seq(Reading) /\ Len(t) = n
  BY <1>1, <1>3
<1> QED
  BY <1>2, <1>4 DEF SwapRemove

\* Appending to a vector adds one element at the end.
LEMMA AppendFacts ==
  ASSUME NEW s \in Seq(Reading), NEW e \in Reading
  PROVE  /\ Append(s, e) \in Seq(Reading)
         /\ Len(Append(s, e)) = Len(s) + 1
         /\ \A i \in 1..(Len(s) + 1) :
              Append(s, e)[i] = e \/ (i \in 1..Len(s) /\ Append(s, e)[i] = s[i])
  OBVIOUS

\* refresh_stats, field by field.
LEMMA RefreshFacts ==
  ASSUME TypeOK, NEW n \in 0..Capacity, NEW inserted \in Nat,
         NEW dropped \in Nat, RefreshStats(n, inserted, dropped)
  PROVE  /\ stats' \in [total_inserted : Nat, total_dropped : Nat,
                        peak_fill : 0..Capacity, degraded_mode : BOOLEAN]
         /\ stats'.total_inserted = stats.total_inserted + inserted
         /\ stats'.total_dropped = stats.total_dropped + dropped
         /\ n <= stats'.peak_fill
         /\ stats'.degraded_mode <=> DegradedAt(n)
<1>1. DegradedAt(n) \in BOOLEAN
  BY DEF DegradedAt
<1> QED
  BY <1>1 DEF TypeOK, RefreshStats

\* An entry of the buffer lies between its sensor's last popped reading and its
\* sensor's last sample.
LEMMA EntryFacts ==
  ASSUME TypeOK, NothingOvertaken, NEW j \in 1..Len(data)
  PROVE  /\ data[j].sensor_id \in SensorId
         /\ data[j].sample_timestamp_us \in 0..MaxTime
         /\ lastOut[data[j].sensor_id] <= data[j].sample_timestamp_us
         /\ data[j].sample_timestamp_us <= stamp[data[j].sensor_id]
<1>1. data \in Seq(Reading)
  BY DEF TypeOK
<1>2. data[j] \in Reading /\ j \in DOMAIN data
  BY <1>1
<1>3. data[j].sensor_id \in SensorId /\ data[j].sample_timestamp_us \in 0..MaxTime
  BY <1>2 DEF Reading
<1> QED
  BY <1>2, <1>3 DEF NothingOvertaken

IInv == TypeOK /\ Conserved /\ DegradedIsCurrent /\ NothingOvertaken

LEMMA InitIInv == Init => IInv
  BY DEF Init, IInv, TypeOK, Conserved, DegradedIsCurrent, NothingOvertaken

\* What the three exits of push have in common, whichever is taken: every
\* entry afterwards is an old one or the new reading, and one reading more is
\* accounted for.
LEMMA PushFacts ==
  ASSUME TypeOK, NEW r \in Reading, Insert(r) \/ Replace(r) \/ Reject(r)
  PROVE  /\ data' \in Seq(Reading)
         /\ Len(data') <= Capacity /\ Len(data') <= Len(data) + 1
         /\ \A i \in 1..Len(data') :
              data'[i] = r \/ \E j \in 1..Len(data) : data'[i] = data[j]
         /\ RefreshStats(Len(data'), 1, Len(data) + 1 - Len(data'))
<1>0. /\ data \in Seq(Reading)
      /\ Len(data) \in Nat
      /\ Len(data) <= Capacity
      /\ DOMAIN data = 1..Len(data)
  BY DEF TypeOK
<1>1. CASE Insert(r)
  BY <1>0, <1>1, AppendFacts DEF Insert
<1>2. CASE Replace(r)
  <2>1. PICK i \in 1..Len(data) : data' = Append(SwapRemove(data, i), r)
    BY <1>0, <1>2 DEF Replace
  <2> DEFINE t == SwapRemove(data, i)
  <2>2. /\ t \in Seq(Reading)
        /\ Len(t) = Len(data) - 1
        /\ \A k \in 1..(Len(data) - 1) :
              \E j \in 1..Len(data) : j # i /\ t[k] = data[j]
    BY <1>0, <2>1, SwapRemoveFacts, Zenon
  <2> HIDE DEF t
  <2>3. /\ Append(t, r) \in Seq(Reading)
        /\ Len(Append(t, r)) = Len(t) + 1
        /\ \A k \in 1..(Len(t) + 1) :
             Append(t, r)[k] = r \/ (k \in 1..Len(t) /\ Append(t, r)[k] = t[k])
    BY <2>2, AppendFacts, Zenon
  <2>4. /\ data' \in Seq(Reading)
        /\ Len(data') = Len(data)
        /\ \A k \in 1..Len(data') :
             data'[k] = r \/ (k \in 1..Len(t) /\ data'[k] = t[k])
    BY <1>0, <2>1, <2>2, <2>3 DEF t
  <2>5. RefreshStats(Len(data'), 1, Len(data) + 1 - Len(data'))
    BY <1>0, <1>2, <2>4 DEF Replace
  <2> QED
    BY <1>0, <2>2, <2>4, <2>5
<1>3. CASE Reject(r)
  BY <1>0, <1>3 DEF Reject, RefreshStats
<1> QED
  BY <1>1, <1>2, <1>3

\* push preserves the invariant.
LEMMA PushIInv ==
  ASSUME IInv, NEW s \in SensorId, Push(s)
  PROVE  IInv'
<1>0. TypeOK /\ Conserved /\ DegradedIsCurrent /\ NothingOvertaken
  BY DEF IInv
<1>1. PICK now \in stamp[s]..MaxTime :
        LET r == [sensor_id |-> s, seq_no |-> seq[s], sample_timestamp_us |-> now]
        IN /\ Insert(r) \/ Replace(r) \/ Reject(r)
           /\ stamp' = [stamp EXCEPT ![s] = now]
  BY DEF Push
<1> DEFINE r == [sensor_id |-> s, seq_no |-> seq[s], sample_timestamp_us |-> now]
<1>2. /\ stamp' = [stamp EXCEPT ![s] = now]
      /\ seq[s] < MaxSamples
      /\ seq' = [seq EXCEPT ![s] = @ + 1]
      /\ popped' = popped /\ lastNo' = lastNo /\ lastOut' = lastOut
  BY <1>1 DEF Push
<1>3. now \in 0..MaxTime /\ stamp[s] <= now /\ r \in Reading
  BY <1>0, <1>1, <1>2 DEF TypeOK, Reading
<1>4. /\ data' \in Seq(Reading)
      /\ Len(data') <= Capacity /\ Len(data') <= Len(data) + 1
      /\ \A i \in 1..Len(data') :
           data'[i] = r \/ \E j \in 1..Len(data) : data'[i] = data[j]
      /\ RefreshStats(Len(data'), 1, Len(data) + 1 - Len(data'))
  BY <1>0, <1>1, <1>3, PushFacts
<1>5. r.sensor_id = s /\ r.sample_timestamp_us = now
  OBVIOUS
<1> HIDE DEF r
<1>6. /\ Len(data') \in 0..Capacity
      /\ Len(data') <= Len(data) + 1
      /\ Len(data) \in Nat
  <2>1. data \in Seq(Reading)
    BY <1>0 DEF TypeOK
  <2>2. Len(data') \in Nat /\ Len(data) \in Nat
    BY <1>4, <2>1
  <2> QED BY <1>4, <2>2
<1>7. /\ stats' \in [total_inserted : Nat, total_dropped : Nat,
                     peak_fill : 0..Capacity, degraded_mode : BOOLEAN]
      /\ stats'.total_inserted = stats.total_inserted + 1
      /\ stats'.total_dropped = stats.total_dropped + (Len(data) + 1 - Len(data'))
      /\ Len(data') <= stats'.peak_fill
      /\ stats'.degraded_mode <=> DegradedAt(Len(data'))
  <2>1. 1 \in Nat /\ Len(data) + 1 - Len(data') \in Nat
    BY <1>6
  <2> QED
    BY <1>0, <1>4, <1>6, <2>1, RefreshFacts, Zenon
<1>8. TypeOK'
  <2>1. seq' \in [SensorId -> 0..MaxSamples]
    BY <1>0, <1>2 DEF TypeOK
  <2>2. stamp' \in [SensorId -> 0..MaxTime]
    BY <1>0, <1>2, <1>3 DEF TypeOK
  <2> QED
    BY <1>0, <1>2, <1>4, <1>7, <2>1, <2>2 DEF TypeOK
<1>9. Conserved' /\ DegradedIsCurrent'
  <2>1. Conserved'
    <3>1. /\ stats.total_inserted = Len(data) + popped + stats.total_dropped
          /\ popped \in Nat /\ stats.total_dropped \in Nat /\ stats.total_inserted \in Nat
      BY <1>0 DEF Conserved, TypeOK
    <3>2. Len(data') \in Nat /\ Len(data) \in Nat /\ popped' = popped
      BY <1>2, <1>6
    <3>3. stats'.total_inserted = Len(data') + popped' + stats'.total_dropped
      BY <1>7, <3>1, <3>2
    <3> QED BY <3>3 DEF Conserved
  <2>2. DegradedIsCurrent'
    BY <1>7 DEF DegradedIsCurrent, DegradedAt
  <2> QED BY <2>1, <2>2
<1>10. \A u \in SensorId :
         /\ lastOut[u] \in Nat /\ stamp[u] \in Nat
         /\ lastOut[u] <= stamp[u] /\ stamp[u] <= stamp'[u]
         /\ stamp'[s] = now
  <2>1. lastOut \in [SensorId -> 0..MaxTime] /\ stamp \in [SensorId -> 0..MaxTime]
    BY <1>0 DEF TypeOK
  <2>2. \A u \in SensorId : lastOut[u] <= stamp[u]
    BY <1>0 DEF NothingOvertaken
  <2>3. \A u \in SensorId : lastOut[u] \in Nat /\ stamp[u] \in Nat
    BY <2>1
  <2>4. \A u \in SensorId : stamp'[u] = IF u = s THEN now ELSE stamp[u]
    BY <1>2, <2>1
  <2> QED BY <1>3, <2>2, <2>3, <2>4
<1>11. \A i \in 1..Len(data') :
         /\ lastOut[data'[i].sensor_id] <= data'[i].sample_timestamp_us
         /\ data'[i].sample_timestamp_us <= stamp'[data'[i].sensor_id]
  <2> SUFFICES ASSUME NEW i \in 1..Len(data')
               PROVE  /\ lastOut[data'[i].sensor_id]
                           <= data'[i].sample_timestamp_us
                      /\ data'[i].sample_timestamp_us
                           <= stamp'[data'[i].sensor_id]
    OBVIOUS
  <2>1. CASE data'[i] = r
    BY <1>3, <1>5, <1>10, <2>1
  <2>2. CASE \E j \in 1..Len(data) : data'[i] = data[j]
    <3>1. PICK j \in 1..Len(data) : data'[i] = data[j]
      BY <2>2
    <3>2. /\ data[j].sensor_id \in SensorId
          /\ data[j].sample_timestamp_us \in 0..MaxTime
          /\ lastOut[data[j].sensor_id] <= data[j].sample_timestamp_us
          /\ data[j].sample_timestamp_us <= stamp[data[j].sensor_id]
      BY <1>0, EntryFacts
    <3>3. stamp'[data[j].sensor_id] \in 0..MaxTime
      BY <1>8, <3>2 DEF TypeOK
    <3> QED
      BY <1>10, <3>1, <3>2, <3>3
  <2> QED
    BY <1>4, <2>1, <2>2
<1>12. NothingOvertaken'
  <2>1. \A u \in SensorId : lastOut[u] <= stamp'[u]
    <3>1. \A u \in SensorId : stamp'[u] \in 0..MaxTime
      BY <1>8 DEF TypeOK
    <3> QED
      BY <1>10, <3>1
  <2>2. DOMAIN data' = 1..Len(data')
    BY <1>4
  <2> QED
    BY <1>2, <1>11, <2>1, <2>2 DEF NothingOvertaken
<1> QED
  BY <1>8, <1>9, <1>12 DEF IInv

\* pop preserves the invariant, and never goes back in a sensor's time.
LEMMA PopIInv ==
  ASSUME IInv, Pop
  PROVE  IInv' /\ \A s \in SensorId : lastOut'[s] >= lastOut[s]
<1>0. TypeOK /\ Conserved /\ DegradedIsCurrent /\ NothingOvertaken
  BY DEF IInv
<1>1. /\ data \in Seq(Reading)
      /\ Len(data) \in Nat
      /\ DOMAIN data = 1..Len(data)
  BY <1>0 DEF TypeOK
<1>2. PICK b \in 1..Len(data) :
        /\ IsBest(b)
        /\ data' = SwapRemove(data, b)
        /\ lastNo' = [lastNo EXCEPT ![data[b].sensor_id] = data[b].seq_no]
        /\ lastOut' = [lastOut EXCEPT ![data[b].sensor_id] =
                                        data[b].sample_timestamp_us]
  BY <1>1 DEF Pop
<1>3. /\ data' \in Seq(Reading)
      /\ Len(data') = Len(data) - 1
      /\ \A i \in 1..(Len(data) - 1) :
           \E j \in 1..Len(data) : j # b /\ data'[i] = data[j]
  <2>1. /\ SwapRemove(data, b) \in Seq(Reading)
        /\ Len(SwapRemove(data, b)) = Len(data) - 1
        /\ \A i \in 1..(Len(data) - 1) :
             \E j \in 1..Len(data) : j # b /\ SwapRemove(data, b)[i] = data[j]
    BY <1>1, SwapRemoveFacts, Zenon
  <2> QED
    BY <1>2, <2>1
<1>4. \A j \in 1..Len(data) :
        data[j].sensor_id = data[b].sensor_id
          => data[b].sample_timestamp_us <= data[j].sample_timestamp_us
  <2> SUFFICES ASSUME NEW j \in 1..Len(data),
                      data[j].sensor_id = data[b].sensor_id
               PROVE  data[b].sample_timestamp_us <= data[j].sample_timestamp_us
    OBVIOUS
  <2>1. data[j] \in Reading /\ data[b] \in Reading
    BY <1>1
  <2>2. ~Outranks(data[j], data[b])
    BY <1>1, <1>2 DEF IsBest
  <2> QED
    BY <2>1, <2>2 DEF Outranks, Reading
<1>5. /\ popped' = popped + 1 /\ seq' = seq /\ stamp' = stamp
      /\ RefreshStats(Len(data'), 0, 0)
      /\ Len(data') \in 0..Capacity
  BY <1>0, <1>1, <1>3 DEF Pop, TypeOK
<1>6. /\ stats' \in [total_inserted : Nat, total_dropped : Nat,
                     peak_fill : 0..Capacity, degraded_mode : BOOLEAN]
      /\ stats'.total_inserted = stats.total_inserted
      /\ stats'.total_dropped = stats.total_dropped
      /\ Len(data') <= stats'.peak_fill
      /\ stats'.degraded_mode <=> DegradedAt(Len(data'))
  <2>1. 0 \in Nat /\ stats.total_inserted \in Nat /\ stats.total_dropped \in Nat
    BY <1>0 DEF TypeOK
  <2> QED
    BY <1>0, <1>5, <2>1, RefreshFacts
<1>7. /\ data[b].sensor_id \in SensorId
      /\ data[b].sample_timestamp_us \in 0..MaxTime
      /\ lastOut[data[b].sensor_id] <= data[b].sample_timestamp_us
      /\ data[b].sample_timestamp_us <= stamp[data[b].sensor_id]
  BY <1>0, EntryFacts
<1>8. TypeOK'
  <2>1. lastOut' \in [SensorId -> 0..MaxTime]
    BY <1>0, <1>2, <1>7 DEF TypeOK
  <2>2. data[b] \in Reading
    BY <1>1
  <2>3. data[b].seq_no \in -1..(MaxSamples - 1)
    BY <2>2 DEF Reading
  <2>4. lastNo' \in [SensorId -> -1..(MaxSamples - 1)]
    BY <1>0, <1>2, <2>3 DEF TypeOK
  <2> QED
    BY <1>0, <1>3, <1>5, <1>6, <2>1, <2>4 DEF TypeOK
<1>9. Conserved' /\ DegradedIsCurrent'
  BY <1>0, <1>1, <1>3, <1>5, <1>6
  DEF TypeOK, Conserved, DegradedIsCurrent, DegradedAt
<1>10. \A u \in SensorId :
         /\ lastOut[u] \in Nat /\ stamp[u] \in Nat
         /\ lastOut'[u] >= lastOut[u] /\ lastOut'[u] <= stamp[u]
         /\ lastOut'[u] = IF u = data[b].sensor_id
                          THEN data[b].sample_timestamp_us ELSE lastOut[u]
  <2>1. lastOut \in [SensorId -> 0..MaxTime] /\ stamp \in [SensorId -> 0..MaxTime]
    BY <1>0 DEF TypeOK
  <2>2. \A u \in SensorId : lastOut[u] <= stamp[u]
    BY <1>0 DEF NothingOvertaken
  <2>3. \A u \in SensorId : lastOut[u] \in Nat /\ stamp[u] \in Nat
    BY <2>1
  <2>4. \A u \in SensorId : lastOut'[u] = IF u = data[b].sensor_id
                                          THEN data[b].sample_timestamp_us ELSE lastOut[u]
    BY <1>2, <2>1
  <2> QED BY <1>7, <2>2, <2>3, <2>4
<1>11. \A i \in 1..Len(data') :
         /\ lastOut'[data'[i].sensor_id] <= data'[i].sample_timestamp_us
         /\ data'[i].sample_timestamp_us <= stamp[data'[i].sensor_id]
  <2> SUFFICES ASSUME NEW i \in 1..(Len(data) - 1)
               PROVE  /\ lastOut'[data'[i].sensor_id]
                           <= data'[i].sample_timestamp_us
                      /\ data'[i].sample_timestamp_us
                           <= stamp[data'[i].sensor_id]
    BY <1>3
  <2>1. PICK j \in 1..Len(data) : data'[i] = data[j]
    BY <1>3
  <2>2. /\ data[j].sensor_id \in SensorId
        /\ data[j].sample_timestamp_us \in 0..MaxTime
        /\ lastOut[data[j].sensor_id] <= data[j].sample_timestamp_us
        /\ data[j].sample_timestamp_us <= stamp[data[j].sensor_id]
    BY <1>0, EntryFacts
  <2>3. data[j].sensor_id = data[b].sensor_id
          => data[b].sample_timestamp_us <= data[j].sample_timestamp_us
    BY <1>4
  <2> QED
    BY <1>10, <2>1, <2>2, <2>3
<1>12. NothingOvertaken'
  <2>1. DOMAIN data' = 1..Len(data')
    BY <1>3
  <2> QED
    BY <1>5, <1>10, <1>11, <2>1 DEF NothingOvertaken
<1> QED
  BY <1>8, <1>9, <1>10, <1>12 DEF IInv

\* Every step preserves the invariant.
LEMMA NextIInv == IInv /\ [Next]_vars => IInv'
<1> SUFFICES ASSUME IInv, [Next]_vars PROVE IInv'
  OBVIOUS
<1>1. CASE Pop
  BY <1>1, PopIInv
<1>2. CASE \E s \in SensorId : Push(s)
  BY <1>2, PushIInv
<1>3. CASE UNCHANGED vars
  BY <1>3 DEF vars, IInv, TypeOK, Conserved, DegradedIsCurrent, NothingOvertaken
<1> QED
  BY <1>1, <1>2, <1>3 DEF Next

\* The buffer's vector, counters and flag have their types and the vector
\* never outgrows its capacity.
THEOREM TypeCorrect == Spec => []TypeOK
<1>1. IInv => TypeOK
  BY DEF IInv
<1> QED
  BY <1>1, InitIInv, NextIInv, PTL DEF Spec

\* No reading is lost without being counted.
THEOREM Conservation == Spec => []Conserved
<1>1. IInv => Conserved
  BY DEF IInv
<1> QED
  BY <1>1, InitIInv, NextIInv, PTL DEF Spec

\* The cached degraded flag is never stale.
THEOREM FlagIsCurrent == Spec => []DegradedIsCurrent
<1>1. IInv => DegradedIsCurrent
  BY DEF IInv
<1> QED
  BY <1>1, InitIInv, NextIInv, PTL DEF Spec

-----------------------------------------------------------------------------
(***************************************************************************)
(* The order in which one sensor's readings leave.  Numbers and timestamps *)
(* rise together, so a reading left behind by a later number can only be   *)
(* one of the same timestamp.                                              *)
(***************************************************************************)

\* The reading b of one sensor was not taken before a.
TakenTogether(a, b) ==
  a.sensor_id = b.sensor_id /\ a.seq_no < b.seq_no
    => a.sample_timestamp_us <= b.sample_timestamp_us

AgesFollowNumbers ==
  /\ \A s \in SensorId : lastNo[s] < seq[s]
  /\ \A i \in DOMAIN data :
       /\ data[i].seq_no < seq[data[i].sensor_id]
       /\ data[i].seq_no < lastNo[data[i].sensor_id]
            => data[i].sample_timestamp_us <= lastOut[data[i].sensor_id]
  /\ \A i, j \in DOMAIN data : TakenTogether(data[i], data[j])

LEMMA InitAges == Init => AgesFollowNumbers
  BY DEF Init, AgesFollowNumbers

\* A sensor's new reading has the highest number and a timestamp no lower than
\* any of its earlier ones.
LEMMA PushAges ==
  ASSUME IInv, AgesFollowNumbers, NEW s \in SensorId, Push(s)
  PROVE  AgesFollowNumbers'
<1>0. TypeOK /\ NothingOvertaken
  BY DEF IInv
<1>1. PICK now \in stamp[s]..MaxTime :
        LET r == [sensor_id |-> s, seq_no |-> seq[s], sample_timestamp_us |-> now]
        IN /\ Insert(r) \/ Replace(r) \/ Reject(r)
           /\ stamp' = [stamp EXCEPT ![s] = now]
  BY DEF Push
<1>r. PICK r : r = [sensor_id |-> s, seq_no |-> seq[s], sample_timestamp_us |-> now]
  OBVIOUS
<1>2. /\ seq[s] < MaxSamples /\ seq' = [seq EXCEPT ![s] = @ + 1]
      /\ lastNo' = lastNo /\ lastOut' = lastOut
      /\ seq \in [SensorId -> 0..MaxSamples] /\ stamp \in [SensorId -> 0..MaxTime]
      /\ lastNo \in [SensorId -> -1..(MaxSamples - 1)]
  BY <1>0 DEF Push, TypeOK
<1>3. /\ r \in Reading /\ r.sensor_id = s /\ r.seq_no = seq[s]
      /\ r.sample_timestamp_us = now /\ now \in Nat /\ stamp[s] <= now
  BY <1>1, <1>r, <1>2 DEF Reading
<1>4. /\ data' \in Seq(Reading)
      /\ \A i \in 1..Len(data') :
           data'[i] = r \/ \E j \in 1..Len(data) : data'[i] = data[j]
  BY <1>0, <1>1, <1>r, <1>3, PushFacts
<1>5. /\ DOMAIN data' = 1..Len(data')
      /\ \A i \in DOMAIN data' : data'[i] = r \/ \E j \in DOMAIN data : data'[i] = data[j]
      /\ \A j \in DOMAIN data : data[j] \in Reading
  <2>1. DOMAIN data' = 1..Len(data')
    BY <1>4
  <2>2. data \in Seq(Reading) /\ DOMAIN data = 1..Len(data)
    BY <1>0 DEF TypeOK
  <2>3. \A j \in DOMAIN data : data[j] \in Reading
    BY <2>2
  <2>4. \A i \in DOMAIN data' : data'[i] = r \/ \E j \in DOMAIN data : data'[i] = data[j]
    <3> HIDE DEF TypeOK
    <3> QED BY <1>4, <2>1, <2>2, Zenon
  <2> QED BY <2>1, <2>3, <2>4
<1>6. ASSUME NEW j \in DOMAIN data
      PROVE  /\ data[j].sensor_id \in SensorId /\ data[j].seq_no \in Nat
             /\ data[j].sample_timestamp_us \in Nat
             /\ data[j].seq_no < seq[data[j].sensor_id]
             /\ data[j].sample_timestamp_us <= stamp[data[j].sensor_id]
  BY <1>0, <1>5 DEF Reading, AgesFollowNumbers, NothingOvertaken
<1>7. \A u \in SensorId : /\ seq[u] \in Nat /\ lastNo[u] \in Int /\ stamp[u] \in Nat
                          /\ seq'[u] = IF u = s THEN seq[u] + 1 ELSE seq[u]
                          /\ lastNo[u] < seq[u]
  BY <1>2 DEF AgesFollowNumbers
<1>8. \A u \in SensorId : lastNo'[u] < seq'[u]
  BY <1>2, <1>7
<1>9. ASSUME NEW i \in DOMAIN data'
      PROVE  /\ data'[i].seq_no < seq'[data'[i].sensor_id]
             /\ data'[i].seq_no < lastNo'[data'[i].sensor_id]
                  => data'[i].sample_timestamp_us <= lastOut'[data'[i].sensor_id]
  <2>1. CASE data'[i] = r
    BY <1>2, <1>3, <1>7, <2>1
  <2>2. CASE \E j \in DOMAIN data : data'[i] = data[j]
    <3>1. PICK j \in DOMAIN data : data'[i] = data[j]
      BY <2>2
    <3>2. data[j].seq_no < lastNo[data[j].sensor_id]
            => data[j].sample_timestamp_us <= lastOut[data[j].sensor_id]
      BY DEF AgesFollowNumbers
    <3> QED BY <1>2, <1>6, <1>7, <3>1, <3>2
  <2> QED BY <1>5, <2>1, <2>2
<1>10. ASSUME NEW i \in DOMAIN data', NEW k \in DOMAIN data'
       PROVE  TakenTogether(data'[i], data'[k])
  <2>1. CASE data'[k] = r
    <3>1. CASE data'[i] = r
      BY <1>3, <2>1, <3>1 DEF TakenTogether
    <3>2. CASE \E j \in DOMAIN data : data'[i] = data[j]
      BY <1>3, <1>6, <1>7, <2>1, <3>2 DEF TakenTogether
    <3> QED BY <1>5, <3>1, <3>2
  <2>2. CASE \E j \in DOMAIN data : data'[k] = data[j]
    <3>1. PICK j \in DOMAIN data : data'[k] = data[j]
      BY <2>2
    <3>2. CASE data'[i] = r
      BY <1>3, <1>6, <1>7, <3>1, <3>2 DEF TakenTogether
    <3>3. CASE \E l \in DOMAIN data : data'[i] = data[l]
      BY <3>1, <3>3 DEF AgesFollowNumbers
    <3> QED BY <1>5, <3>2, <3>3
  <2> QED BY <1>5, <2>1, <2>2
<1> QED
  BY <1>8, <1>9, <1>10 DEF AgesFollowNumbers

\* The popped reading is not older than the one before it, and where its number
\* is lower the two have one timestamp.
LEMMA PopAges ==
  ASSUME IInv, AgesFollowNumbers, Pop
  PROVE  /\ AgesFollowNumbers'
         /\ \A s \in SensorId : lastNo'[s] < lastNo[s] => lastOut'[s] = lastOut[s]
<1>0. TypeOK /\ NothingOvertaken
  BY DEF IInv
<1>1. PICK b \in DOMAIN data :
        /\ data' = SwapRemove(data, b)
        /\ lastNo' = [lastNo EXCEPT ![data[b].sensor_id] = data[b].seq_no]
        /\ lastOut' = [lastOut EXCEPT ![data[b].sensor_id] = data[b].sample_timestamp_us]
  BY DEF Pop
<1>2. /\ data \in Seq(Reading) /\ DOMAIN data = 1..Len(data) /\ seq' = seq
      /\ lastNo \in [SensorId -> -1..(MaxSamples - 1)]
      /\ lastOut \in [SensorId -> 0..MaxTime]
  BY <1>0 DEF TypeOK, Pop
<1>3. \A i \in DOMAIN data' : \E j \in DOMAIN data : data'[i] = data[j]
  <2>1. /\ data' \in Seq(Reading) /\ Len(data') = Len(data) - 1
        /\ \A i \in 1..(Len(data) - 1) : \E j \in 1..Len(data) : j # b /\ data'[i] = data[j]
    <3>1. /\ SwapRemove(data, b) \in Seq(Reading)
          /\ Len(SwapRemove(data, b)) = Len(data) - 1
          /\ \A i \in 1..(Len(data) - 1) :
               \E j \in 1..Len(data) : j # b /\ SwapRemove(data, b)[i] = data[j]
      <4>1. data \in Seq(Reading) /\ b \in 1..Len(data)
        BY <1>2
      <4> QED BY <4>1, SwapRemoveFacts, Zenon
    <3> QED BY <1>1, <3>1
  <2>2. DOMAIN data' = 1..(Len(data) - 1)
    BY <2>1
  <2> QED BY <1>2, <2>1, <2>2, Zenon
<1>4. ASSUME NEW j \in DOMAIN data
      PROVE  /\ data[j].sensor_id \in SensorId /\ data[j].seq_no \in Nat
             /\ data[j].sample_timestamp_us \in Nat
             /\ data[j].seq_no < seq[data[j].sensor_id]
             /\ lastOut[data[j].sensor_id] <= data[j].sample_timestamp_us
             /\ data[j].seq_no < lastNo[data[j].sensor_id]
                  => data[j].sample_timestamp_us <= lastOut[data[j].sensor_id]
  <2>1. data[j] \in Reading
    BY <1>2
  <2> QED BY <2>1 DEF Reading, AgesFollowNumbers, NothingOvertaken, IInv
<1>5. \A u \in SensorId :
        /\ lastNo[u] \in Int /\ lastOut[u] \in Nat /\ lastNo[u] < seq[u]
        /\ lastNo'[u] = IF u = data[b].sensor_id THEN data[b].seq_no ELSE lastNo[u]
        /\ lastOut'[u] = IF u = data[b].sensor_id THEN data[b].sample_timestamp_us
                                                   ELSE lastOut[u]
  BY <1>1, <1>2 DEF AgesFollowNumbers
<1>6. \A s \in SensorId : lastNo'[s] < lastNo[s] => lastOut'[s] = lastOut[s]
  BY <1>4, <1>5
<1>7. \A s \in SensorId : lastNo'[s] < seq'[s]
  BY <1>2, <1>4, <1>5
<1>8. ASSUME NEW i \in DOMAIN data'
      PROVE  /\ data'[i].seq_no < seq'[data'[i].sensor_id]
             /\ data'[i].seq_no < lastNo'[data'[i].sensor_id]
                  => data'[i].sample_timestamp_us <= lastOut'[data'[i].sensor_id]
  <2>1. PICK j \in DOMAIN data : data'[i] = data[j]
    BY <1>3
  <2>2. TakenTogether(data[j], data[b])
    BY DEF AgesFollowNumbers
  <2> QED BY <1>2, <1>4, <1>5, <2>1, <2>2 DEF TakenTogether
<1>9. \A i, k \in DOMAIN data' : TakenTogether(data'[i], data'[k])
  BY <1>3 DEF AgesFollowNumbers
<1> QED
  BY <1>6, <1>7, <1>8, <1>9 DEF AgesFollowNumbers

\* Each sensor's readings are popped by age, and numbers go back only among
\* readings of one timestamp.
THEOREM SampleOrder == Spec => PopsInSampleOrder
<1> DEFINE Step == \A s \in SensorId : /\ lastOut'[s] >= lastOut[s]
                                       /\ lastNo'[s] < lastNo[s] => lastOut'[s] = lastOut[s]
<1>1. ASSUME IInv, AgesFollowNumbers, [Next]_vars
      PROVE  AgesFollowNumbers' /\ [Step]_vars
  <2>1. CASE Pop
    BY <1>1, <2>1, PopIInv, PopAges
  <2>2. CASE \E s \in SensorId : Push(s)
    <3>1. AgesFollowNumbers'
      BY <1>1, <2>2, PushAges
    <3>2. /\ lastOut' = lastOut /\ lastNo' = lastNo
          /\ lastOut \in [SensorId -> 0..MaxTime]
      BY <1>1, <2>2 DEF Push, IInv, TypeOK
    <3> QED BY <3>1, <3>2
  <2>3. CASE UNCHANGED vars
    BY <1>1, <2>3 DEF vars, AgesFollowNumbers, TakenTogether
  <2> QED BY <1>1, <2>1, <2>2, <2>3 DEF Next
<1> QED
  BY <1>1, InitIInv, NextIInv, InitAges, PTL DEF Spec, PopsInSampleOrder

-----------------------------------------------------------------------------
(***************************************************************************)
(* The buffer implements RetentionQueue.  The abstract queue is a set, so  *)
(* no two entries may be equal; that holds because a sensor numbers its    *)
(* readings and no entry has a number its sensor has not yet reached.      *)
(***************************************************************************)

Entries(s) == {s[i] : i \in DOMAIN s}

NoneTwice(s) == \A i, j \in DOMAIN s : s[i] = s[j] => i = j

Distinct ==
  /\ NoneTwice(data)
  /\ \A i \in DOMAIN data : data[i].seq_no < seq[data[i].sensor_id]

\* A vector without equal entries has as many entries as places.
LEMMA EntriesCounted ==
  ASSUME NEW s \in Seq(Reading), NoneTwice(s)
  PROVE  IsFiniteSet(Entries(s)) /\ Cardinality(Entries(s)) = Len(s)
<1>1. Len(s) \in Nat /\ DOMAIN s = 1..Len(s) /\ s \in [1..Len(s) -> Entries(s)]
  BY DEF Entries
<1>2. s \in Injection(1..Len(s), Entries(s))
  <2>1. \A i, j \in 1..Len(s) : s[i] = s[j] => i = j
    BY <1>1 DEF NoneTwice
  <2> QED BY <1>1, <2>1 DEF Injection, IsInjective
<1>3. s \in Surjection(1..Len(s), Entries(s))
  BY <1>1 DEF Surjection, Entries
<1>4. ExistsBijection(1..Len(s), Entries(s))
  BY <1>2, <1>3 DEF ExistsBijection, Bijection
<1>5. IsFiniteSet(Entries(s))
  <2>1. ExistsSurjection(1..Len(s), Entries(s))
    BY <1>3 DEF ExistsSurjection
  <2> QED BY <1>1, <2>1, FS_NatSurjection
<1> QED BY <1>1, <1>4, <1>5, FS_CountingElements

\* What swap_remove takes out of a vector without equal entries is the removed
\* entry and no other.
LEMMA SwapRemoveEntries ==
  ASSUME NEW s \in Seq(Reading), NoneTwice(s), NEW k \in 1..Len(s)
  PROVE  /\ NoneTwice(SwapRemove(s, k))
         /\ Entries(SwapRemove(s, k)) = Entries(s) \ {s[k]}
<1> DEFINE n == Len(s) - 1
           t == SwapRemove(s, k)
<1>1. n \in Nat /\ k \in 1..(n + 1) /\ Len(s) = n + 1 /\ DOMAIN s = 1..(n + 1)
  OBVIOUS
<1>2. DOMAIN t = 1..n /\ \A i \in 1..n : t[i] = s[IF i = k THEN n + 1 ELSE i]
  BY <1>1 DEF SwapRemove
<1>3. \A i, j \in 1..(n + 1) : s[i] = s[j] => i = j
  BY <1>1 DEF NoneTwice
<1> HIDE DEF n, t
<1>4. NoneTwice(t)
  <2> SUFFICES ASSUME NEW i \in 1..n, NEW j \in 1..n, t[i] = t[j] PROVE i = j
    BY <1>2 DEF NoneTwice
  <2>1. (IF i = k THEN n + 1 ELSE i) = (IF j = k THEN n + 1 ELSE j)
    <3>1. (IF i = k THEN n + 1 ELSE i) \in 1..(n + 1) /\ (IF j = k THEN n + 1 ELSE j) \in 1..(n + 1)
      BY <1>1
    <3>2. s[IF i = k THEN n + 1 ELSE i] = s[IF j = k THEN n + 1 ELSE j]
      BY <1>2
    <3> QED BY <1>3, <3>1, <3>2
  <2> QED BY <1>1, <2>1
<1>5. ASSUME NEW e \in Entries(t) PROVE e \in Entries(s) \ {s[k]}
  <2>1. PICK i \in 1..n : e = t[i]
    BY <1>2 DEF Entries
  <2>2. PICK j \in 1..(n + 1) : j = (IF i = k THEN n + 1 ELSE i)
    BY <1>1
  <2>3. e = s[j] /\ j # k
    BY <1>1, <1>2, <2>1, <2>2
  <2>4. s[j] # s[k]
    BY <1>1, <1>3, <2>3
  <2> QED BY <1>1, <2>3, <2>4 DEF Entries
<1>6. ASSUME NEW e \in Entries(s) \ {s[k]} PROVE e \in Entries(t)
  <2>1. PICK j \in 1..(n + 1) : e = s[j] /\ j # k
    BY <1>1 DEF Entries
  <2>2. PICK i \in 1..n : i = (IF j = n + 1 THEN k ELSE j)
    BY <1>1, <2>1
  <2>3. (IF i = k THEN n + 1 ELSE i) = j
    BY <1>1, <2>1, <2>2
  <2>4. t[i] = e
    BY <1>2, <2>1, <2>3
  <2> QED BY <1>2, <2>4 DEF Entries
<1> QED BY <1>4, <1>5, <1>6 DEF t

LEMMA AppendEntries ==
  ASSUME NEW s \in Seq(Reading), NoneTwice(s), NEW r \in Reading, r \notin Entries(s)
  PROVE  /\ NoneTwice(Append(s, r))
         /\ Entries(Append(s, r)) = Entries(s) \cup {r}
<1> DEFINE n == Len(s)
           t == Append(s, r)
<1>1. /\ n \in Nat /\ DOMAIN s = 1..n /\ DOMAIN t = 1..(n + 1)
      /\ \A i \in 1..n : t[i] = s[i]
      /\ t[n + 1] = r
  OBVIOUS
<1> HIDE DEF n, t
<1>2. \A i \in 1..n : s[i] # r /\ \A j \in 1..n : s[i] = s[j] => i = j
  BY <1>1 DEF NoneTwice, Entries
<1>3. NoneTwice(t)
  <2> SUFFICES ASSUME NEW i \in 1..(n + 1), NEW j \in 1..(n + 1), t[i] = t[j]
               PROVE  i = j
    BY <1>1 DEF NoneTwice
  <2>1. (i \in 1..n \/ i = n + 1) /\ (j \in 1..n \/ j = n + 1)
    BY <1>1
  <2> QED BY <1>1, <1>2, <2>1
<1>4. Entries(t) = Entries(s) \cup {r}
  <2>1. ASSUME NEW e \in Entries(t) PROVE e \in Entries(s) \cup {r}
    <3>1. PICK i \in 1..(n + 1) : e = t[i]
      BY <1>1 DEF Entries
    <3>2. i \in 1..n \/ i = n + 1
      BY <1>1
    <3>3. CASE i \in 1..n
      <4>1. e = s[i] /\ i \in DOMAIN s
        BY <1>1, <3>1, <3>3
      <4> QED BY <4>1 DEF Entries
    <3>4. CASE i = n + 1
      BY <1>1, <3>1, <3>4
    <3> QED BY <3>2, <3>3, <3>4
  <2>2. ASSUME NEW e \in Entries(s) \cup {r} PROVE e \in Entries(t)
    <3>1. CASE e = r
      <4>1. n + 1 \in 1..(n + 1)
        BY <1>1
      <4>2. n + 1 \in DOMAIN t /\ e = t[n + 1]
        BY <1>1, <3>1, <4>1
      <4> QED BY <4>2 DEF Entries
    <3>2. CASE e \in Entries(s)
      <4>1. PICK i \in 1..n : e = s[i]
        BY <1>1, <3>2 DEF Entries
      <4>2. i \in 1..(n + 1) /\ t[i] = e
        BY <1>1, <4>1
      <4> QED BY <1>1, <4>2 DEF Entries
    <3> QED BY <3>1, <3>2
  <2> QED BY <2>1, <2>2
<1> QED BY <1>3, <1>4 DEF t

\* A vector that is not empty has an entry that min_by finds: the first of the
\* youngest of the least urgent.
LEMMA WorstExists ==
  ASSUME data \in Seq(Reading), Len(data) > 0
  PROVE  \E w \in DOMAIN data : IsWorst(w)
<1> DEFINE D == DOMAIN data
           prio(i) == PriorityOf[data[i].sensor_id]
           age(i) == data[i].sample_timestamp_us
<1>1. D = 1..Len(data) /\ Len(data) \in Nat /\ 1 \in D
  OBVIOUS
<1>2. ASSUME NEW i \in D PROVE prio(i) \in 0..3 /\ age(i) \in 0..MaxTime
  <2>1. data[i] \in Reading
    BY <1>1
  <2>2. data[i].sensor_id \in SensorId /\ data[i].sample_timestamp_us \in 0..MaxTime
    BY <2>1 DEF Reading
  <2> QED BY <2>2 DEF PriorityOf
<1> HIDE DEF D, prio, age
<1>3. PICK p \in {prio(i) : i \in D} : \A q \in {prio(i) : i \in D} : q <= p
  <2>1. {prio(i) : i \in D} \in SUBSET (0..3) /\ {prio(i) : i \in D} # {}
    BY <1>1, <1>2
  <2> QED BY <2>1, GreatestElement
<1> DEFINE E == {i \in D : prio(i) = p}
<1>4. E # {}
  OBVIOUS
<1>5. PICK a \in {age(i) : i \in E} : \A q \in {age(i) : i \in E} : q <= a
  <2>1. {age(i) : i \in E} \in SUBSET (0..MaxTime) /\ {age(i) : i \in E} # {}
    BY <1>2, <1>4
  <2> QED BY <2>1, GreatestElement
<1> DEFINE F == {i \in E : age(i) = a}
<1>6. PICK w \in F : \A k \in F : w <= k
  <2>1. F \in SUBSET Nat /\ F # {}
    BY <1>1
  <2> HIDE DEF F
  <2> QED BY <2>1, LeastElement
<1>7. w \in D /\ prio(w) = p /\ age(w) = a
  OBVIOUS
<1>8. ASSUME NEW j \in D
      PROVE  ~Outranks(data[w], data[j]) /\ (j < w => Outranks(data[j], data[w]))
  <2>1. /\ prio(j) \in 0..3 /\ prio(w) \in 0..3 /\ age(j) \in 0..MaxTime
        /\ age(w) \in 0..MaxTime /\ prio(j) <= prio(w)
    BY <1>2, <1>3, <1>7
  <2>2. prio(j) = prio(w) => age(j) <= age(w)
    BY <1>5, <1>7
  <2>3. prio(j) = prio(w) /\ age(j) = age(w) => ~(j < w)
    <3>1. j \in Nat /\ w \in Nat
      BY <1>1, <1>7
    <3>2. prio(j) = prio(w) /\ age(j) = age(w) => w <= j
      BY <1>6, <1>7
    <3> QED BY <3>1, <3>2
  <2>4. /\ Outranks(data[w], data[j])
             <=> prio(w) < prio(j) \/ (prio(w) = prio(j) /\ age(w) < age(j))
        /\ Outranks(data[j], data[w])
             <=> prio(j) < prio(w) \/ (prio(j) = prio(w) /\ age(j) < age(w))
    BY DEF Outranks, prio, age
  <2> HIDE DEF E, F
  <2> QED BY <2>1, <2>2, <2>3, <2>4
<1> QED BY <1>7, <1>8 DEF IsWorst, D


LEMMA SameCardinality == \A S : Retention!Cardinality(S) = Cardinality(S)
  BY DEF Retention!Cardinality, Cardinality

LEMMA DistinctInit == Init => Distinct
  BY DEF Init, Distinct, NoneTwice

\* What each of push's exits does to the set of entries.
LEMMA PushEntries ==
  ASSUME TypeOK, NoneTwice(data), NEW r \in Reading, r \notin Entries(data),
         Insert(r) \/ Replace(r) \/ Reject(r)
  PROVE  /\ NoneTwice(data')
         /\ Entries(data') \subseteq Entries(data) \cup {r}
         /\ Retention!Accept(r) \/ Retention!Overflow(r)
<1>1. /\ data \in Seq(Reading) /\ Len(data) \in Nat /\ DOMAIN data = 1..Len(data)
      /\ Len(data) <= Capacity /\ stats.total_dropped \in Nat
  BY DEF TypeOK
<1>2. {data[i] : i \in DOMAIN data} = Entries(data)
      /\ {data'[i] : i \in DOMAIN data'} = Entries(data')
  BY DEF Entries
<1>3. Retention!Cardinality(Entries(data)) = Len(data)
  BY <1>1, EntriesCounted, SameCardinality
<1>4. CASE Insert(r)
  <2>1. data' = Append(data, r) /\ stats'.total_dropped = stats.total_dropped
        /\ Len(data) < Capacity
    BY <1>1, <1>4 DEF Insert, RefreshStats
  <2>2. NoneTwice(data') /\ Entries(data') = Entries(data) \cup {r}
    BY <1>1, <2>1, AppendEntries
  <2>3. Retention!Accept(r)
    BY <1>2, <1>3, <2>1, <2>2 DEF Retention!Accept
  <2> QED BY <2>2, <2>3
<1>5. CASE Replace(r)
  <2>1. PICK i \in DOMAIN data : IsWorst(i) /\ Outranks(r, data[i])
                                 /\ data' = Append(SwapRemove(data, i), r)
    BY <1>5 DEF Replace
  <2>2. Len(data) = Capacity /\ stats'.total_dropped = stats.total_dropped + 1
    <3>1. Len(data) = Capacity /\ RefreshStats(Len(data), 1, 1)
      <4>1. Len(data) >= Capacity /\ RefreshStats(Len(data), 1, 1)
        BY <1>5 DEF Replace
      <4>2. Len(data) = Capacity
        <5>1. Len(data) >= Capacity
          BY <4>1
        <5>2. Len(data) \in Nat /\ Len(data) <= Capacity /\ Capacity \in Nat
          BY <1>1
        <5> QED BY <5>1, <5>2
      <4> QED BY <4>1, <4>2
    <3> QED BY <1>1, <3>1, RefreshFacts
  <2>3. /\ SwapRemove(data, i) \in Seq(Reading) /\ NoneTwice(SwapRemove(data, i))
        /\ Entries(SwapRemove(data, i)) = Entries(data) \ {data[i]}
    BY <1>1, <2>1, SwapRemoveFacts, SwapRemoveEntries
  <2>4. NoneTwice(data') /\ Entries(data') = (Entries(data) \ {data[i]}) \cup {r}
    BY <2>1, <2>3, AppendEntries
  <2>5. data[i] \in Entries(data) /\ data[i] # r /\ data[i] \in Reading
    BY <1>1, <2>1 DEF Entries
  <2>6. Entries(data') = (Entries(data) \cup {r}) \ {data[i]}
    BY <2>4, <2>5
  <2>7. \A other \in Entries(data) \cup {r} : ~Outranks(data[i], other)
    <3>1. ASSUME NEW other \in Entries(data) PROVE ~Outranks(data[i], other)
      BY <2>1, <3>1 DEF Entries, IsWorst
    <3>2. ~Outranks(data[i], r)
      <4>1. /\ r.sensor_id \in SensorId /\ r.sample_timestamp_us \in Nat
            /\ data[i].sensor_id \in SensorId /\ data[i].sample_timestamp_us \in Nat
        BY <2>5 DEF Reading
      <4>2. PriorityOf[r.sensor_id] \in Nat /\ PriorityOf[data[i].sensor_id] \in Nat
        BY <4>1 DEF PriorityOf
      <4> QED BY <2>1, <4>1, <4>2 DEF Outranks
    <3> QED BY <3>1, <3>2
  <2>8. Retention!Overflow(r)
    BY <1>2, <1>3, <2>2, <2>5, <2>6, <2>7 DEF Retention!Overflow
  <2> QED BY <2>4, <2>8
<1>6. CASE Reject(r)
  <2>1. data' = data /\ Len(data) = Capacity
        /\ stats'.total_dropped = stats.total_dropped + 1
    <3>1. data' = data /\ Len(data) = Capacity /\ RefreshStats(Len(data), 1, 1)
      <4>1. data' = data /\ Len(data) >= Capacity /\ RefreshStats(Len(data), 1, 1)
        BY <1>6 DEF Reject
      <4>2. Len(data) = Capacity
        <5>1. Len(data) >= Capacity
          BY <4>1
        <5>2. Len(data) \in Nat /\ Len(data) <= Capacity /\ Capacity \in Nat
          BY <1>1
        <5> QED BY <5>1, <5>2
      <4> QED BY <4>1, <4>2
    <3> QED BY <1>1, <3>1, RefreshFacts
  <2>2. PICK w \in DOMAIN data : IsWorst(w)
    BY <1>1, <2>1, WorstExists
  <2>3. ~Outranks(r, data[w])
    BY <1>6, <2>2 DEF Reject
  <2>4. ASSUME NEW other \in Entries(data) \cup {r} PROVE ~Outranks(r, other)
    <3>1. other \in Reading /\ data[w] \in Reading
      BY <1>1, <2>2 DEF Entries
    <3>2. /\ r.sensor_id \in SensorId /\ r.sample_timestamp_us \in Nat
          /\ other.sensor_id \in SensorId /\ other.sample_timestamp_us \in Nat
          /\ data[w].sensor_id \in SensorId /\ data[w].sample_timestamp_us \in Nat
      BY <3>1 DEF Reading
    <3>3. /\ PriorityOf[r.sensor_id] \in Nat /\ PriorityOf[other.sensor_id] \in Nat
          /\ PriorityOf[data[w].sensor_id] \in Nat
      BY <3>2 DEF PriorityOf
    <3>4. CASE other = r
      BY <3>2, <3>3, <3>4 DEF Outranks
    <3>5. CASE other # r
      <4>1. ~Outranks(data[w], other)
        BY <2>2, <2>4, <3>5 DEF Entries, IsWorst
      <4> QED BY <2>3, <3>2, <3>3, <4>1 DEF Outranks
    <3> QED BY <3>4, <3>5
  <2>5. Entries(data') = (Entries(data) \cup {r}) \ {r} /\ r \in Entries(data) \cup {r}
    BY <2>1
  <2>6. Retention!Overflow(r)
    BY <1>2, <1>3, <2>1, <2>4, <2>5 DEF Retention!Overflow
  <2> QED BY <2>1, <2>6
<1> QED BY <1>4, <1>5, <1>6

\* A push is an Accept or an Overflow of the reading taken.
LEMMA PushImplements ==
  ASSUME TypeOK, Distinct, NEW s \in SensorId, Push(s)
  PROVE  Distinct' /\ Retention!Next
<1>1. PICK now \in stamp[s]..MaxTime :
        LET r == [sensor_id |-> s, seq_no |-> seq[s], sample_timestamp_us |-> now]
        IN /\ Insert(r) \/ Replace(r) \/ Reject(r)
           /\ stamp' = [stamp EXCEPT ![s] = now]
  BY DEF Push
<1>r. PICK r : r = [sensor_id |-> s, seq_no |-> seq[s], sample_timestamp_us |-> now]
  OBVIOUS
<1>2. /\ seq[s] < MaxSamples /\ seq' = [seq EXCEPT ![s] = @ + 1]
      /\ seq \in [SensorId -> 0..MaxSamples]
  BY DEF Push, TypeOK
<1>3. r \in Reading /\ r.sensor_id = s /\ r.seq_no = seq[s]
  BY <1>1, <1>r, <1>2 DEF TypeOK, Reading
<1>4. Insert(r) \/ Replace(r) \/ Reject(r)
  BY <1>1, <1>r
<1>5. data \in Seq(Reading) /\ NoneTwice(data) /\ DOMAIN data = 1..Len(data)
      /\ \A i \in DOMAIN data : data[i] \in Reading /\ data[i].seq_no < seq[data[i].sensor_id]
  BY DEF TypeOK, Distinct
<1>6. r \notin Entries(data)
  <2> SUFFICES ASSUME NEW i \in DOMAIN data, r = data[i] PROVE FALSE
    BY DEF Entries
  <2>1. r.seq_no < seq[r.sensor_id] /\ seq[s] \in Nat
    BY <1>2, <1>5
  <2> QED BY <1>3, <2>1
<1>7. /\ NoneTwice(data') /\ Entries(data') \subseteq Entries(data) \cup {r}
      /\ Retention!Accept(r) \/ Retention!Overflow(r)
  BY <1>3, <1>4, <1>5, <1>6, PushEntries
<1>8. ASSUME NEW i \in DOMAIN data' PROVE data'[i].seq_no < seq'[data'[i].sensor_id]
  <2>1. data'[i] \in Entries(data) \cup {r}
    BY <1>7 DEF Entries
  <2>2. CASE data'[i] = r
    BY <1>2, <1>3, <2>2
  <2>3. CASE data'[i] \in Entries(data)
    <3>1. PICK j \in DOMAIN data : data'[i] = data[j]
      BY <2>3 DEF Entries
    <3>2. data[j].sensor_id \in SensorId /\ data[j].seq_no \in Nat
          /\ data[j].seq_no < seq[data[j].sensor_id]
      BY <1>5 DEF Reading
    <3> QED BY <1>2, <3>1, <3>2
  <2> QED BY <2>1, <2>2, <2>3
<1>9. Distinct'
  BY <1>7, <1>8 DEF Distinct
<1> QED BY <1>3, <1>7, <1>9 DEF Retention!Next

\* A pop is a Take.
LEMMA PopImplements ==
  ASSUME TypeOK, Distinct, Pop
  PROVE  Distinct' /\ Retention!Next
<1>1. data \in Seq(Reading) /\ NoneTwice(data) /\ DOMAIN data = 1..Len(data)
      /\ \A i \in DOMAIN data : data[i].seq_no < seq[data[i].sensor_id]
  BY DEF TypeOK, Distinct
<1>2. PICK b \in DOMAIN data : IsBest(b) /\ data' = SwapRemove(data, b)
  BY DEF Pop
<1>3. NoneTwice(data') /\ Entries(data') = Entries(data) \ {data[b]}
  BY <1>1, <1>2, SwapRemoveEntries
<1>4. seq' = seq /\ stats'.total_dropped = stats.total_dropped
  BY DEF Pop, RefreshStats, TypeOK
<1>5. ASSUME NEW i \in DOMAIN data' PROVE data'[i].seq_no < seq'[data'[i].sensor_id]
  <2>1. data'[i] \in Entries(data)
    BY <1>3 DEF Entries
  <2> QED BY <1>1, <1>4, <2>1 DEF Entries
<1>6. Distinct'
  BY <1>3, <1>5 DEF Distinct
<1>7. Retention!Take
  <2>1. data[b] \in Entries(data) /\ \A other \in Entries(data) : ~Outranks(other, data[b])
    BY <1>2 DEF Entries, IsBest
  <2>2. {data[i] : i \in DOMAIN data} = Entries(data)
        /\ {data'[i] : i \in DOMAIN data'} = Entries(data')
    BY DEF Entries
  <2> QED BY <1>3, <1>4, <2>1, <2>2 DEF Retention!Take
<1> QED BY <1>6, <1>7 DEF Retention!Next

\* The buffer implements the best-first queue, for every capacity: a full buffer
\* gives up a reading no other is worse than, whichever of push's exits is
\* taken, and pop hands out one no other outranks.
THEOREM Refinement == Spec => KeepsTheBest
<1>1. Init => Retention!Init
  BY DEF Init, Retention!Init
<1>2. IInv /\ Distinct /\ [Next]_vars => Distinct' /\ [Retention!Next]_Retention!vars
  <2> SUFFICES ASSUME IInv, Distinct, [Next]_vars
               PROVE  Distinct' /\ [Retention!Next]_Retention!vars
    OBVIOUS
  <2>0. TypeOK
    BY DEF IInv
  <2>1. CASE Pop
    BY <2>0, <2>1, PopImplements
  <2>2. CASE \E s \in SensorId : Push(s)
    BY <2>0, <2>2, PushImplements
  <2>3. CASE UNCHANGED vars
    BY <2>3 DEF vars, Distinct, NoneTwice, Retention!vars
  <2> QED BY <2>1, <2>2, <2>3 DEF Next
<1> QED
  BY <1>1, <1>2, InitIInv, NextIInv, DistinctInit, PTL DEF Spec, KeepsTheBest, Retention!Spec
=============================================================================
