------------------------- MODULE TelemetryLinkProofs -------------------------
(***************************************************************************)
(* Proofs about TelemetryLink for every size of cache and queue and every  *)
(* number of readings.  That the station's numbers form the abstract       *)
(* stream rests on what every copy of a packet has in common: wherever it  *)
(* waits, it was received or lies ahead on the wire, or it is no older     *)
(* than all that was and does.                                             *)
(***************************************************************************)
EXTENDS TelemetryLink, SequenceTheorems, TLAPS

USE LinkAssumption

\* A packet that was received, or of which a copy is on the wire.
Sent(p) == p.seq \in received \/ \E j \in 1..Len(wire) : wire[j] = p

\* A reading no older than any the wire's first k frames bear, or was received.
Above(n, k) == /\ \A m \in received : Stamp[m] <= Stamp[n]
               /\ \A j \in 1..k : Stamp[wire[j].seq] <= Stamp[n]

\* A reading no younger than the last that left the buffer.
Past(n) == \E k \in latest : Stamp[n] <= Stamp[k]

\* The i-th frame of the wire repeats an earlier one, or is new.
Repeats(i) == \/ wire[i].seq \in received
              \/ \E j \in 1..(i - 1) : wire[j] = wire[i]

WireInv == \A i \in 1..Len(wire) :
             wire[i].corrupted \/ Repeats(i) \/ Above(wire[i].seq, i - 1)

\* A copy kept by the satellite: it left the buffer, and unless it is corrupted
\* it was sent.
Kept(p) == Past(p.seq) /\ (p.corrupted \/ Sent(p))

\* All that was sent left the buffer.
PastInv == /\ \A m \in received : Past(m)
           /\ \A j \in 1..Len(wire) : Past(wire[j].seq)

\* Cache, queue and downlink hold such copies; a reading in the downlink's hands
\* is no older than all that was sent.
CopyInv ==
  /\ \A i \in 1..Len(ring) : Kept(ring[i])
  /\ \A i \in 1..Len(retransmit_q) : Kept(retransmit_q[i])
  /\ found # NoPacket => Kept(found)
  /\ tx = "record" => Kept(pkt)
  /\ tx = "send" => /\ Past(pkt.seq)
                    /\ Kept(pkt) \/ Above(pkt.seq, Len(wire))
  /\ PastInv

\* The last number noted is one of those received.
LastInv == /\ last_seq # NoSeq => last_seq \in received
           /\ last_seq = NoSeq => received = {}

IInv == /\ TypeOK /\ CacheIsDistinct
        /\ WireInv /\ CopyInv
        /\ LastInv /\ LossIsNoticed

-----------------------------------------------------------------------------

\* What follows the first frame keeps its order.
LEMMA TailFacts ==
  ASSUME NEW S, NEW s \in Seq(S), s # <<>>
  PROVE  /\ Tail(s) \in Seq(S) /\ Len(Tail(s)) = Len(s) - 1
         /\ Head(s) = s[1] /\ Head(s) \in S /\ Len(s) \in Nat /\ Len(s) >= 1
         /\ \A i \in 1..(Len(s) - 1) : Tail(s)[i] = s[i + 1] /\ i + 1 \in 1..Len(s)
  OBVIOUS

\* Appending keeps what was there.
LEMMA AppendFacts ==
  ASSUME NEW S, NEW s \in Seq(S), NEW e \in S
  PROVE  /\ Append(s, e) \in Seq(S) /\ Len(Append(s, e)) = Len(s) + 1
         /\ Len(s) \in Nat
         /\ \A i \in 1..Len(s) : Append(s, e)[i] = s[i]
         /\ Append(s, e)[Len(s) + 1] = e
  OBVIOUS

\* Removing position k of a sequence.
LEMMA CutFacts ==
  ASSUME NEW S, NEW s \in Seq(S), NEW k \in 1..Len(s)
  PROVE  LET t == SubSeq(s, 1, k - 1) \o SubSeq(s, k + 1, Len(s))
         IN  /\ t \in Seq(S) /\ Len(t) = Len(s) - 1
             /\ \A i \in 1..(Len(s) - 1) :
                  t[i] = IF i < k THEN s[i] ELSE s[i + 1]
<1> DEFINE a == SubSeq(s, 1, k - 1)
           b == SubSeq(s, k + 1, Len(s))
           n == Len(s)
<1>0. n \in Nat /\ k \in 1..n
  OBVIOUS
<1>1. a \in Seq(S) /\ Len(a) = k - 1 /\ \A i \in 1..(k - 1) : a[i] = s[i]
  BY <1>0
<1>2. b \in Seq(S) /\ Len(b) = n - k /\ \A i \in 1..(n - k) : b[i] = s[k + i]
  BY <1>0
<1> HIDE DEF a, b
<1>3. /\ a \o b \in Seq(S) /\ Len(a \o b) = Len(a) + Len(b)
      /\ \A i \in 1..(Len(a) + Len(b)) :
           (a \o b)[i] = IF i <= Len(a) THEN a[i] ELSE b[i - Len(a)]
  BY <1>1, <1>2, ConcatProperties
<1>4. Len(a \o b) = n - 1
  BY <1>0, <1>1, <1>2, <1>3
<1>5. ASSUME NEW i \in 1..(n - 1)
      PROVE  (a \o b)[i] = IF i < k THEN s[i] ELSE s[i + 1]
  <2>1. n \in Nat /\ k \in 1..n /\ i \in 1..(n - 1)
    BY <1>0
  <2> HIDE DEF n
  <2>2. (a \o b)[i] = IF i <= k - 1 THEN a[i] ELSE b[i - (k - 1)]
    BY <2>1, <1>1, <1>2, <1>3
  <2>3. CASE i < k
    BY <2>1, <2>2, <2>3, <1>1
  <2>4. CASE i >= k
    <3>1. i - (k - 1) \in 1..(n - k) /\ k + (i - (k - 1)) = i + 1
      BY <2>1, <2>4
    <3> QED
      BY <2>1, <2>2, <2>4, <3>1, <1>2
  <2>5. i < k \/ i >= k
    BY <2>1
  <2> QED
    BY <2>3, <2>4, <2>5, Zenon
<1> QED
  BY <1>3, <1>4, <1>5 DEF a, b

\* Without removes the packet numbered n and nothing else.
LEMMA WithoutFacts ==
  ASSUME NEW n \in 0..MaxSeq, ring \in Seq(Packet), CacheIsDistinct
  PROVE  /\ Without(n) \in Seq(Packet)
         /\ Len(Without(n)) <= Len(ring)
         /\ \A i \in 1..Len(Without(n)) :
              Without(n)[i].seq # n /\ \E j \in 1..Len(ring) : Without(n)[i] = ring[j]
         /\ \A i, j \in 1..Len(Without(n)) :
              Without(n)[i].seq = Without(n)[j].seq => i = j
<1>0. DOMAIN ring = 1..Len(ring) /\ Len(ring) \in Nat
  OBVIOUS
<1>1. CASE ~\E i \in DOMAIN ring : ring[i].seq = n
  BY <1>0, <1>1 DEF Without, CacheIsDistinct
<1>2. CASE \E i \in DOMAIN ring : ring[i].seq = n
  <2> DEFINE First(i) == /\ ring[i].seq = n
                         /\ \A j \in 1..(i - 1) : ring[j].seq # n
             pos == CHOOSE i \in DOMAIN ring : First(i)
             t == SubSeq(ring, 1, pos - 1) \o SubSeq(ring, pos + 1, Len(ring))
  <2>1. \E i \in DOMAIN ring : First(i)
    <3>1. PICK i \in DOMAIN ring : ring[i].seq = n
      BY <1>2
    <3>2. \A j \in 1..(i - 1) : ring[j].seq # n
      BY <1>0, <3>1 DEF CacheIsDistinct
    <3> QED
      BY <3>1, <3>2
  <2>2. pos \in 1..Len(ring) /\ ring[pos].seq = n
    BY <1>0, <2>1
  <2>3. Without(n) = t
    BY <1>2 DEF Without
  <2> HIDE DEF pos
  <2>4. /\ t \in Seq(Packet) /\ Len(t) = Len(ring) - 1
        /\ \A i \in 1..(Len(ring) - 1) :
             t[i] = IF i < pos THEN ring[i] ELSE ring[i + 1]
    BY <2>2, CutFacts
  <2> HIDE DEF t
  <2>5. \A i \in 1..Len(t) : \E j \in 1..Len(ring) : j # pos /\ t[i] = ring[j]
    BY <1>0, <2>2, <2>4
  <2>6. \A i \in 1..Len(t) : t[i].seq # n
    BY <1>0, <2>2, <2>5 DEF CacheIsDistinct
  <2>7. ASSUME NEW i \in 1..Len(t), NEW j \in 1..Len(t), t[i].seq = t[j].seq
        PROVE  i = j
    <3> DEFINE at(k) == IF k < pos THEN k ELSE k + 1
    <3>1. /\ at(i) \in 1..Len(ring) /\ t[i] = ring[at(i)]
          /\ at(j) \in 1..Len(ring) /\ t[j] = ring[at(j)]
      BY <1>0, <2>2, <2>4
    <3>2. at(i) = at(j)
      BY <1>0, <2>7, <3>1 DEF CacheIsDistinct
    <3> QED
      BY <1>0, <2>2, <2>4, <3>2
  <2> QED
    BY <1>0, <2>3, <2>4, <2>5, <2>6, <2>7
<1> QED
  BY <1>1, <1>2

\* The capacities hold and every queue carries packets, or numbers.
LEMMA InitTypeOK == Init => TypeOK
  BY DEF Init, TypeOK, Packet, NoPacket, NoSeq

\* TelemetryCache::record keeps packets, distinct, within the capacity.
LEMMA RecordedFacts ==
  ASSUME TypeOK, CacheIsDistinct, NEW p \in Packet
  PROVE  /\ Recorded(p) \in Seq(Packet)
         /\ Len(Recorded(p)) <= CacheCap
         /\ \A i \in 1..Len(Recorded(p)) :
              Recorded(p)[i] = p \/ \E j \in 1..Len(ring) : Recorded(p)[i] = ring[j]
         /\ \A i, j \in 1..Len(Recorded(p)) :
              Recorded(p)[i].seq = Recorded(p)[j].seq => i = j
<1> DEFINE w == Without(p.seq)
           r == Append(w, p)
<1>1. ring \in Seq(Packet) /\ Len(ring) <= CacheCap /\ p.seq \in 0..MaxSeq
      /\ CacheCap \in Nat \ {0} /\ Len(ring) \in Nat
  BY DEF TypeOK, Packet
<1>2. /\ w \in Seq(Packet)
      /\ Len(w) <= Len(ring)
      /\ \A i \in 1..Len(w) :
           w[i].seq # p.seq /\ \E j \in 1..Len(ring) : w[i] = ring[j]
      /\ \A i, j \in 1..Len(w) : w[i].seq = w[j].seq => i = j
  BY <1>1, WithoutFacts
<1> HIDE DEF w
<1>3. /\ r \in Seq(Packet) /\ Len(r) = Len(w) + 1 /\ Len(w) \in Nat
      /\ \A i \in 1..Len(w) : r[i] = w[i]
      /\ r[Len(w) + 1] = p
  BY <1>2, AppendFacts
<1> HIDE DEF r
<1>4. \A i \in 1..Len(r) : r[i] = p \/ \E j \in 1..Len(ring) : r[i] = ring[j]
  BY <1>2, <1>3
<1>5. ASSUME NEW i \in 1..Len(r), NEW j \in 1..Len(r), r[i].seq = r[j].seq
      PROVE  i = j
  <2>1. /\ i = Len(w) + 1 \/ (i \in 1..Len(w) /\ r[i] = w[i] /\ w[i].seq # p.seq)
        /\ j = Len(w) + 1 \/ (j \in 1..Len(w) /\ r[j] = w[j] /\ w[j].seq # p.seq)
    BY <1>2, <1>3
  <2>2. CASE i \in 1..Len(w) /\ j \in 1..Len(w)
    BY <1>2, <1>3, <1>5, <2>2
  <2>3. CASE i = Len(w) + 1 \/ j = Len(w) + 1
    BY <1>3, <1>5, <2>1, <2>3
  <2> QED
    BY <2>1, <2>2, <2>3
<1>6. CASE Len(r) > CacheCap
  <2>1. Recorded(p) = Tail(r) /\ r # <<>>
    BY <1>1, <1>3, <1>6 DEF Recorded, w, r
  <2>2. /\ Tail(r) \in Seq(Packet) /\ Len(Tail(r)) = Len(r) - 1
        /\ Len(r) \in Nat
        /\ \A i \in 1..(Len(r) - 1) : Tail(r)[i] = r[i + 1] /\ i + 1 \in 1..Len(r)
    BY <1>3, <2>1, TailFacts
  <2> HIDE DEF Recorded
  <2>3. \A i, j \in 1..Len(Tail(r)) : Tail(r)[i].seq = Tail(r)[j].seq => i = j
    BY <1>5, <2>2
  <2>4. Len(Tail(r)) <= CacheCap
    BY <1>1, <1>2, <1>3, <2>2
  <2>5. \A i \in 1..Len(Tail(r)) :
          Tail(r)[i] = p \/ \E j \in 1..Len(ring) : Tail(r)[i] = ring[j]
    BY <1>4, <2>2
  <2> QED
    BY <2>1, <2>2, <2>3, <2>4, <2>5
<1>7. CASE ~(Len(r) > CacheCap)
  <2>1. Recorded(p) = r
    BY <1>7 DEF Recorded, w, r
  <2> QED
    BY <1>1, <1>3, <1>4, <1>5, <1>7, <2>1
<1> QED
  BY <1>6, <1>7

\* The downlink's steps keep the types.
LEMMA DownlinkTypeOK ==
  ASSUME TypeOK, CacheIsDistinct, DownlinkWork
  PROVE  TypeOK'
<1> USE DEF reception, history
<1>1. CASE PickRetransmit
  <2>1. /\ Tail(retransmit_q) \in Seq(Packet)
        /\ Len(Tail(retransmit_q)) = Len(retransmit_q) - 1
        /\ Head(retransmit_q) \in Packet
    BY <1>1, TailFacts DEF TypeOK, PickRetransmit
  <2>2. Head(retransmit_q) # NoPacket
    BY <2>1 DEF Packet, NoPacket, NoSeq
  <2> QED
    BY <1>1, <2>1, <2>2 DEF TypeOK, PickRetransmit
<1>2. CASE PickReading
  <2>1. PICK n \in (0..MaxSeq) \ latest, bad \in Corruption :
          /\ latest' = {m \in latest : Stamp[m] = Stamp[n]} \cup {n}
          /\ pkt' = [seq |-> n, corrupted |-> bad]
    BY <1>2 DEF PickReading
  <2>2. /\ latest' \subseteq 0..MaxSeq /\ \A a, b \in latest' : Stamp[a] = Stamp[b]
        /\ pkt' \in Packet
    BY <2>1 DEF TypeOK, Packet
  <2>3. pkt' # NoPacket
    BY <2>2 DEF Packet, NoPacket, NoSeq
  <2> QED
    BY <1>2, <2>2, <2>3 DEF TypeOK, PickReading
<1>3. CASE SendInTime \/ SendLate
  <2>1. pkt \in Packet /\ wire \in Seq(Packet) /\ Len(wire) < MaxWire
    BY <1>3 DEF TypeOK, SendInTime, SendLate
  <2>2. /\ Append(wire, pkt) \in Seq(Packet)
        /\ Len(Append(wire, pkt)) = Len(wire) + 1 /\ Len(wire) \in Nat
    BY <2>1, AppendFacts
  <2>3. wire' \in Seq(Packet) /\ Len(wire') <= MaxWire
    BY <1>3, <2>1, <2>2 DEF SendInTime, SendLate
  <2> QED
    BY <1>3, <2>3 DEF TypeOK, SendInTime, SendLate
<1>4. CASE SendFails
  BY <1>4 DEF TypeOK, SendFails
<1>5. CASE Record
  <2>1. pkt \in Packet
    BY <1>5 DEF TypeOK, Record
  <2>2. ring' \in Seq(Packet) /\ Len(ring') <= CacheCap
    BY <1>5, <2>1, RecordedFacts DEF Record
  <2> QED
    BY <1>5, <2>2 DEF TypeOK, Record
<1> QED
  BY <1>1, <1>2, <1>3, <1>4, <1>5 DEF DownlinkWork

\* So do the steps of a request.
LEMMA RequestTypeOK ==
  ASSUME TypeOK, RequestWork
  PROVE  TypeOK'
<1> USE DEF satellite, reception, history
<1>0. requests \in Seq(0..(MaxSeq + 1)) /\ Len(requests) <= MaxRequests
  BY DEF TypeOK
<1>1. CASE Reject
  <2>1. requests' \in Seq(0..(MaxSeq + 1)) /\ Len(requests') <= MaxRequests
    BY <1>0, <1>1, TailFacts DEF Reject
  <2> QED
    BY <1>1, <2>1 DEF TypeOK, Reject
<1>2. CASE LookUp
  <2>1. requests' \in Seq(0..(MaxSeq + 1)) /\ Len(requests') <= MaxRequests
    BY <1>0, <1>2, TailFacts DEF LookUp
  <2>2. found' \in Packet \cup {NoPacket}
    BY <1>2 DEF TypeOK, LookUp
  <2> QED
    BY <1>2, <2>1, <2>2 DEF TypeOK, LookUp
<1>3. CASE Requeue
  <2> DEFINE q == IF Len(retransmit_q) >= RetransmitCap
                  THEN Tail(retransmit_q) ELSE retransmit_q
  <2>1. /\ found \in Packet /\ retransmit_q \in Seq(Packet)
        /\ Len(retransmit_q) <= RetransmitCap /\ RetransmitCap \in Nat \ {0}
    BY <1>3 DEF TypeOK, Requeue
  <2>2. q \in Seq(Packet) /\ Len(q) < RetransmitCap
    <3>1. CASE Len(retransmit_q) >= RetransmitCap
      <4>1. retransmit_q # <<>>
        BY <2>1, <3>1
      <4> QED
        BY <2>1, <3>1, <4>1, TailFacts
    <3>2. CASE ~(Len(retransmit_q) >= RetransmitCap)
      BY <2>1, <3>2
    <3> QED
      BY <3>1, <3>2
  <2> HIDE DEF q
  <2>3. Append(q, found) \in Seq(Packet) /\ Len(Append(q, found)) <= RetransmitCap
    BY <2>1, <2>2, AppendFacts
  <2>4. retransmit_q' = Append(q, found)
    BY <1>3 DEF Requeue, q
  <2> QED
    BY <1>3, <2>3, <2>4 DEF TypeOK, Requeue
<1> QED
  BY <1>1, <1>2, <1>3 DEF RequestWork

\* And those of reception.
LEMMA GroundTypeOK ==
  ASSUME TypeOK, GroundWork \/ AskForLate
  PROVE  TypeOK'
<1> USE DEF satellite, reception, history
<1>0. requests \in Seq(0..(MaxSeq + 1)) /\ Len(requests) <= MaxRequests
      /\ wire \in Seq(Packet) /\ Len(wire) <= MaxWire
  BY DEF TypeOK
<1>1. ASSUME wire # <<>>, wire' = Tail(wire)
      PROVE  wire' \in Seq(Packet) /\ Len(wire') <= MaxWire
             /\ Head(wire).seq \in 0..MaxSeq
  <2>1. Tail(wire) \in Seq(Packet) /\ Len(Tail(wire)) = Len(wire) - 1
        /\ Head(wire) \in Packet
    BY <1>0, <1>1, TailFacts
  <2> QED
    BY <1>0, <1>1, <2>1 DEF Packet
<1>2. \A n \in 0..MaxSeq : Skipped(n) \subseteq 0..MaxSeq
  BY DEF TypeOK, Skipped, NoSeq
<1>3. CASE ReceiveCorrupted
  BY <1>1, <1>3 DEF TypeOK, ReceiveCorrupted
<1>4. CASE ReceiveContended
  BY <1>1, <1>2, <1>4 DEF TypeOK, ReceiveContended
<1>5. CASE Receive
  <2>1. last_seq \in {NoSeq} \cup 0..MaxSeq
    BY DEF TypeOK
  <2>2. requests' \in Seq(0..(MaxSeq + 1)) /\ Len(requests') <= MaxRequests
    <3>1. CASE Skipped(Head(wire).seq) = {}
      BY <1>0, <1>5, <3>1 DEF Receive
    <3>2. CASE Skipped(Head(wire).seq) # {}
      <4>1. last_seq + 1 \in 0..(MaxSeq + 1)
        BY <2>1, <3>2 DEF Skipped
      <4>2. requests' = Append(requests, last_seq + 1) /\ Len(requests) < MaxRequests
        BY <1>5, <3>2 DEF Receive
      <4> QED
        BY <1>0, <4>1, <4>2, AppendFacts
    <3> QED
      BY <3>1, <3>2
  <2>3. Head(wire).seq \in 0..MaxSeq /\ wire' \in Seq(Packet) /\ Len(wire') <= MaxWire
    BY <1>1, <1>5 DEF Receive
  <2>4. noticed' \subseteq 0..MaxSeq
    BY <1>2, <1>5, <2>3 DEF Receive, TypeOK
  <2>5. received' \subseteq 0..MaxSeq /\ last_seq' \in 0..MaxSeq
    BY <1>5, <2>3 DEF Receive, TypeOK
  <2> QED
    BY <1>5, <2>2, <2>3, <2>4, <2>5 DEF TypeOK, Receive
<1>6. CASE AskForLate
  <2>1. Expected \in 0..(MaxSeq + 1)
    BY DEF TypeOK, Expected, NoSeq
  <2>2. requests' \in Seq(0..(MaxSeq + 1)) /\ Len(requests') <= MaxRequests
    BY <1>0, <1>6, <2>1, AppendFacts DEF AskForLate
  <2> QED
    BY <1>6, <2>1, <2>2 DEF TypeOK, AskForLate
<1> QED
  BY <1>3, <1>4, <1>5, <1>6 DEF GroundWork

\* A frame that enters the wire is a copy of one that was sent or is newer than
\* all that was; either way the wire keeps its order.
LEMMA WireGrows ==
  ASSUME TypeOK, WireInv, CopyInv, tx = "send", wire' = Append(wire, pkt),
         UNCHANGED <<latest, ring, retransmit_q, found, received>>,
         (tx' = "record" /\ pkt' = pkt) \/ (tx' = "pick" /\ pkt' = NoPacket)
  PROVE  WireInv' /\ CopyInv'
<1>0. /\ pkt \in Packet /\ wire \in Seq(Packet) /\ Len(wire) \in Nat
      /\ pkt.seq \in 0..MaxSeq /\ Past(pkt.seq)
      /\ ring \in Seq(Packet) /\ retransmit_q \in Seq(Packet)
  BY DEF TypeOK, CopyInv, Packet
<1>1. /\ wire' \in Seq(Packet) /\ Len(wire') = Len(wire) + 1
      /\ \A j \in 1..Len(wire) : wire'[j] = wire[j]
      /\ wire'[Len(wire) + 1] = pkt
  BY <1>0, AppendFacts
<1>2. \A q : Sent(q) => Sent(q)'
  <2>1. \A j \in 1..Len(wire) : j \in 1..Len(wire') /\ wire'[j] = wire[j]
    BY <1>0, <1>1
  <2> QED
    BY <2>1 DEF Sent
<1>3. \A q : q = pkt => Sent(q)'
  <2>1. Len(wire) + 1 \in 1..Len(wire') /\ wire'[Len(wire) + 1] = pkt
    BY <1>0, <1>1
  <2> QED
    BY <2>1 DEF Sent
<1>4. WireInv'
  <2> SUFFICES ASSUME NEW i \in 1..Len(wire')
               PROVE  wire'[i].corrupted \/ Repeats(i)' \/ Above(wire[i].seq, i - 1)'
    BY DEF WireInv
  <2>1. CASE i \in 1..Len(wire)
    <3>1. wire'[i] = wire[i] /\ i \in Nat
      BY <1>1, <2>1
    <3>2. \A j \in 1..(i - 1) : j \in 1..Len(wire) /\ wire'[j] = wire[j]
      BY <1>0, <1>1, <2>1
    <3>3. Repeats(i) => Repeats(i)'
      BY <3>1, <3>2 DEF Repeats
    <3>4. Above(wire[i].seq, i - 1) => Above(wire[i].seq, i - 1)'
      BY <3>1, <3>2 DEF Above
    <3> QED
      BY <2>1, <3>1, <3>3, <3>4 DEF WireInv
  <2>2. CASE i = Len(wire) + 1
    <3>1. wire'[i] = pkt /\ i - 1 = Len(wire)
      BY <1>0, <1>1, <2>2
    <3>2. Sent(pkt) => Repeats(i)'
      BY <1>0, <1>1, <2>2, <3>1 DEF Sent, Repeats
    <3>3. Above(pkt.seq, Len(wire)) => Above(wire[i].seq, i - 1)'
      BY <1>0, <1>1, <3>1 DEF Above
    <3> QED
      BY <3>1, <3>2, <3>3 DEF CopyInv, Kept
  <2> QED
    BY <1>0, <1>1, <2>1, <2>2
<1>5. PastInv'
  <2>1. \A j \in 1..Len(wire') : Past(wire'[j].seq)
    <3>1. \A j \in 1..Len(wire') : j \in 1..Len(wire) \/ j = Len(wire) + 1
      BY <1>0, <1>1
    <3> QED
      BY <1>0, <1>1, <3>1 DEF CopyInv, PastInv
  <2> QED
    BY <2>1 DEF CopyInv, PastInv, Past
<1>6. \A q : Kept(q) => Kept(q)'
  BY <1>2 DEF Kept, Past
<1>7. tx' = "record" => Kept(pkt)'
  BY <1>0, <1>3 DEF Kept, Past
<1> QED
  BY <1>4, <1>5, <1>6, <1>7 DEF CopyInv, Kept, Sent, Past

\* A frame that leaves the wire is accepted, unless it is corrupted: copies of
\* it were sent as before, and what is newer is newer than it.
LEMMA WireShrinks ==
  ASSUME TypeOK, WireInv, CopyInv, wire # <<>>, wire' = Tail(wire),
         UNCHANGED satellite,
         IF wire[1].corrupted THEN received' = received
         ELSE received' = received \cup {wire[1].seq}
  PROVE  WireInv' /\ CopyInv'
<1>0. wire \in Seq(Packet) /\ received \subseteq Nat
  BY DEF TypeOK
<1>1. /\ wire' \in Seq(Packet) /\ Len(wire') = Len(wire) - 1
      /\ Len(wire) \in Nat /\ Len(wire) >= 1
      /\ \A i \in 1..(Len(wire) - 1) : wire'[i] = wire[i + 1] /\ i + 1 \in 1..Len(wire)
  BY <1>0, TailFacts
<1>2. \A p : p.corrupted \/ (Sent(p) => Sent(p)')
  <2> SUFFICES ASSUME NEW p, ~p.corrupted, Sent(p) PROVE Sent(p)'
    OBVIOUS
  <2>1. CASE p.seq \in received
    BY <2>1 DEF Sent
  <2>2. CASE \E j \in 1..Len(wire) : wire[j] = p
    <3>1. PICK j \in 1..Len(wire) : wire[j] = p
      BY <2>2
    <3>2. CASE j = 1
      BY <3>1, <3>2 DEF Sent
    <3>3. CASE j # 1
      <4>1. j - 1 \in 1..Len(wire') /\ wire'[j - 1] = p
        BY <1>1, <3>1, <3>3
      <4> QED
        BY <4>1 DEF Sent
    <3> QED
      BY <3>2, <3>3
  <2> QED
    BY <2>1, <2>2 DEF Sent
<1>3. ASSUME NEW n, NEW k \in 1..Len(wire), Above(n, k)
      PROVE  Above(n, k - 1)'
  <2>1. Stamp[wire[1].seq] <= Stamp[n]
    BY <1>1, <1>3 DEF Above
  <2>2. \A m \in received' : Stamp[m] <= Stamp[n]
    BY <1>3, <2>1 DEF Above
  <2>3. \A j \in 1..(k - 1) : Stamp[wire'[j].seq] <= Stamp[n]
    BY <1>1, <1>3 DEF Above
  <2> QED
    BY <2>2, <2>3 DEF Above
<1>4. WireInv'
  <2> SUFFICES ASSUME NEW i \in 1..Len(wire'), ~wire'[i].corrupted
               PROVE  Repeats(i)' \/ Above(wire[i].seq, i - 1)'
    BY Zenon DEF WireInv
  <2>1. /\ wire'[i] = wire[i + 1] /\ i + 1 \in 1..Len(wire) /\ i \in 1..Len(wire)
        /\ wire[i + 1] \in Packet
    BY <1>0, <1>1
  <2>2. wire[i + 1].seq \in Nat
    BY <2>1 DEF Packet
  <2>3. CASE wire[i + 1].seq \in received
    BY <2>1, <2>3 DEF Repeats
  <2>4. CASE \E j \in 1..i : wire[j] = wire[i + 1]
    <3>1. PICK j \in 1..i : wire[j] = wire[i + 1]
      BY <2>4
    <3>2. CASE j = 1
      BY <2>1, <3>1, <3>2 DEF Repeats
    <3>3. CASE j # 1
      <4>1. j - 1 \in 1..(i - 1) /\ wire'[j - 1] = wire'[i]
        BY <1>1, <2>1, <3>1, <3>3
      <4> QED
        BY <4>1 DEF Repeats
    <3> QED
      BY <3>2, <3>3
  <2>5. CASE Above(wire[i + 1].seq, i)
    <3>1. PICK n \in Nat : n = wire[i + 1].seq
      BY <2>2
    <3>2. Above(n, i - 1)'
      BY <1>3, <2>1, <2>5, <3>1
    <3> QED
      BY <2>1, <3>1, <3>2 DEF Above
  <2>6. (i + 1) - 1 = i
    BY <2>1
  <2>7. Repeats(i + 1) \/ Above(wire[i + 1].seq, i)
    BY <2>1, <2>6 DEF WireInv
  <2> QED
    BY <2>3, <2>4, <2>5, <2>6, <2>7 DEF Repeats
<1>5. CopyInv'
  <2>1. /\ latest' = latest /\ tx' = tx /\ pkt' = pkt /\ ring' = ring
        /\ retransmit_q' = retransmit_q /\ found' = found
    BY DEF satellite
  <2>2. PastInv'
    <3>1. \A m \in received' : m \in received \/ m = wire[1].seq
      OBVIOUS
    <3>2. 1 \in 1..Len(wire)
      BY <1>1
    <3>3. \A m \in received' : Past(m)
      BY <3>1, <3>2 DEF CopyInv, PastInv
    <3>4. \A j \in 1..Len(wire') : Past(wire'[j].seq)
      BY <1>1 DEF CopyInv, PastInv
    <3> QED
      BY <2>1, <3>3, <3>4 DEF PastInv, Past
  <2>3. tx = "send" => pkt.seq \in Nat
    BY DEF TypeOK, Packet
  <2>4. \A p : Kept(p) => Kept(p)'
    BY <1>2, <2>1 DEF Kept, Past
  <2>5. tx = "send" /\ Above(pkt.seq, Len(wire)) => Above(pkt.seq, Len(wire))'
    <3>1. SUFFICES ASSUME tx = "send", Above(pkt.seq, Len(wire))
                   PROVE  Above(pkt.seq, Len(wire))'
      OBVIOUS
    <3>2. PICK n \in Nat : n = pkt.seq
      BY <2>3, <3>1
    <3>0. Len(wire) \in 1..Len(wire)
      BY <1>1
    <3>3. PICK k \in 1..Len(wire) : k = Len(wire)
      BY <3>0
    <3>4. Above(n, k)
      BY <3>1, <3>2, <3>3
    <3>5. Above(n, k - 1)'
      BY <1>3, <3>4
    <3>6. Len(wire') = k - 1 /\ pkt'.seq = n
      BY <1>1, <2>1, <3>2, <3>3
    <3> QED
      BY <3>5, <3>6 DEF Above
  <2> QED
    BY <2>1, <2>2, <2>4, <2>5 DEF CopyInv, Kept, Sent, Past
<1> QED
  BY <1>4, <1>5

-----------------------------------------------------------------------------

\* Steps that leave wire and received numbers alone.
LEMMA WireUntouched ==
  ASSUME UNCHANGED <<wire, received>>
  PROVE  /\ \A p : Sent(p)' <=> Sent(p)
         /\ latest' = latest => \A p : Kept(p)' <=> Kept(p)
         /\ latest' = latest => (PastInv' <=> PastInv)
         /\ \A n, k : Above(n, k)' <=> Above(n, k)
         /\ WireInv => WireInv'
  BY DEF Sent, Above, Kept, Past, PastInv, WireInv, Repeats

\* The downlink's steps keep the order of the wire and the origin of copies.
LEMMA DownlinkCopyInv ==
  ASSUME TypeOK, CacheIsDistinct, WireInv, CopyInv, DownlinkWork
  PROVE  WireInv' /\ CopyInv'
<1> USE DEF reception, history
<1>1. CASE PickRetransmit
  <2>0. UNCHANGED <<wire, received, latest, ring, found>> /\ tx = "pick"
    BY <1>1 DEF PickRetransmit
  <2>1. retransmit_q \in Seq(Packet) /\ retransmit_q # <<>>
    BY <1>1 DEF TypeOK, PickRetransmit
  <2>2. /\ Head(retransmit_q) = retransmit_q[1] /\ 1 \in 1..Len(retransmit_q)
        /\ Head(retransmit_q) \in Packet
        /\ Len(Tail(retransmit_q)) = Len(retransmit_q) - 1
        /\ \A i \in 1..(Len(retransmit_q) - 1) :
             /\ Tail(retransmit_q)[i] = retransmit_q[i + 1]
             /\ i + 1 \in 1..Len(retransmit_q)
    BY <2>1, TailFacts
  <2>3. \A i \in 1..Len(retransmit_q') :
          Kept(retransmit_q'[i])
    BY <1>1, <2>2 DEF PickRetransmit, CopyInv
  <2>4. Kept(Head(retransmit_q))
    BY <2>2 DEF CopyInv
  <2>6. \/ pkt' = Head(retransmit_q) /\ tx' = "send"
        \/ pkt' = pkt /\ tx' = "pick"
    BY <1>1 DEF PickRetransmit
  <2>7. CASE pkt' = Head(retransmit_q) /\ tx' = "send"
    <3>1. Kept(pkt')
      BY <2>4, <2>7
    <3> QED
      BY <2>0, <2>3, <2>7, <3>1, WireUntouched DEF CopyInv, PastInv, Kept, Sent, Above, Past
  <2>8. CASE pkt' = pkt /\ tx' = "pick"
    BY <2>0, <2>3, <2>8, WireUntouched DEF CopyInv, PastInv, Kept, Sent, Above, Past
  <2> QED
    BY <2>6, <2>7, <2>8
<1>2. CASE PickReading
  <2>0. UNCHANGED <<wire, received, ring, retransmit_q, found>> /\ tx' = "send"
    BY <1>2 DEF PickReading
  <2>1. PICK n \in (0..MaxSeq) \ latest, bad \in Corruption :
          /\ \A m \in latest : Stamp[m] <= Stamp[n]
          /\ latest' = {m \in latest : Stamp[m] = Stamp[n]} \cup {n}
          /\ pkt' = [seq |-> n, corrupted |-> bad]
    BY <1>2 DEF PickReading
  <2>2. /\ n \in latest' /\ pkt'.seq = n /\ Stamp[n] \in Nat
        /\ \A m \in 0..MaxSeq : Stamp[m] \in Nat
        /\ latest \subseteq 0..MaxSeq
    BY <2>1, StampAssumption DEF TypeOK
  <2>3. ASSUME NEW m \in 0..MaxSeq, Past(m)
        PROVE  Stamp[m] <= Stamp[n] /\ Past(m)'
    <3>1. PICK k \in latest : Stamp[m] <= Stamp[k]
      BY <2>3 DEF Past
    <3>2. Stamp[m] <= Stamp[n]
      BY <2>1, <2>2, <3>1
    <3> QED
      BY <2>2, <3>2 DEF Past
  <2>4. /\ \A m \in received : m \in 0..MaxSeq /\ Past(m)
        /\ \A j \in 1..Len(wire) : wire[j].seq \in 0..MaxSeq /\ Past(wire[j].seq)
    <3>1. \A j \in 1..Len(wire) : wire[j] \in Packet
      BY DEF TypeOK
    <3> QED
      BY <3>1 DEF TypeOK, Packet, CopyInv, PastInv
  <2>5. \A p : p.seq \in 0..MaxSeq /\ Kept(p) => Kept(p)'
    BY <2>0, <2>3, WireUntouched DEF Kept
  <2>6. /\ \A i \in 1..Len(ring) : ring[i].seq \in 0..MaxSeq
        /\ \A i \in 1..Len(retransmit_q) : retransmit_q[i].seq \in 0..MaxSeq
        /\ found # NoPacket => found.seq \in 0..MaxSeq
    <3>1. /\ \A i \in 1..Len(ring) : ring[i] \in Packet
          /\ \A i \in 1..Len(retransmit_q) : retransmit_q[i] \in Packet
          /\ found # NoPacket => found \in Packet
      BY DEF TypeOK
    <3> QED
      BY <3>1 DEF Packet
  <2>7. /\ \A i \in 1..Len(ring') : Kept(ring[i])'
        /\ \A i \in 1..Len(retransmit_q') : Kept(retransmit_q[i])'
        /\ found' # NoPacket => Kept(found)'
    <3>1. /\ \A i \in 1..Len(ring) : Kept(ring[i])
          /\ \A i \in 1..Len(retransmit_q) : Kept(retransmit_q[i])
          /\ found # NoPacket => Kept(found)
      BY DEF CopyInv
    <3>2. \A i \in 1..Len(ring') : Kept(ring[i])'
      BY <2>0, <2>5, <2>6, <3>1 DEF Kept, Sent, Past
    <3>3. \A i \in 1..Len(retransmit_q') : Kept(retransmit_q[i])'
      BY <2>0, <2>5, <2>6, <3>1 DEF Kept, Sent, Past
    <3>4. found' # NoPacket => Kept(found)'
      BY <2>0, <2>5, <2>6, <3>1 DEF Kept, Sent, Past
    <3> QED
      BY <3>2, <3>3, <3>4
  <2>8. PastInv' /\ Above(pkt.seq, Len(wire))' /\ Past(pkt.seq)'
    <3>1. PastInv'
      BY <2>0, <2>3, <2>4 DEF PastInv, Past
    <3>2. Above(n, Len(wire))
      BY <2>3, <2>4 DEF Above
    <3>3. Above(pkt.seq, Len(wire))'
      BY <2>0, <2>2, <3>2 DEF Above
    <3>4. Past(pkt.seq)'
      BY <2>2 DEF Past
    <3> QED
      BY <3>1, <3>3, <3>4
  <2> QED
    BY <2>0, <2>7, <2>8, WireUntouched DEF CopyInv, PastInv
<1>3. CASE SendInTime
  BY <1>3, WireGrows DEF SendInTime
<1>4. CASE SendLate
  BY <1>4, WireGrows DEF SendLate
<1>5. CASE SendFails
  BY <1>5, WireUntouched DEF SendFails, CopyInv, PastInv, Kept, Sent, Above, Past
<1>6. CASE Record
  <2>0. UNCHANGED <<wire, received, latest, retransmit_q, found>> /\ tx' = "pick"
    BY <1>6 DEF Record
  <2>1. pkt \in Packet /\ tx = "record"
    BY <1>6 DEF TypeOK, Record
  <2>2. \A i \in 1..Len(ring') :
          ring'[i] = pkt \/ \E j \in 1..Len(ring) : ring'[i] = ring[j]
    BY <1>6, <2>1, RecordedFacts DEF Record
  <2>3. \A i \in 1..Len(ring') : Kept(ring'[i])
    BY <2>1, <2>2 DEF CopyInv
  <2> QED
    BY <2>0, <2>3, WireUntouched DEF CopyInv, PastInv, Kept, Sent, Above, Past
<1> QED
  BY <1>1, <1>2, <1>3, <1>4, <1>5, <1>6 DEF DownlinkWork

\* A request moves copies of what is in the cache.
LEMMA RequestCopyInv ==
  ASSUME TypeOK, WireInv, CopyInv, RequestWork
  PROVE  WireInv' /\ CopyInv'
<1> USE DEF satellite, reception, history
<1>1. CASE Reject
  BY <1>1, WireUntouched DEF Reject, CopyInv, PastInv, Kept, Sent, Above, Past
<1>2. CASE LookUp
  <2>1. found' # NoPacket => \E i \in 1..Len(ring) : found' = ring[i]
    <3> DEFINE Hits == {i \in DOMAIN ring : ring[i].seq = Head(requests)}
    <3>1. Hits # {} => (CHOOSE i \in Hits : TRUE) \in Hits
      OBVIOUS
    <3>2. DOMAIN ring = 1..Len(ring)
      BY DEF TypeOK
    <3>3. found' = IF Hits = {} THEN NoPacket ELSE ring[CHOOSE i \in Hits : TRUE]
      BY <1>2 DEF LookUp
    <3> QED
      BY <3>1, <3>2, <3>3
  <2>2. found' # NoPacket => Kept(found')
    BY <2>1 DEF CopyInv
  <2> QED
    BY <1>2, <2>2, WireUntouched DEF LookUp, CopyInv, PastInv, Kept, Sent, Above, Past
<1>3. CASE Requeue
  <2> DEFINE q == IF Len(retransmit_q) >= RetransmitCap
                  THEN Tail(retransmit_q) ELSE retransmit_q
  <2>0. UNCHANGED <<wire, received, latest, ring, tx, pkt>> /\ found' = NoPacket
    BY <1>3 DEF Requeue
  <2>1. found \in Packet /\ retransmit_q \in Seq(Packet) /\ found # NoPacket
    BY <1>3 DEF TypeOK, Requeue
  <2>2. /\ q \in Seq(Packet)
        /\ \A i \in 1..Len(q) : \E j \in 1..Len(retransmit_q) : q[i] = retransmit_q[j]
    <3>1. CASE Len(retransmit_q) >= RetransmitCap
      <4>1. retransmit_q # <<>>
        BY <2>1, <3>1
      <4> QED
        BY <2>1, <3>1, <4>1, TailFacts
    <3>2. CASE ~(Len(retransmit_q) >= RetransmitCap)
      BY <2>1, <3>2
    <3> QED
      BY <3>1, <3>2
  <2>3. retransmit_q' = Append(q, found)
    BY <1>3 DEF Requeue
  <2> HIDE DEF q
  <2>4. \A i \in 1..Len(retransmit_q') :
          retransmit_q'[i] = found \/ \E j \in 1..Len(q) : retransmit_q'[i] = q[j]
    BY <2>1, <2>2, <2>3, AppendFacts
  <2>5. \A i \in 1..Len(retransmit_q') :
          Kept(retransmit_q'[i])
    BY <2>1, <2>2, <2>4 DEF CopyInv
  <2> QED
    BY <2>0, <2>5, WireUntouched DEF CopyInv, PastInv, Kept, Sent, Above, Past
<1> QED
  BY <1>1, <1>2, <1>3 DEF RequestWork

\* Reception takes frames off the wire in order.
LEMMA GroundCopyInv ==
  ASSUME TypeOK, WireInv, CopyInv, GroundWork \/ AskForLate
  PROVE  WireInv' /\ CopyInv'
<1>0. wire # <<>> => Head(wire) = wire[1]
  BY TailFacts DEF TypeOK
<1>1. CASE ReceiveCorrupted
  BY <1>0, <1>1, WireShrinks DEF ReceiveCorrupted, history
<1>2. CASE ReceiveContended
  BY <1>0, <1>2, WireShrinks DEF ReceiveContended
<1>3. CASE Receive
  BY <1>0, <1>3, WireShrinks DEF Receive
<1>4. CASE AskForLate
  BY <1>4, WireUntouched DEF AskForLate, CopyInv, PastInv, Kept, Sent, Above, Past,
                               satellite, history
<1> QED
  BY <1>1, <1>2, <1>3, <1>4 DEF GroundWork

\* Only record changes the cache.
LEMMA CacheInv ==
  ASSUME TypeOK, CacheIsDistinct, Next
  PROVE  CacheIsDistinct'
<1>1. CASE Record
  <2>1. pkt \in Packet
    BY <1>1 DEF TypeOK, Record
  <2>2. /\ Recorded(pkt) \in Seq(Packet)
        /\ \A i, j \in 1..Len(Recorded(pkt)) :
             Recorded(pkt)[i].seq = Recorded(pkt)[j].seq => i = j
    BY <2>1, RecordedFacts
  <2>3. ring' = Recorded(pkt)
    BY <1>1 DEF Record
  <2> HIDE DEF Recorded
  <2> QED
    BY <2>2, <2>3 DEF CacheIsDistinct
<1>2. CASE ~Record
  <2>1. ring' = ring
    BY <1>2
    DEF Next, DownlinkWork, RequestWork, GroundWork, satellite, PickRetransmit,
        PickReading, SendInTime, SendLate, SendFails, Reject, LookUp, Requeue,
        ReceiveCorrupted, ReceiveContended, Receive, AskForLate
  <2> QED
    BY <2>1 DEF CacheIsDistinct
<1> QED
  BY <1>1, <1>2

\* The first frame of the wire, unless it is corrupted, repeats a number or is
\* no older than all received.
LEMMA HeadIsRepeatOrNew ==
  ASSUME TypeOK, WireInv, wire # <<>>, ~Head(wire).corrupted
  PROVE  /\ Head(wire).seq \in 0..MaxSeq
         /\ \/ Head(wire).seq \in received
            \/ \A m \in received : Stamp[m] <= Stamp[Head(wire).seq]
<1>1. /\ Head(wire) = wire[1] /\ Head(wire) \in Packet /\ 1 \in 1..Len(wire)
  BY TailFacts DEF TypeOK
<1>2. Repeats(1) \/ Above(wire[1].seq, 0)
  BY <1>1 DEF WireInv
<1> QED
  BY <1>1, <1>2 DEF Repeats, Above, Packet

\* What is missed between two numbers received is noticed with the later one.
LEMMA ReceptionInv ==
  ASSUME TypeOK, WireInv, LastInv, LossIsNoticed, Next
  PROVE  LastInv' /\ LossIsNoticed'
<1> DEFINE n == Head(wire).seq
<1>0. /\ last_seq \in {NoSeq} \cup 0..MaxSeq
      /\ received \subseteq 0..MaxSeq
  BY DEF TypeOK
<1>1. CASE ReceiveContended \/ Receive
  <2>1. /\ wire # <<>> /\ ~Head(wire).corrupted
        /\ last_seq' = n /\ received' = received \cup {n}
        /\ noticed \subseteq noticed' /\ hidden \subseteq hidden'
        /\ Skipped(n) \subseteq noticed' \cup hidden'
    BY <1>1 DEF ReceiveContended, Receive
  <2>2. n \in 0..MaxSeq /\ (n \in received \/ \A m \in received : Stamp[m] <= Stamp[n])
    BY <2>1, HeadIsRepeatOrNew
  <2> HIDE DEF n
  <2>3. LastInv'
    BY <2>1, <2>2 DEF LastInv, NoSeq
  <2>4. ASSUME NEW a \in received', NEW b \in received', NEW k \in (a + 1)..(b - 1),
               Stamp[a] < Stamp[k]
        PROVE  k \in received' \cup noticed' \cup hidden'
    <3>0. a \in 0..MaxSeq /\ b \in 0..MaxSeq /\ k \in 0..MaxSeq /\ a < k /\ k < b
      BY <1>0, <2>1, <2>2, <2>4
    <3>t. /\ \A m \in 0..MaxSeq : Stamp[m] \in Nat
          /\ \A x, y \in 0..MaxSeq : x < y => Stamp[x] <= Stamp[y]
      BY StampAssumption
    <3>1. ASSUME NEW c \in received, a \in received, k < c
          PROVE  k \in received' \cup noticed' \cup hidden'
      <4>1. c \in 0..MaxSeq /\ k \in (a + 1)..(c - 1)
        BY <1>0, <3>0, <3>1
      <4> QED
        BY <2>1, <2>4, <3>1, <4>1 DEF LossIsNoticed
    <3>2. CASE a \in received /\ b \in received
      BY <3>0, <3>1, <3>2
    <3>3. CASE n \notin received /\ b = n /\ a \in received
      <4>1. last_seq \in received /\ last_seq \in 0..MaxSeq /\ last_seq # NoSeq
        BY <1>0, <3>3 DEF LastInv, NoSeq
      <4>2. CASE k < last_seq
        BY <3>1, <3>3, <4>1, <4>2
      <4>3. CASE k = last_seq
        BY <2>1, <4>1, <4>3
      <4>4. CASE k > last_seq
        <5>1. k \in Skipped(n)
          BY <3>0, <3>3, <4>1, <4>4 DEF Skipped
        <5> QED
          BY <2>1, <5>1
      <4> QED
        BY <3>0, <4>1, <4>2, <4>3, <4>4
    <3>4. CASE n \notin received /\ a = n
      <4>1. b \in received
        BY <2>1, <3>0, <3>4
      <4>2. Stamp[b] <= Stamp[n] /\ Stamp[n] < Stamp[k] /\ Stamp[k] <= Stamp[b]
        BY <2>2, <2>4, <3>0, <3>t, <3>4, <4>1
      <4> QED
        BY <3>0, <3>t, <3>4, <4>2
    <3> QED
      BY <2>1, <2>2, <3>0, <3>2, <3>3, <3>4
  <2> QED
    BY <2>3, <2>4 DEF LossIsNoticed
<1>2. CASE ~(ReceiveContended \/ Receive)
  <2>1. /\ last_seq' = last_seq /\ received' = received
        /\ noticed' = noticed /\ hidden' = hidden
    BY <1>2
    DEF Next, DownlinkWork, RequestWork, GroundWork, reception, history,
        PickRetransmit, PickReading, SendInTime, SendLate, SendFails, Record,
        Reject, LookUp, Requeue, ReceiveCorrupted, AskForLate
  <2> QED
    BY <2>1 DEF LastInv, LossIsNoticed
<1> QED
  BY <1>1, <1>2

-----------------------------------------------------------------------------

\* The initial state.
LEMMA InitIInv == Init => IInv
  BY InitTypeOK
  DEF Init, IInv, CacheIsDistinct, WireInv, CopyInv, PastInv, LastInv,
      LossIsNoticed, NoPacket

\* Every step keeps the inductive invariant.
LEMMA NextIInv == IInv /\ [Next]_vars => IInv'
<1> SUFFICES ASSUME IInv, [Next]_vars PROVE IInv'
  OBVIOUS
<1>0. /\ TypeOK /\ CacheIsDistinct
      /\ WireInv /\ CopyInv
      /\ LastInv /\ LossIsNoticed
  BY DEF IInv
<1>1. CASE Next
  <2>1. CacheIsDistinct' /\ LastInv' /\ LossIsNoticed'
    BY <1>0, <1>1, CacheInv, ReceptionInv
  <2>2. TypeOK' /\ WireInv' /\ CopyInv'
    <3>1. CASE DownlinkWork
      BY <1>0, <3>1, DownlinkTypeOK, DownlinkCopyInv
    <3>2. CASE RequestWork
      BY <1>0, <3>2, RequestTypeOK, RequestCopyInv
    <3>3. CASE GroundWork \/ AskForLate
      BY <1>0, <3>3, GroundTypeOK, GroundCopyInv
    <3> QED
      BY <1>1, <3>1, <3>2, <3>3 DEF Next
  <2> QED
    BY <2>1, <2>2 DEF IInv
<1>2. CASE UNCHANGED vars
  BY <1>0, <1>2
  DEF vars, satellite, reception, history, IInv, TypeOK, CacheIsDistinct,
      WireInv, Repeats, CopyInv, PastInv, Kept, Sent, Above, Past, LastInv, LossIsNoticed
<1> QED
  BY <1>1, <1>2

LEMMA Invariance == Spec => []IInv
  BY InitIInv, NextIInv, PTL DEF Spec

\* Cache, retransmission queue, wire and requests are well typed and within
\* their capacities, for every size of them.
THEOREM TypeCorrect == Spec => []TypeOK
<1>1. IInv => TypeOK
  BY DEF IInv
<1> QED
  BY <1>1, Invariance, PTL

\* The cache never holds two packets with one number.
THEOREM CacheDistinct == Spec => []CacheIsDistinct
<1>1. IInv => CacheIsDistinct
  BY DEF IInv
<1> QED
  BY <1>1, Invariance, PTL

\* No number lost between two received goes unnoticed, if it is younger than the
\* first and except where the metrics were locked.
THEOREM LossNoticed == Spec => []LossIsNoticed
<1>1. IInv => LossIsNoticed
  BY DEF IInv
<1> QED
  BY <1>1, Invariance, PTL

\* Retransmissions only repeat: the station hears of readings by age and of
\* each for the first time before any younger one, however often it asks,
\* whatever the cache answers and in whatever order the buffer hands out
\* readings of one timestamp.
THEOREM StreamRefinement == Spec => ImplementsStream
<1>1. Init => Stream!Init
  BY DEF Init, Stream!Init
<1>2. IInv /\ [Next]_vars => [Stream!Next]_received
  <2> SUFFICES ASSUME IInv, [Next]_vars PROVE [Stream!Next]_received
    OBVIOUS
  <2>1. CASE ReceiveContended \/ Receive
    <3>1. /\ wire # <<>> /\ ~Head(wire).corrupted
          /\ received' = received \cup {Head(wire).seq}
      BY <2>1 DEF ReceiveContended, Receive
    <3>2. /\ Head(wire).seq \in 0..MaxSeq
          /\ \/ Head(wire).seq \in received
             \/ \A m \in received : Stamp[m] <= Stamp[Head(wire).seq]
      BY <3>1, HeadIsRepeatOrNew DEF IInv
    <3> QED
      BY <3>1, <3>2 DEF Stream!Next, Stream!Hear
  <2>2. CASE ~(ReceiveContended \/ Receive)
    BY <2>2
    DEF Next, DownlinkWork, RequestWork, GroundWork, vars, history,
        PickRetransmit, PickReading, SendInTime, SendLate, SendFails, Record,
        Reject, LookUp, Requeue, ReceiveCorrupted, AskForLate
  <2> QED
    BY <2>1, <2>2
<1> QED
  BY <1>1, <1>2, Invariance, PTL DEF Spec, ImplementsStream, Stream!Spec
=============================================================================
