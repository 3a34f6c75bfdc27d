---------------------------- MODULE TelemetryLink ----------------------------
(***************************************************************************)
(* The telemetry of one sensor from the satellite's buffer to the ground   *)
(* station and its requests for what is missing: downlink, telemetry cache *)
(* and retransmission queue (satellite/src/downlink.rs, telemetry_cache.rs,*)
(* uplink_rx.rs), the connection, and the rules of reception for gaps and  *)
(* delays (ground/src/telemetry_rx.rs).                                    *)
(*                                                                         *)
(* Readings leave the buffer by age (module SensorBuffer), those of one    *)
(* timestamp in any order, so the buffer is what may leave next; numbers   *)
(* dropped by it, or thrown away in a degraded window, are passed over.    *)
(* The connection keeps the order of frames; a frame whose send timed out  *)
(* stays in the writer and keeps its place.  A request passes the ground   *)
(* station's queue and the connection in order.                            *)
(***************************************************************************)
EXTENDS Integers, Sequences

CONSTANTS CacheCap,       \* PER_SENSOR_CAP
          RetransmitCap,  \* MAX_RETRANSMIT_QUEUE
          Corruption,     \* may a reading be corrupted by an injected fault?
          Contention,     \* may the metrics be locked when a frame arrives?
          Discards,       \* may a degraded window throw away a retransmission?
          MaxSeq,         \* bound: the last number of a reading
          Stamp,          \* sample_timestamp_us of each reading
          MaxWire,        \* bound: frames on their way down
          MaxRequests     \* bound: requests on their way up

ASSUME LinkAssumption ==
  /\ CacheCap \in Nat \ {0} /\ RetransmitCap \in Nat \ {0}
  /\ Corruption \subseteq BOOLEAN /\ Contention \in BOOLEAN
  /\ Discards \in BOOLEAN
  /\ MaxSeq \in Nat /\ MaxWire \in Nat \ {0} /\ MaxRequests \in Nat \ {0}

\* A sensor numbers its readings as it takes them.
ASSUME StampAssumption ==
  /\ Stamp \in [0..MaxSeq -> Nat]
  /\ \A m, n \in 0..MaxSeq : m < n => Stamp[m] <= Stamp[n]

VARIABLES latest,        \* satellite: of the readings that have left the
                         \* buffer, those with the latest timestamp
          tx,            \* the downlink: "pick", "send" or "record"
          pkt,           \* the packet in its hands, or NoPacket
          ring,          \* the telemetry cache
          retransmit_q,
          found,         \* what a request found in the cache, or NoPacket
          wire,          \* frames on their way down
          requests,      \* requested numbers on their way up
          last_seq,      \* ground: number of the last frame, or NoSeq
          last_delayed,  \* last_delayed_seq_requested, or NoSeq
          received,      \* history: numbers accepted
          noticed,       \* history: numbers found missing
          hidden         \* history: numbers missing, unseen for contention

satellite == <<latest, tx, pkt, ring, retransmit_q, found>>
reception == <<last_seq, last_delayed>>
history == <<received, noticed, hidden>>
vars == <<satellite, wire, requests, reception, history>>

Packet == [seq : 0..MaxSeq, corrupted : BOOLEAN]
NoSeq == -1
NoPacket == [seq |-> NoSeq, corrupted |-> FALSE]

Init ==
  /\ latest = {} /\ tx = "pick" /\ pkt = NoPacket
  /\ ring = <<>> /\ retransmit_q = <<>> /\ found = NoPacket
  /\ wire = <<>> /\ requests = <<>>
  /\ last_seq = NoSeq /\ last_delayed = NoSeq
  /\ received = {} /\ noticed = {} /\ hidden = {}

-----------------------------------------------------------------------------
(* The downlink. *)

\* A packet to retransmit goes before the buffer; a degraded window throws it
\* away if it is not critical.
PickRetransmit ==
  /\ tx = "pick"
  /\ retransmit_q # <<>>
  /\ retransmit_q' = Tail(retransmit_q)
  /\ \/ pkt' = Head(retransmit_q) /\ tx' = "send"
     \/ Discards /\ UNCHANGED <<pkt, tx>>
  /\ UNCHANGED <<latest, ring, found, wire, requests, reception, history>>

\* A reading that is left, and no older than any that left before; whether it
\* is corrupted was decided when it was taken.
PickReading ==
  /\ tx = "pick"
  /\ retransmit_q = <<>>
  /\ \E n \in (0..MaxSeq) \ latest, bad \in Corruption :
        /\ \A m \in latest : Stamp[m] <= Stamp[n]
        /\ latest' = {m \in latest : Stamp[m] = Stamp[n]} \cup {n}
        /\ pkt' = [seq |-> n, corrupted |-> bad]
  /\ tx' = "send"
  /\ UNCHANGED <<ring, retransmit_q, found, wire, requests, reception, history>>

\* The send succeeds.
SendInTime ==
  /\ tx = "send"
  /\ Len(wire) < MaxWire
  /\ wire' = Append(wire, pkt)
  /\ tx' = "record"
  /\ UNCHANGED <<latest, pkt, ring, retransmit_q, found, requests, reception,
                 history>>

\* The send times out while the frame waits in the writer, where it stays.
SendLate ==
  /\ tx = "send"
  /\ Len(wire) < MaxWire
  /\ wire' = Append(wire, pkt)
  /\ tx' = "pick" /\ pkt' = NoPacket
  /\ UNCHANGED <<latest, ring, retransmit_q, found, requests, reception, history>>

\* A mutant: what could not be sent is recorded as well.
SendFails_Recorded ==
  /\ tx = "send"
  /\ tx' = "record"
  /\ UNCHANGED <<latest, pkt, ring, retransmit_q, found, wire, requests,
                 reception, history>>

\* The send times out before the writer, full, took the frame; or it fails.
SendFails ==
  /\ tx = "send"
  /\ tx' = "pick" /\ pkt' = NoPacket
  /\ UNCHANGED <<latest, ring, retransmit_q, found, wire, requests, reception,
                 history>>

\* The ring without the packet numbered n.
Without(n) ==
  IF \E i \in DOMAIN ring : ring[i].seq = n
  THEN LET pos == CHOOSE i \in DOMAIN ring :
                    /\ ring[i].seq = n
                    /\ \A j \in 1..(i - 1) : ring[j].seq # n
       IN  SubSeq(ring, 1, pos - 1) \o SubSeq(ring, pos + 1, Len(ring))
  ELSE ring

\* A mutant: an earlier copy of the packet stays in the ring.
Recorded_Again(p) ==
  LET r == Append(ring, p)
  IN  IF Len(r) > CacheCap THEN Tail(r) ELSE r

\* TelemetryCache::record.
Recorded(p) ==
  LET r == Append(Without(p.seq), p)
  IN  IF Len(r) > CacheCap THEN Tail(r) ELSE r

\* What was sent is recorded, after the send.
Record ==
  /\ tx = "record"
  /\ ring' = Recorded(pkt)
  /\ tx' = "pick" /\ pkt' = NoPacket
  /\ UNCHANGED <<latest, retransmit_q, found, wire, requests, reception, history>>

-----------------------------------------------------------------------------
(* Requests. *)

\* The ground station's uplink rejects the request in its present state.
Reject ==
  /\ requests # <<>>
  /\ requests' = Tail(requests)
  /\ UNCHANGED <<satellite, wire, reception, history>>

\* The satellite looks the number up in the cache.
LookUp ==
  /\ requests # <<>>
  /\ found = NoPacket
  /\ requests' = Tail(requests)
  /\ LET Hits == {i \in DOMAIN ring : ring[i].seq = Head(requests)}
     IN  found' = IF Hits = {} THEN NoPacket ELSE ring[CHOOSE i \in Hits : TRUE]
  /\ UNCHANGED <<latest, tx, pkt, ring, retransmit_q, wire, reception, history>>

\* A mutant: the queue is not trimmed.
Requeue_Untrimmed ==
  /\ found # NoPacket
  /\ retransmit_q' = Append(retransmit_q, found)
  /\ found' = NoPacket
  /\ UNCHANGED <<latest, tx, pkt, ring, wire, requests, reception, history>>

\* What was found is queued; a full queue loses its oldest entry first.
Requeue ==
  /\ found # NoPacket
  /\ retransmit_q' = Append(IF Len(retransmit_q) >= RetransmitCap
                            THEN Tail(retransmit_q) ELSE retransmit_q, found)
  /\ found' = NoPacket
  /\ UNCHANGED <<latest, tx, pkt, ring, wire, requests, reception, history>>

-----------------------------------------------------------------------------
(* Reception. *)

\* A mutant: the number of a corrupted packet is noted all the same.
ReceiveCorrupted_Noted ==
  /\ wire # <<>>
  /\ Head(wire).corrupted
  /\ wire' = Tail(wire)
  /\ last_seq' = Head(wire).seq
  /\ UNCHANGED <<satellite, requests, last_delayed, history>>

\* A corrupted packet is discarded before its number is noted.
ReceiveCorrupted ==
  /\ wire # <<>>
  /\ Head(wire).corrupted
  /\ wire' = Tail(wire)
  /\ UNCHANGED <<satellite, requests, reception, history>>

\* The numbers between the last frame and one numbered n.
Skipped(n) == IF last_seq = NoSeq THEN {} ELSE (last_seq + 1)..(n - 1)

\* The metrics are locked: the number is noted, the gap is not looked for.
ReceiveContended ==
  /\ Contention
  /\ wire # <<>>
  /\ ~Head(wire).corrupted
  /\ wire' = Tail(wire)
  /\ last_seq' = Head(wire).seq
  /\ received' = received \cup {Head(wire).seq}
  /\ hidden' = hidden \cup Skipped(Head(wire).seq)
  /\ UNCHANGED <<satellite, requests, last_delayed, noticed>>

\* A frame; of a gap before it only the first number is asked for.
Receive ==
  /\ wire # <<>>
  /\ ~Head(wire).corrupted
  /\ wire' = Tail(wire)
  /\ LET gap == Skipped(Head(wire).seq)
     IN  /\ IF gap = {} THEN UNCHANGED requests
            ELSE /\ Len(requests) < MaxRequests
                 /\ requests' = Append(requests, last_seq + 1)
         /\ noticed' = noticed \cup gap
  /\ last_seq' = Head(wire).seq
  /\ received' = received \cup {Head(wire).seq}
  /\ UNCHANGED <<satellite, last_delayed, hidden>>

\* The number that comes next, or 1 if nothing has come yet.
Expected == IF last_seq = NoSeq THEN 1 ELSE last_seq + 1

\* A mutant: what was asked for already is asked for again.
AskForLate_Again ==
  /\ Len(requests) < MaxRequests
  /\ requests' = Append(requests, Expected)
  /\ last_delayed' = Expected
  /\ UNCHANGED <<satellite, wire, last_seq, history>>

\* A quiet time: nothing of the sensor has come for 1.5 periods.
AskForLate ==
  /\ last_delayed # Expected
  /\ Len(requests) < MaxRequests
  /\ requests' = Append(requests, Expected)
  /\ last_delayed' = Expected
  /\ UNCHANGED <<satellite, wire, last_seq, history>>

-----------------------------------------------------------------------------

DownlinkWork == \/ PickRetransmit \/ PickReading
                \/ SendInTime \/ SendLate \/ SendFails
                \/ Record
RequestWork == Reject \/ LookUp \/ Requeue
GroundWork == ReceiveCorrupted \/ ReceiveContended \/ Receive

Next == DownlinkWork \/ RequestWork \/ GroundWork \/ AskForLate

Spec == Init /\ [][Next]_vars

\* The runtimes schedule every task that can go on and the connection takes
\* what is written to it; that a sensor falls silent need never happen, and a
\* quiet time has no fairness either.
FairSpec == /\ Spec
            /\ WF_vars(DownlinkWork) /\ WF_vars(RequestWork) /\ WF_vars(GroundWork)

-----------------------------------------------------------------------------

\* Types; the cache, a ring per sensor, and the retransmission queue respect
\* their capacities.
TypeOK ==
  /\ latest \subseteq 0..MaxSeq /\ \A m, n \in latest : Stamp[m] = Stamp[n]
  /\ tx \in {"pick", "send", "record"}
  /\ pkt \in Packet \cup {NoPacket}
  /\ (pkt = NoPacket) <=> (tx = "pick")
  /\ ring \in Seq(Packet) /\ Len(ring) <= CacheCap
  /\ retransmit_q \in Seq(Packet) /\ Len(retransmit_q) <= RetransmitCap
  /\ found \in Packet \cup {NoPacket}
  /\ wire \in Seq(Packet) /\ Len(wire) <= MaxWire
  /\ requests \in Seq(0..(MaxSeq + 1)) /\ Len(requests) <= MaxRequests
  /\ last_seq \in {NoSeq} \cup 0..MaxSeq
  /\ last_delayed \in {NoSeq} \cup 0..(MaxSeq + 1)
  /\ received \subseteq 0..MaxSeq
  /\ noticed \subseteq 0..MaxSeq /\ hidden \subseteq 0..MaxSeq

\* The ring holds a number once (telemetry_cache.rs:26-28), so that its places
\* are places for different readings however often one is sent again.
CacheIsDistinct ==
  \A i, j \in DOMAIN ring : ring[i].seq = ring[j].seq => i = j

\* A number that was missed between two that arrived, and is younger than the
\* first, was noticed when a later one came, or would have been had the metrics
\* not been locked at that moment (telemetry_rx.rs:264): neither repeats, which
\* move last_seq backwards, nor corrupted packets, nor readings of one timestamp
\* that come in reverse make the station overlook a loss.  A reading as old as
\* the first may be overlooked: of three at the start with one timestamp the
\* last may come first, and then the first, and the second never.
LossIsNoticed ==
  \A m, n \in received : \A k \in (m + 1)..(n - 1) :
    Stamp[m] < Stamp[k] => k \in received \cup noticed \cup hidden

\* The numbers the station accepts form the abstract stream: a retransmission
\* never brings a number that is new after younger ones, because what enters the
\* cache was sent before anything younger (downlink.rs:193-199).
Stream == INSTANCE TelemetryStream WITH Numbers <- 0..MaxSeq, heard <- received
ImplementsStream == Stream!Spec

\* Requests beget frames, which beget requests; once the sensor has fallen
\* silent they come to rest.
RequestsSettle ==
  <>[](requests = <<>> /\ retransmit_q = <<>> /\ wire = <<>>)

\* What a log line says: a gap is a loss, so that what is asked for after a gap
\* has not been received (telemetry_rx.rs:287).
GapMeansLoss ==
  [][last_delayed' = last_delayed /\ Len(requests') > Len(requests)
       => requests'[Len(requests')] \notin received]_vars
=============================================================================
