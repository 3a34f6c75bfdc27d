----------------------------- MODULE DownlinkTx -----------------------------
(***************************************************************************)
(* The task that sends telemetry (satellite/src/downlink.rs).  In every    *)
(* window it forwards the waiting fault packets, looks at the mode and at  *)
(* the buffer once, adjusts the mode, and sends up to Batch packets on the *)
(* strength of what it saw.                                                *)
(***************************************************************************)
EXTENDS SatelliteShared

VARIABLES dpc,       \* "tick", "forward", "mode", "pick" or "send"
          degraded,  \* what the window saw of the buffer
          iter,      \* packets picked in this window
          pkt        \* class of the packet being sent, or "none"

downlinkVars == <<dpc, degraded, iter, pkt>>

DownlinkInit == /\ dpc = "tick" /\ degraded = FALSE
                /\ iter = 0 /\ pkt = "none"

\* The interval ticks; a blackout exercise only delays what follows.
WindowOpens ==
  /\ "downlink" \in running
  /\ dpc = "tick"
  /\ dpc' = "forward"
  /\ UNCHANGED <<shared, degraded, iter, pkt>>

\* A mutant: fault packets stay in the channel, as if the window's telemetry
\* were sent in their place.
ForwardFault_Held ==
  /\ "downlink" \in running
  /\ dpc = "forward"
  /\ faultCh > 0
  /\ UNCHANGED <<shared, downlinkVars>>

\* One fault packet leaves the channel and the socket takes it.  The send has
\* no timeout, so the task rests here while the socket does not.
ForwardFault ==
  /\ "downlink" \in running
  /\ dpc = "forward"
  /\ faultCh > 0
  /\ faultCh' = faultCh - 1
  /\ UNCHANGED <<state, buf, rq, cancelled, running, resetDuring,
                 sentInAbort, downlinkVars>>

\* A mutant: the window is opened whatever the mode is.
ReadFlags_NoAbort ==
  /\ "downlink" \in running
  /\ dpc = "forward"
  /\ faultCh = 0
  /\ degraded' = IsDegraded
  /\ dpc' = "mode"
  /\ UNCHANGED <<shared, iter, pkt>>

\* The channel is empty.  Mode and buffer are read together, the buffer's
\* mutex inside the mode's; in an abort the window ends here.
ReadFlags ==
  /\ "downlink" \in running
  /\ dpc = "forward"
  /\ faultCh = 0
  /\ IF state = "MissionAbort"
     THEN dpc' = "tick" /\ UNCHANGED degraded
     ELSE dpc' = "mode" /\ degraded' = IsDegraded
  /\ UNCHANGED <<shared, iter, pkt>>

\* A mutant: the mode is written from the flag alone.
AdjustMode_Blind ==
  /\ "downlink" \in running
  /\ dpc = "mode"
  /\ state' = IF degraded THEN "Degraded"
              ELSE IF state = "Degraded" THEN "Nominal" ELSE state
  /\ dpc' = "pick"
  /\ UNCHANGED <<buf, rq, faultCh, cancelled, running, resetDuring,
                 sentInAbort, degraded, iter, pkt>>

\* The mode follows the flag, if it still is one of the two modes concerned.
AdjustMode ==
  /\ "downlink" \in running
  /\ dpc = "mode"
  /\ state' = CASE degraded /\ state = "Nominal" -> "Degraded"
                [] ~degraded /\ state = "Degraded" -> "Nominal"
                [] OTHER -> state
  /\ dpc' = "pick"
  /\ UNCHANGED <<buf, rq, faultCh, cancelled, running, resetDuring,
                 sentInAbort, degraded, iter, pkt>>

\* The loop ends, and what the window saw is forgotten.
WindowEnds == dpc' = "tick" /\ degraded' = FALSE /\ iter' = 0

\* What follows one round of the loop.
NextRound == IF iter + 1 < Batch
             THEN dpc' = "pick" /\ iter' = iter + 1 /\ UNCHANGED degraded
             ELSE WindowEnds

\* A packet of class c is taken: sent next, or thrown away if the window saw
\* a degraded buffer and the packet is not critical.
Taken(c) == IF degraded /\ c # "crit"
            THEN NextRound /\ UNCHANGED pkt
            ELSE dpc' = "send" /\ pkt' = c /\ UNCHANGED <<degraded, iter>>

\* A packet to retransmit goes before the buffer.
PickRetransmit ==
  /\ "downlink" \in running
  /\ dpc = "pick"
  /\ rq # <<>>
  /\ rq' = Tail(rq)
  /\ Taken(Head(rq))
  /\ UNCHANGED <<state, buf, faultCh, cancelled, running, resetDuring,
                 sentInAbort>>

PickReading ==
  /\ "downlink" \in running
  /\ dpc = "pick"
  /\ rq = <<>>
  /\ \E c \in Class : Pop(c) /\ Taken(c)
  /\ UNCHANGED <<state, rq, faultCh, cancelled, running, resetDuring,
                 sentInAbort>>

\* Nothing is left to send: the window ends.
PickNothing ==
  /\ "downlink" \in running
  /\ dpc = "pick"
  /\ rq = <<>>
  /\ Size = 0
  /\ WindowEnds
  /\ UNCHANGED <<shared, pkt>>

\* The send succeeds, fails or times out; in any case the packet is gone from
\* the buffer.  The mode is not looked at again.
Send ==
  /\ "downlink" \in running
  /\ dpc = "send"
  /\ sentInAbort' = IF state = "MissionAbort" THEN sentInAbort + 1
                    ELSE sentInAbort
  /\ pkt' = "none"
  /\ NextRound
  /\ UNCHANGED <<state, buf, rq, faultCh, cancelled, running, resetDuring>>

DownlinkCancel ==
  /\ dpc = "tick"
  /\ Return("downlink")
  /\ UNCHANGED <<state, buf, rq, faultCh, cancelled, resetDuring,
                 sentInAbort, downlinkVars>>

DownlinkNext == \/ WindowOpens \/ ForwardFault \/ ReadFlags \/ AdjustMode
                \/ PickRetransmit \/ PickReading \/ PickNothing
                \/ Send
                \/ DownlinkCancel

DownlinkTypeOK == /\ dpc \in {"tick", "forward", "mode", "pick", "send"}
                  /\ degraded \in BOOLEAN
                  /\ iter \in 0..(Batch - 1)
                  /\ pkt \in Class \cup {"none"}
=============================================================================
