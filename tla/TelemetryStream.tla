-------------------------- MODULE TelemetryStream --------------------------
(***************************************************************************)
(* What the ground station can rely on for one sensor: it hears of the     *)
(* sensor's readings by age, each for the first time after all that it has *)
(* heard before and that are older; the numbers of readings of one         *)
(* timestamp may come in any order.  A reading that was passed over for a  *)
(* younger one is never heard of again: retransmissions only repeat.       *)
(***************************************************************************)
EXTENDS Integers

CONSTANTS Numbers,   \* the numbers readings bear
          Stamp      \* the timestamp of each

VARIABLE heard   \* numbers of the readings accepted so far

Init == heard = {}

Hear(n) == /\ n \notin heard
           /\ \A m \in heard : Stamp[m] <= Stamp[n]
           /\ heard' = heard \cup {n}

Next == \E n \in Numbers : Hear(n)

Spec == Init /\ [][Next]_heard
=============================================================================
