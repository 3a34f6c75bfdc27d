--------------------------- MODULE RetentionQueue ---------------------------
(***************************************************************************)
(* What the satellite's sensor buffer promises, without how it does it: a  *)
(* bounded set of readings that gives up its worst member when a reading   *)
(* is offered to a full set, and hands out its best member when asked.     *)
(* Readings of equal rank are interchangeable.                             *)
(***************************************************************************)
EXTENDS Naturals, FiniteSets

CONSTANTS Readings,        \* every reading that may be offered
          Capacity,        \* most readings kept
          Outranks(_, _)   \* strict order of readings: the first is preferred

VARIABLES kept,  \* the readings held
          lost   \* how many readings were given up

vars == <<kept, lost>>

Init == kept = {} /\ lost = 0

\* There is room: the offered reading is kept and nothing is lost.
Accept(r) == /\ r \notin kept
             /\ Cardinality(kept) < Capacity
             /\ kept' = kept \cup {r}
             /\ UNCHANGED lost

\* There is no room: one reading no other is worse than, the offered one
\* included, is given up.
Overflow(r) == /\ r \notin kept
               /\ Cardinality(kept) = Capacity
               /\ \E worst \in kept \cup {r} :
                     /\ \A other \in kept \cup {r} : ~Outranks(worst, other)
                     /\ kept' = (kept \cup {r}) \ {worst}
               /\ lost' = lost + 1

\* A reading that no other outranks leaves the queue.
Take == /\ \E best \in kept :
              /\ \A other \in kept : ~Outranks(other, best)
              /\ kept' = kept \ {best}
        /\ UNCHANGED lost

Next == Take \/ \E r \in Readings : Accept(r) \/ Overflow(r)

Spec == Init /\ [][Next]_vars
=============================================================================
