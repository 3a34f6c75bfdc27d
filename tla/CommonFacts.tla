---------------------------- MODULE CommonFacts ----------------------------
(***************************************************************************)
(* Facts that several of the proofs need.                                  *)
(***************************************************************************)
EXTENDS Integers, Sequences, WellFoundedInduction, TLAPS

(***************************************************************************)
(* Sets of natural numbers: the least element, the greatest, and induction *)
(* stated for a set instead of a predicate.                                *)
(***************************************************************************)

\* A set of natural numbers that is not empty has a least element.
LEMMA LeastElement ==
  ASSUME NEW T \in SUBSET Nat, T # {}
  PROVE  \E m \in T : \A k \in T : m <= k
<1> DEFINE R == OpToRel(<, Nat)
<1>1. IsWellFoundedOn(R, Nat)
  BY NatLessThanWellFounded
<1>2. PICK m \in T : \A k \in T : ~(<<k, m>> \in R)
  <2> HIDE DEF R
  <2> QED BY <1>1, WFMin
<1>3. \A k \in T : <<k, m>> \in R <=> k < m
  BY DEF OpToRel
<1>4. \A k \in T : ~(k < m)
  BY <1>2, <1>3
<1> HIDE <1>2, <1>3
<1> HIDE DEF R
<1> QED BY <1>4

\* A set of numbers up to n that is not empty has a greatest element.
LEMMA GreatestElement ==
  ASSUME NEW n \in Nat, NEW T \in SUBSET (0..n), T # {}
  PROVE  \E m \in T : \A k \in T : k <= m
<1> DEFINE U == {k \in 0..n : n - k \in T}
<1>1. PICK k \in T : TRUE
  OBVIOUS
<1>2. U \in SUBSET Nat
  OBVIOUS
<1>3. U # {}
  <2>1. k \in 0..n /\ n - k \in 0..n /\ n - (n - k) = k
    OBVIOUS
  <2>2. n - k \in U
    BY <2>1
  <2> QED BY <2>2
<1>4. PICK m \in U : \A j \in U : m <= j
  <2> HIDE DEF U
  <2> QED BY <1>2, <1>3, LeastElement
<1>5. n - m \in T
  OBVIOUS
<1>6. ASSUME NEW j \in T PROVE j <= n - m
  <2>1. n - j \in U
    OBVIOUS
  <2>2. m <= n - j
    BY <1>4, <2>1
  <2> QED BY <2>2
<1> QED BY <1>5, <1>6

\* A set that holds 0 and the successor of each of its members below n holds
\* every number up to n.
LEMMA InductionUpTo ==
  ASSUME NEW n \in Nat, NEW T, 0 \in T, \A k \in 0..(n - 1) : k \in T => k + 1 \in T
  PROVE  0..n \subseteq T
<1> DEFINE U == {k \in 0..n : k \notin T}
<1> SUFFICES ASSUME U # {} PROVE FALSE
  OBVIOUS
<1>1. PICK m \in U : \A k \in U : m <= k
  <2>1. U \in SUBSET Nat /\ U # {}
    OBVIOUS
  <2> HIDE DEF U
  <2> QED BY <2>1, LeastElement
<1>2. m \in 1..n /\ m \notin T
  OBVIOUS
<1>3. m - 1 \in T
  BY <1>1, <1>2
<1> QED BY <1>2, <1>3

-----------------------------------------------------------------------------
(***************************************************************************)
(* Commands in a row: each SafeMode and the ResetSensor behind it.         *)
(***************************************************************************)

HasReset(q) == \E i \in DOMAIN q : q[i] = "ResetSensor"

\* Each SafeMode of q is followed by a reset in q, unless there is one behind q.
Followed(q, behind) ==
  \A i \in DOMAIN q : q[i] = "SafeMode"
    => behind \/ \E j \in DOMAIN q : j > i /\ q[j] = "ResetSensor"

LEMMA HasResetAppend ==
  ASSUME NEW S, NEW q \in Seq(S), NEW cmd \in S
  PROVE  HasReset(Append(q, cmd)) <=> HasReset(q) \/ cmd = "ResetSensor"
<1> DEFINE n == Len(q)
           new == Append(q, cmd)
<1>1. /\ n \in Nat /\ DOMAIN q = 1..n /\ DOMAIN new = 1..(n + 1)
      /\ \A i \in 1..n : new[i] = q[i]
      /\ new[n + 1] = cmd
  OBVIOUS
<1> HIDE DEF n, new
<1>2. \A i : i \in 1..(n + 1) <=> i \in 1..n \/ i = n + 1
  BY <1>1
<1>3. HasReset(new) <=> HasReset(q) \/ cmd = "ResetSensor"
  BY <1>1, <1>2 DEF HasReset
<1> QED BY <1>3 DEF new

LEMMA FollowedAppend ==
  ASSUME NEW S, NEW q \in Seq(S), NEW cmd \in S,
         NEW before \in BOOLEAN, NEW after \in BOOLEAN, Followed(q, before),
         before => after \/ cmd = "ResetSensor", cmd = "SafeMode" => after
  PROVE  Followed(Append(q, cmd), after)
<1> DEFINE n == Len(q)
           new == Append(q, cmd)
<1>1. /\ n \in Nat /\ DOMAIN q = 1..n /\ DOMAIN new = 1..(n + 1)
      /\ \A i \in 1..n : new[i] = q[i]
      /\ new[n + 1] = cmd
  OBVIOUS
<1> HIDE DEF n, new
<1>2. ASSUME NEW i \in DOMAIN new, new[i] = "SafeMode", ~after
      PROVE  \E j \in DOMAIN new : j > i /\ new[j] = "ResetSensor"
  <2>1. i \in 1..n /\ q[i] = "SafeMode"
    BY <1>1, <1>2
  <2>2. CASE before
    BY <1>1, <1>2, <2>1, <2>2
  <2>3. CASE ~before
    <3>1. PICK j \in DOMAIN q : j > i /\ q[j] = "ResetSensor"
      BY <1>1, <2>1, <2>3 DEF Followed
    <3> QED BY <1>1, <3>1
  <2> QED BY <2>2, <2>3
<1>3. Followed(new, after)
  BY <1>2 DEF Followed
<1> QED BY <1>3 DEF new

LEMMA ResetsInTail ==
  ASSUME NEW S, NEW q \in Seq(S), q # <<>>, NEW behind \in BOOLEAN
  PROVE  /\ HasReset(q) => Head(q) = "ResetSensor" \/ HasReset(Tail(q))
         /\ Followed(q, behind) => /\ Followed(Tail(q), behind)
                                   /\ Head(q) = "SafeMode" => behind \/ HasReset(Tail(q))
<1> DEFINE n == Len(q) - 1
           rest == Tail(q)
<1>1. /\ n \in Nat /\ DOMAIN q = 1..(n + 1) /\ DOMAIN rest = 1..n
      /\ \A i \in 1..n : rest[i] = q[i + 1]
      /\ Head(q) = q[1]
  OBVIOUS
<1> HIDE DEF n, rest
<1>2. ASSUME NEW j \in 1..(n + 1), j # 1
      PROVE  j - 1 \in 1..n /\ rest[j - 1] = q[j]
  <2>1. j - 1 \in 1..n /\ (j - 1) + 1 = j
    BY <1>1, <1>2
  <2>2. rest[j - 1] = q[(j - 1) + 1]
    BY <1>1, <2>1
  <2> QED BY <2>1, <2>2
<1>3. HasReset(q) => Head(q) = "ResetSensor" \/ HasReset(rest)
  BY <1>1, <1>2 DEF HasReset
<1>4. ASSUME Followed(q, behind)
      PROVE  /\ Followed(rest, behind)
             /\ Head(q) = "SafeMode" => behind \/ HasReset(rest)
  <2>1. ASSUME NEW i \in DOMAIN rest, rest[i] = "SafeMode", ~behind
        PROVE  \E j \in DOMAIN rest : j > i /\ rest[j] = "ResetSensor"
    <3>1. i + 1 \in DOMAIN q /\ q[i + 1] = "SafeMode" /\ i \in Nat
      BY <1>1, <2>1
    <3>2. PICK j \in DOMAIN q : j > i + 1 /\ q[j] = "ResetSensor"
      BY <1>4, <2>1, <3>1 DEF Followed
    <3>3. j \in 1..(n + 1) /\ j # 1 /\ j - 1 > i
      BY <1>1, <3>1, <3>2
    <3> QED BY <1>1, <1>2, <3>2, <3>3
  <2>2. ASSUME Head(q) = "SafeMode", ~behind PROVE HasReset(rest)
    <3>1. 1 \in DOMAIN q /\ q[1] = "SafeMode"
      BY <1>1, <2>2
    <3>2. PICK j \in DOMAIN q : j > 1 /\ q[j] = "ResetSensor"
      BY <1>4, <2>2, <3>1 DEF Followed
    <3>3. j \in 1..(n + 1) /\ j # 1
      BY <1>1, <3>2
    <3> QED BY <1>1, <1>2, <3>2, <3>3 DEF HasReset
  <2> QED BY <2>1, <2>2 DEF Followed
<1> QED BY <1>3, <1>4 DEF rest

LEMMA FollowedWeakened ==
  ASSUME NEW q, NEW before, NEW after, Followed(q, before), before => after
  PROVE  Followed(q, after)
<1> QED BY DEF Followed
=============================================================================
