------------------------- MODULE RmsSchedulerProofs -------------------------
(***************************************************************************)
(* Proofs about the scheduler for every set of tasks, however much they    *)
(* ask of the processor, and however late the ticks are.                   *)
(***************************************************************************)
EXTENDS RmsScheduler, CommonFacts, TLAPS

\* The task that ran last is in the middle of its job.
LastInv == last_running # 0 => pending_work[last_running] \in 1..(Wcet[last_running] - 1)

IInv == TypeOK /\ LastInv /\ PreemptionsAreTold /\ EveryReleaseRuns

-----------------------------------------------------------------------------

\* A tick leaves a task with no more than a job, a new one only if it was due.
LEMMA WorkFacts ==
  ASSUME TypeOK, NEW i \in TaskId
  PROVE  /\ Work(i) \in 0..Wcet[i]
         /\ pending_work[i] > 0 => Work(i) = pending_work[i]
         /\ Work(i) > 0 => pending_work[i] > 0 \/ (now >= next_release[i]
                                                      /\ Work(i) = Wcet[i])
<1> QED BY TasksAssumption DEF TypeOK, Work

LEMMA InitInv == Init => IInv
<1> SUFFICES ASSUME Init PROVE IInv
  OBVIOUS
<1> USE TasksAssumption DEF Init
<1>1. TypeOK
  <2>1. next_release \in [TaskId -> Nat]
    OBVIOUS
  <2>2. /\ pending_work \in [TaskId -> Nat] /\ exec_count \in [TaskId -> Nat]
        /\ miss_count \in [TaskId -> Nat] /\ preempted \in [TaskId -> Nat]
    OBVIOUS
  <2>3. \A i \in TaskId : pending_work[i] <= Wcet[i]
    OBVIOUS
  <2>4. now \in Nat /\ ticks \in Nat /\ running \in BOOLEAN /\ stalled \in BOOLEAN
    OBVIOUS
  <2>5. last_running \in 0..N
    <3>1. last_running = 0 /\ N \in Nat
      OBVIOUS
    <3> QED BY <3>1
  <2> QED BY <2>1, <2>2, <2>3, <2>4, <2>5 DEF TypeOK
<1>2. LastInv /\ PreemptionsAreTold
  BY DEF LastInv, PreemptionsAreTold
<1>3. EveryReleaseRuns
  <2> SUFFICES ASSUME NEW i \in TaskId
               PROVE  next_release[i] = Period[i] * (exec_count[i] + 1)
                        /\ ~(pending_work[i] > 0)
    BY DEF EveryReleaseRuns
  <2>1. next_release[i] = Period[i] /\ exec_count[i] = 0 /\ pending_work[i] = 0
        /\ Period[i] \in Nat
    OBVIOUS
  <2> QED BY <2>1
<1> QED BY <1>1, <1>2, <1>3 DEF IInv

\* What a tick that finds work does to each task.
LEMMA QuantumFacts ==
  ASSUME TypeOK, NEW i \in TaskId, RunQuantum(i)
  PROVE  /\ Work(i) \in 1..Wcet[i]
         /\ \A j \in TaskId : j < i => Work(j) = 0
         /\ \A j \in TaskId : pending_work'[j] = IF j = i THEN Work(i) - 1 ELSE Work(j)
         /\ \A j \in TaskId : next_release'[j] = IF j = i /\ Work(i) = 1
                                THEN next_release[j] + Period[j] ELSE next_release[j]
         /\ \A j \in TaskId : exec_count'[j] = IF j = i /\ Work(i) = 1
                                THEN exec_count[j] + 1 ELSE exec_count[j]
         /\ last_running' = IF Work(i) = 1 THEN 0 ELSE i
         /\ now' = now
<1>1. Work(i) \in 1..Wcet[i]
  BY WorkFacts, TasksAssumption DEF RunQuantum, Highest
<1>2. ASSUME NEW j \in TaskId, j < i PROVE Work(j) = 0
  <2>1. j \in 1..(i - 1)
    BY <1>2 DEF TaskId
  <2> QED BY <2>1 DEF RunQuantum, Highest
<1>3. ASSUME NEW j \in TaskId
      PROVE  pending_work'[j] = IF j = i THEN Work(i) - 1 ELSE Work(j)
  BY DEF RunQuantum
<1>4. CASE Work(i) = 1
  BY <1>1, <1>2, <1>3, <1>4 DEF RunQuantum, Finish, TypeOK
<1>5. CASE Work(i) # 1
  BY <1>1, <1>2, <1>3, <1>5 DEF RunQuantum, TypeOK
<1> QED BY <1>4, <1>5

LEMMA TypeStep == TypeOK /\ [Next]_vars => TypeOK'
<1> SUFFICES ASSUME TypeOK, [Next]_vars PROVE TypeOK'
  OBVIOUS
<1> USE TasksAssumption DEF TypeOK
<1>1. ASSUME NEW i \in TaskId, RunQuantum(i) PROVE TypeOK'
  <2>1. now' \in Nat /\ ticks' \in Nat /\ running' \in BOOLEAN /\ stalled' \in BOOLEAN
    BY <1>1 DEF RunQuantum
  <2>2. pending_work' \in [TaskId -> Nat]
        /\ \A j \in TaskId : pending_work'[j] <= Wcet[j]
    <3>1. \A j \in TaskId : Work(j) \in 0..Wcet[j] /\ Wcet[j] \in Nat
      BY WorkFacts
    <3>2. Work(i) \in 1..Wcet[i]
      BY <1>1, QuantumFacts
    <3>3. pending_work' = [j \in TaskId |-> IF j = i THEN Work(i) - 1 ELSE Work(j)]
      BY <1>1 DEF RunQuantum
    <3>4. \A j \in TaskId : (IF j = i THEN Work(i) - 1 ELSE Work(j)) \in 0..Wcet[j]
      BY <3>1, <3>2
    <3> QED BY <3>1, <3>3, <3>4
  <2>3. next_release' \in [TaskId -> Nat] /\ exec_count' \in [TaskId -> Nat]
        /\ miss_count' \in [TaskId -> Nat] /\ last_running' \in 0..N
    <3>1. CASE Work(i) = 1
      BY <1>1, <3>1 DEF RunQuantum, Finish
    <3>2. CASE Work(i) # 1
      <4>1. i \in 0..N
        BY DEF TaskId
      <4> QED BY <1>1, <3>2, <4>1 DEF RunQuantum
    <3> QED BY <3>1, <3>2
  <2>4. preempted' \in [TaskId -> Nat]
    BY <1>1 DEF RunQuantum
  <2> QED BY <2>1, <2>2, <2>3, <2>4
<1>2. CASE Idle
  BY <1>2 DEF Idle, taskVars
<1>3. CASE Advance
  BY <1>3 DEF Advance, taskVars
<1>4. CASE Cancel
  BY <1>4 DEF Cancel, taskVars
<1>5. CASE UNCHANGED vars
  BY <1>5 DEF vars, taskVars
<1> QED BY <1>1, <1>2, <1>3, <1>4, <1>5 DEF Next

\* The task a quantum is taken from is less urgent than the one it is given to,
\* because that is the first with work; so it is logged.
LEMMA PreemptionStep ==
  TypeOK /\ LastInv /\ PreemptionsAreTold /\ [Next]_vars
    => LastInv' /\ PreemptionsAreTold'
<1> SUFFICES ASSUME TypeOK, LastInv, PreemptionsAreTold, [Next]_vars
             PROVE  LastInv' /\ PreemptionsAreTold'
  OBVIOUS
<1> USE TasksAssumption DEF TypeOK
<1>1. ASSUME NEW i \in TaskId, RunQuantum(i) PROVE LastInv' /\ PreemptionsAreTold'
  <2>0. i \in Nat \ {0} /\ last_running \in Nat
        /\ (last_running # 0 => last_running \in TaskId)
    BY DEF TaskId
  <2>1. /\ Work(i) \in 1..Wcet[i] /\ last_running' = (IF Work(i) = 1 THEN 0 ELSE i)
        /\ pending_work'[i] = Work(i) - 1
    BY <1>1, QuantumFacts
  <2>2. LastInv'
    BY <2>0, <2>1 DEF LastInv
  <2>3. ASSUME NEW j \in TaskId
        PROVE  /\ pending_work'[j] \in 1..(Wcet[j] - 1) /\ last_running' # j
                    => preempted'[j] > 0
               /\ preempted'[j] > 0 => pending_work'[j] \in 1..(Wcet[j] - 1)
    <3>1. preempted'[j] = IF j = last_running /\ Preempts(i, last_running)
                          THEN preempted[j] + 1
                          ELSE IF j = i /\ Work(i) = 1 THEN 0 ELSE preempted[j]
      BY <1>1 DEF RunQuantum
    <3>2. /\ pending_work[j] \in 1..(Wcet[j] - 1) /\ last_running # j
               => preempted[j] > 0
          /\ preempted[j] > 0 => pending_work[j] \in 1..(Wcet[j] - 1)
          /\ preempted[j] \in Nat /\ pending_work[j] \in Nat /\ Wcet[j] \in Nat
      BY DEF PreemptionsAreTold
    <3>3. /\ Work(j) \in 0..Wcet[j]
          /\ pending_work[j] > 0 => Work(j) = pending_work[j]
          /\ Work(j) > 0 => pending_work[j] > 0 \/ Work(j) = Wcet[j]
      BY WorkFacts
    <3>4. CASE j = i
      <4>1. ~Preempts(i, i)
        BY <2>0 DEF Preempts
      <4> QED BY <2>1, <3>1, <3>2, <3>3, <3>4, <4>1
    <3>5. CASE j # i
      <4>1. pending_work'[j] = Work(j) /\ (j < i => Work(j) = 0)
        BY <1>1, <3>5, QuantumFacts
      <4>2. CASE j = last_running
        <5>1. pending_work[j] \in 1..(Wcet[j] - 1)
          BY <2>0, <4>2 DEF LastInv, TaskId
        <5>2. Preempts(i, last_running)
          <6>1. j \in Nat /\ j # 0
            BY DEF TaskId
          <6>2. ~(j < i)
            BY <3>2, <3>3, <4>1, <5>1
          <6> QED BY <2>0, <3>5, <4>2, <6>1, <6>2 DEF Preempts
        <5> QED BY <3>1, <3>2, <3>3, <4>1, <4>2, <5>1, <5>2
      <4>3. CASE j # last_running
        <5>1. preempted'[j] = preempted[j]
          BY <3>1, <3>5, <4>3
        <5> QED BY <3>2, <3>3, <4>1, <4>3, <5>1
      <4> QED BY <4>2, <4>3
    <3> QED BY <3>4, <3>5
  <2> QED BY <2>2, <2>3 DEF PreemptionsAreTold
<1>2. CASE Idle
  <2>1. \A j \in TaskId : ~(pending_work[j] > 0)
    BY <1>2, WorkFacts DEF Idle
  <2>2. \A j \in TaskId : pending_work[j] = 0 /\ Wcet[j] \in Nat
    BY <2>1
  <2>3. UNCHANGED <<pending_work, preempted>> /\ last_running' = 0
    BY <1>2 DEF Idle, taskVars
  <2> QED BY <2>2, <2>3 DEF LastInv, PreemptionsAreTold
<1>3. CASE Advance \/ Cancel \/ UNCHANGED vars
  <2>1. UNCHANGED <<pending_work, preempted, last_running>>
    BY <1>3 DEF Advance, Cancel, vars, taskVars
  <2> QED BY <2>1 DEF LastInv, PreemptionsAreTold
<1> QED BY <1>1, <1>2, <1>3 DEF Next

LEMMA ReleaseStep ==
  TypeOK /\ EveryReleaseRuns /\ [Next]_vars => EveryReleaseRuns'
<1> SUFFICES ASSUME TypeOK, EveryReleaseRuns, [Next]_vars, NEW j \in TaskId
             PROVE  /\ next_release'[j] = Period[j] * (exec_count'[j] + 1)
                    /\ pending_work'[j] > 0 => now' >= next_release'[j]
  BY DEF EveryReleaseRuns
<1> USE TasksAssumption DEF TypeOK
<1>0. /\ next_release[j] = Period[j] * (exec_count[j] + 1)
      /\ pending_work[j] > 0 => now >= next_release[j]
      /\ Period[j] \in Nat /\ exec_count[j] \in Nat /\ next_release[j] \in Nat
  BY DEF EveryReleaseRuns
<1>1. ASSUME NEW i \in TaskId, RunQuantum(i)
      PROVE  /\ next_release'[j] = Period[j] * (exec_count'[j] + 1)
             /\ pending_work'[j] > 0 => now' >= next_release'[j]
  <2>1. CASE j = i /\ Work(i) = 1
    <3>1. /\ next_release'[j] = next_release[j] + Period[j]
          /\ exec_count'[j] = exec_count[j] + 1 /\ pending_work'[j] = 0
      BY <1>1, <2>1, QuantumFacts
    <3>2. Period[j] * ((exec_count[j] + 1) + 1) = Period[j] * (exec_count[j] + 1) + Period[j]
      BY <1>0
    <3> QED BY <1>0, <3>1, <3>2
  <2>2. CASE ~(j = i /\ Work(i) = 1)
    <3>1. /\ next_release'[j] = next_release[j] /\ exec_count'[j] = exec_count[j]
          /\ now' = now
      BY <1>1, <2>2, QuantumFacts
    <3>2. pending_work'[j] > 0 => Work(j) > 0
      BY <1>1, QuantumFacts
    <3>3. Work(j) > 0 => now >= next_release[j]
      BY <1>0, WorkFacts
    <3> QED BY <1>0, <3>1, <3>2, <3>3
  <2> QED BY <2>1, <2>2
<1>2. CASE Advance
  BY <1>0, <1>2 DEF Advance, taskVars
<1>3. CASE Idle \/ Cancel \/ UNCHANGED vars
  BY <1>0, <1>3 DEF Idle, Cancel, vars, taskVars
<1> QED BY <1>1, <1>2, <1>3 DEF Next

LEMMA Invariance == Spec => []IInv
<1>1. IInv /\ [Next]_vars => IInv'
  BY TypeStep, PreemptionStep, ReleaseStep DEF IInv
<1> QED BY InitInv, <1>1, PTL DEF Spec

\* No job is ever left with more work than it had, for every set of tasks.
THEOREM TypeCorrect == Spec => []TypeOK
<1>1. IInv => TypeOK
  BY DEF IInv
<1> QED BY <1>1, Invariance, PTL

\* A job caught in the middle of its work, and only such a job, has been logged
\* as preempted if it is not the one that ran last.
THEOREM PreemptionLogIsTrue == Spec => []PreemptionsAreTold
<1>1. IInv => PreemptionsAreTold
  BY DEF IInv
<1> QED BY <1>1, Invariance, PTL

\* No release of any task is skipped, however late the ticks and however
\* overloaded the processor.
THEOREM ReleasesRun == Spec => []EveryReleaseRuns
<1>1. IInv => EveryReleaseRuns
  BY DEF IInv
<1> QED BY <1>1, Invariance, PTL

-----------------------------------------------------------------------------
(***************************************************************************)
(* Deadlines.  Consider tasks 1..i and a window of ticks in which they     *)
(* leave none to the others.  If in every window of length R the jobs they *)
(* may release are done, and R with the lateness of ticks is no more than  *)
(* i's period, then task i meets its deadlines.  Jobs[j] bounds the jobs   *)
(* of task j, and Demand is the running total of their work.               *)
(***************************************************************************)

Responds(i, R, Jobs, Demand) ==
  /\ R \in Nat /\ R + Slack <= Period[i]
  /\ Jobs \in [1..i -> Nat \ {0}]
  /\ \A j \in 1..i : Jobs[j] * Period[j] >= R + Slack
  /\ Demand \in [0..i -> Nat] /\ Demand[0] = 0 /\ Demand[i] <= R
  /\ \A j \in 1..i : Demand[j] = Demand[j - 1] + Wcet[j] * Jobs[j]

\* Response times exist for all tasks.
Schedulable == \A i \in TaskId : \E R, Jobs, Demand : Responds(i, R, Jobs, Demand)

\* What is left for task j to do in a window, before which it had done base[j]
\* jobs.
Rest(Jobs, base, j) ==
  Wcet[j] * (Jobs[j] - (exec_count[j] - base[j]))
    + (IF pending_work[j] > 0 THEN pending_work[j] - Wcet[j] ELSE 0)

\* In the window that began at t every unfinished job was released; left is
\* the running total of what remains.
Shares(i, Jobs, t, base, left) ==
  /\ \A j \in 1..i : /\ base[j] <= exec_count[j]
                     /\ exec_count[j] - base[j] <= Jobs[j]
                     /\ Period[j] * (base[j] + 1) >= t
                     /\ left[j] = left[j - 1] + Rest(Jobs, base, j)
  /\ left[0] = 0
  /\ \A j, k \in 0..i : j <= k => left[j] <= left[k]

\* Every tick since then went to one of the tasks 1..i.
InWindow(i, R, Jobs, Demand, t, base, left) ==
  /\ Responds(i, R, Jobs, Demand)
  /\ t \in Nat /\ base \in [1..i -> Nat] /\ left \in [0..i -> Nat]
  /\ Shares(i, Jobs, t, base, left)
  /\ ticks <= t + Demand[i] - left[i]

LoadInv ==
  ~stalled =>
    /\ now - ticks <= Slack
    /\ \A i \in TaskId :
         /\ miss_count[i] = 0
         /\ \E R, Jobs, Demand, t, base, left :
              InWindow(i, R, Jobs, Demand, t, base, left)

LEMMA LevelFacts ==
  ASSUME NEW i \in TaskId
  PROVE  /\ i \in Nat \ {0} /\ 1..i \subseteq TaskId
         /\ \A j \in 1..i : Wcet[j] \in Nat \ {0} /\ Period[j] \in Nat \ {0}
         /\ \A j \in 1..i : j \in Nat /\ j - 1 \in 0..i /\ j \in 0..i
<1>1. i \in Nat \ {0} /\ 1..i \subseteq TaskId
  BY TasksAssumption DEF TaskId
<1> QED BY <1>1, TasksAssumption

\* The running total does not decrease.
LEMMA DemandGrows ==
  ASSUME NEW i \in TaskId, NEW R, NEW Jobs, NEW Demand, Responds(i, R, Jobs, Demand)
  PROVE  \A j, k \in 0..i : j <= k => Demand[j] <= Demand[k]
<1> SUFFICES ASSUME NEW j \in 0..i
             PROVE  \A k \in 0..i : j <= k => Demand[j] <= Demand[k]
  OBVIOUS
<1> DEFINE T == {k \in 0..i : j <= k => Demand[j] <= Demand[k]}
<1>1. i \in Nat /\ Demand \in [0..i -> Nat]
  BY LevelFacts DEF Responds
<1>2. 0 \in T
  BY <1>1
<1>3. ASSUME NEW k \in 0..(i - 1), k \in T PROVE k + 1 \in T
  <2>1. k + 1 \in 1..i /\ (k + 1) - 1 = k /\ k \in 0..i /\ k + 1 \in 0..i
    BY <1>1
  <2>2. Wcet[k + 1] * Jobs[k + 1] \in Nat
    <3>1. Wcet[k + 1] \in Nat /\ Jobs[k + 1] \in Nat
      BY <2>1, LevelFacts DEF Responds
    <3> QED BY <3>1
  <2>3. Demand[k + 1] = Demand[k] + Wcet[k + 1] * Jobs[k + 1]
    BY <2>1 DEF Responds
  <2>4. Demand[k] \in Nat /\ Demand[k + 1] \in Nat /\ Demand[k] <= Demand[k + 1]
    BY <1>1, <2>1, <2>2, <2>3
  <2>5. j <= k + 1 => Demand[j] <= Demand[k + 1]
    BY <1>1, <1>3, <2>1, <2>4
  <2> QED BY <2>1, <2>5
<1>4. 0..i \subseteq T
  <2> HIDE DEF T
  <2> QED BY <1>1, <1>2, <1>3, InductionUpTo
<1> QED BY <1>4

\* A window may begin at t when the tasks have no job that was released before
\* t or is begun.
LEMMA NewWindow ==
  ASSUME TypeOK, EveryReleaseRuns, NEW i \in TaskId, NEW R, NEW Jobs, NEW Demand,
         Responds(i, R, Jobs, Demand), NEW t \in Nat,
         \A j \in 1..i : next_release[j] >= t /\ pending_work[j] \in {0, Wcet[j]}
  PROVE  Shares(i, Jobs, t, [j \in 1..i |-> exec_count[j]], Demand)
<1> DEFINE base == [j \in 1..i |-> exec_count[j]]
<1>1. ASSUME NEW j \in 1..i
      PROVE  /\ base[j] <= exec_count[j] /\ exec_count[j] - base[j] <= Jobs[j]
             /\ Period[j] * (base[j] + 1) >= t
             /\ Demand[j] = Demand[j - 1] + Rest(Jobs, base, j)
  <2>1. j \in TaskId /\ Wcet[j] \in Nat \ {0} /\ Jobs[j] \in Nat \ {0}
        /\ exec_count[j] \in Nat /\ base[j] = exec_count[j]
    BY LevelFacts DEF Responds, TypeOK
  <2>2. next_release[j] = Period[j] * (exec_count[j] + 1)
    BY <2>1 DEF EveryReleaseRuns
  <2>3. Rest(Jobs, base, j) = Wcet[j] * Jobs[j]
    <3>1. (IF pending_work[j] > 0 THEN pending_work[j] - Wcet[j] ELSE 0) = 0
      BY <2>1
    <3>2. Jobs[j] - (exec_count[j] - base[j]) = Jobs[j]
      BY <2>1
    <3>3. Wcet[j] * Jobs[j] \in Int
      BY <2>1
    <3> QED BY <3>1, <3>2, <3>3 DEF Rest
  <2>4. Period[j] * (base[j] + 1) >= t
    BY <2>1, <2>2
  <2>5. base[j] <= exec_count[j] /\ exec_count[j] - base[j] <= Jobs[j]
    BY <2>1
  <2>6. Demand[j] = Demand[j - 1] + Rest(Jobs, base, j)
    BY <2>3 DEF Responds
  <2> QED BY <2>4, <2>5, <2>6
<1>2. Demand[0] = 0 /\ \A j, k \in 0..i : j <= k => Demand[j] <= Demand[k]
  <2>1. \A j, k \in 0..i : j <= k => Demand[j] <= Demand[k]
    BY DemandGrows
  <2> QED BY <2>1 DEF Responds
<1> HIDE DEF base
<1>3. Shares(i, Jobs, t, base, Demand)
  BY <1>1, <1>2 DEF Shares
<1> QED BY <1>3 DEF base


LEMMA Multiples ==
  ASSUME NEW w \in Nat, NEW n \in Int
  PROVE  /\ w * n \in Int /\ w * (n - 1) = w * n - w /\ w * (n + 1) = w * n + w
         /\ n >= 0 => w * n >= 0
         /\ n >= 1 => w * n >= w
<1>1. w * n \in Int /\ w * (n - 1) = w * n - w /\ w * (n + 1) = w * n + w
  OBVIOUS
<1>2. n >= 0 => w * n >= 0
  OBVIOUS
<1>3. n >= 1 => w * (n - 1) >= 0
  OBVIOUS
<1> QED BY <1>1, <1>2, <1>3

\* A window's numbers of one task.
LEMMA ShareFacts ==
  ASSUME TypeOK, EveryReleaseRuns, NEW i \in TaskId, NEW R, NEW Jobs, NEW Demand,
         NEW t, NEW base, NEW left, InWindow(i, R, Jobs, Demand, t, base, left),
         NEW j \in 1..i
  PROVE  /\ Wcet[j] \in Nat \ {0} /\ Period[j] \in Nat \ {0} /\ Jobs[j] \in Nat \ {0}
         /\ exec_count[j] \in Nat /\ base[j] \in Nat /\ next_release[j] \in Nat
         /\ pending_work[j] \in 0..Wcet[j]
         /\ Jobs[j] - (exec_count[j] - base[j]) \in Nat
         /\ left[j] \in Nat /\ left[j - 1] \in Nat /\ left[j - 1] <= left[j]
         /\ left[j] = left[j - 1] + Rest(Jobs, base, j)
         /\ next_release[j] >= t + Period[j] * (exec_count[j] - base[j])
         /\ next_release[j] >= t
<1>1. /\ j \in TaskId /\ Wcet[j] \in Nat \ {0} /\ Period[j] \in Nat \ {0}
      /\ j \in 0..i /\ j - 1 \in 0..i /\ j \in Nat
  BY LevelFacts
<1>2. Jobs[j] \in Nat \ {0} /\ base[j] \in Nat /\ left[j] \in Nat /\ left[j - 1] \in Nat
  BY <1>1 DEF Responds, InWindow
<1>3. exec_count[j] \in Nat /\ next_release[j] \in Nat /\ pending_work[j] \in 0..Wcet[j]
  BY <1>1 DEF TypeOK
<1>4. /\ base[j] <= exec_count[j] /\ exec_count[j] - base[j] <= Jobs[j]
      /\ Period[j] * (base[j] + 1) >= t /\ left[j] = left[j - 1] + Rest(Jobs, base, j)
  BY DEF Shares, InWindow
<1>5. left[j - 1] <= left[j]
  BY <1>1 DEF Shares, InWindow
<1>6. next_release[j] = Period[j] * (exec_count[j] + 1)
  BY <1>1 DEF EveryReleaseRuns
<1>7. next_release[j] = Period[j] * (base[j] + 1) + Period[j] * (exec_count[j] - base[j])
  <2> DEFINE a == base[j] + 1
             b == exec_count[j] - base[j]
  <2>1. a \in Int /\ b \in Int /\ a + b = exec_count[j] + 1
    BY <1>2, <1>3
  <2> HIDE DEF a, b
  <2>2. Period[j] * (a + b) = Period[j] * a + Period[j] * b
    BY <1>1, <2>1
  <2> QED BY <1>6, <2>1, <2>2 DEF a, b
<1>8. Period[j] * (exec_count[j] - base[j]) >= 0
        /\ Period[j] * (exec_count[j] - base[j]) \in Int
        /\ Period[j] * (base[j] + 1) \in Int
  <2>1. exec_count[j] - base[j] \in Int /\ exec_count[j] - base[j] >= 0 /\ base[j] + 1 \in Int
    BY <1>2, <1>3, <1>4
  <2> QED BY <1>1, <2>1, Multiples
<1>9. next_release[j] >= t + Period[j] * (exec_count[j] - base[j]) /\ next_release[j] >= t
  <2> DEFINE a == Period[j] * (exec_count[j] - base[j])
             b == Period[j] * (base[j] + 1)
  <2>1. a \in Int /\ b \in Int /\ a >= 0 /\ b >= t /\ next_release[j] = b + a
    BY <1>4, <1>7, <1>8
  <2>0. t \in Nat
    BY DEF InWindow
  <2> HIDE DEF a, b
  <2>2. next_release[j] >= t + a /\ next_release[j] >= t
    BY <2>0, <2>1
  <2> QED BY <2>2 DEF a
<1>10. Jobs[j] - (exec_count[j] - base[j]) \in Nat
  BY <1>2, <1>3, <1>4
<1> QED BY <1>1, <1>2, <1>3, <1>4, <1>5, <1>9, <1>10

\* If nothing is left of a window, every job of it is done and none begun since.
LEMMA WindowSpent ==
  ASSUME TypeOK, EveryReleaseRuns, NEW i \in TaskId, NEW R, NEW Jobs, NEW Demand,
         NEW t, NEW base, NEW left, InWindow(i, R, Jobs, Demand, t, base, left),
         left[i] = 0, NEW j \in 1..i
  PROVE  pending_work[j] \in {0, Wcet[j]} /\ exec_count[j] - base[j] = Jobs[j]
<1>0. /\ Wcet[j] \in Nat \ {0} /\ Period[j] \in Nat \ {0} /\ Jobs[j] \in Nat \ {0}
      /\ exec_count[j] \in Nat /\ base[j] \in Nat /\ next_release[j] \in Nat
      /\ pending_work[j] \in 0..Wcet[j]
      /\ Jobs[j] - (exec_count[j] - base[j]) \in Nat
      /\ left[j] \in Nat /\ left[j - 1] \in Nat /\ left[j - 1] <= left[j]
      /\ left[j] = left[j - 1] + Rest(Jobs, base, j)
      /\ next_release[j] >= t + Period[j] * (exec_count[j] - base[j])
      /\ next_release[j] >= t
  BY ShareFacts
<1> DEFINE n == Jobs[j] - (exec_count[j] - base[j])
           c == IF pending_work[j] > 0 THEN pending_work[j] - Wcet[j] ELSE 0
           w == Wcet[j]
<1>1. /\ w \in Nat \ {0} /\ n \in Nat /\ pending_work[j] \in 0..w
      /\ left[j] \in Nat /\ left[j - 1] \in Nat /\ left[j] = left[j - 1] + (w * n + c)
      /\ Jobs[j] \in Int /\ exec_count[j] \in Int /\ base[j] \in Int
  <2>1. /\ Wcet[j] \in Nat \ {0} /\ Jobs[j] \in Nat /\ exec_count[j] \in Nat
        /\ base[j] \in Nat /\ pending_work[j] \in 0..Wcet[j]
        /\ Jobs[j] - (exec_count[j] - base[j]) \in Nat
    BY <1>0
  <2>2. left[j] \in Nat /\ left[j - 1] \in Nat /\ left[j] = left[j - 1] + Rest(Jobs, base, j)
    BY <1>0
  <2>3. Rest(Jobs, base, j) = w * n + c
    BY DEF Rest
  <2> QED BY <2>1, <2>2, <2>3
<1>2. left[j] <= left[i]
  <2>1. j \in 0..i /\ i \in 0..i /\ j <= i
    BY LevelFacts
  <2> QED BY <2>1 DEF Shares, InWindow
<1>3. w * n + c <= 0
  <2>1. w * n + c \in Int
    <3>1. w * n \in Int
      <4> HIDE DEF n, w, c
      <4> QED BY <1>1, Multiples
    <3>2. c \in Int
      BY <1>1
    <3> HIDE DEF n, w, c
    <3> QED BY <3>1, <3>2
  <2>2. left[i] = 0
    OBVIOUS
  <2> HIDE DEF n, c, w
  <2> QED BY <1>1, <1>2, <2>1, <2>2
<1>4. w * n \in Int /\ (n >= 1 => w * n >= w) /\ (n = 0 => w * n = 0)
  <2> HIDE DEF n, w
  <2> QED BY <1>1, Multiples
<1>5. c \in Int /\ c > -w /\ (pending_work[j] = 0 \/ c = pending_work[j] - w)
  BY <1>1
<1>6. n = 0
  <2> HIDE DEF n, c, w
  <2> QED BY <1>1, <1>3, <1>4, <1>5
<1>7. exec_count[j] - base[j] = Jobs[j]
  <2>1. Jobs[j] - (exec_count[j] - base[j]) = 0
    BY <1>6
  <2> HIDE DEF n, c, w
  <2> QED BY <1>0, <2>1
<1>8. pending_work[j] \in {0, Wcet[j]}
  <2>1. left[j] = 0 /\ left[j - 1] = 0
    <3>1. left[j - 1] <= left[j]
      <4> HIDE DEF n, w, c
      <4> QED BY <1>0
    <3> HIDE DEF n, w, c
    <3> QED BY <1>1, <1>2, <3>1
  <2>2. w * n + c = 0 /\ w * n = 0
    <3> HIDE DEF n, c, w
    <3>1. w * n = 0
      BY <1>4, <1>6
    <3> QED BY <1>1, <1>5, <2>1, <3>1
  <2>3. c = 0
    <3> HIDE DEF n, c, w
    <3> QED BY <1>5, <2>2
  <2>4. CASE pending_work[j] > 0
    <3>1. pending_work[j] - Wcet[j] = 0
      BY <2>3, <2>4
    <3>2. pending_work[j] \in Int /\ Wcet[j] \in Int
      BY <1>1
    <3> HIDE DEF n, c, w
    <3> QED BY <3>1, <3>2
  <2>5. CASE ~(pending_work[j] > 0)
    BY <1>1, <2>5
  <2> QED BY <2>4, <2>5
<1> QED BY <1>7, <1>8


\* When a task of the window is due, the window is not over for it, or a new one
\* begins: it cannot be due again before the window's end, when all is done.
LEMMA WindowAtQuantum ==
  ASSUME TypeOK, EveryReleaseRuns, NEW i \in TaskId, NEW R, NEW Jobs, NEW Demand,
         NEW t, NEW base, NEW left, InWindow(i, R, Jobs, Demand, t, base, left),
         now - ticks <= Slack, ticks <= now, NEW k \in 1..i, Work(k) > 0
  PROVE  \E t2, base2, left2 : /\ InWindow(i, R, Jobs, Demand, t2, base2, left2)
                               /\ exec_count[k] - base2[k] < Jobs[k]
<1>0. /\ Wcet[k] \in Nat \ {0} /\ Period[k] \in Nat \ {0} /\ Jobs[k] \in Nat \ {0}
      /\ exec_count[k] \in Nat /\ base[k] \in Nat /\ next_release[k] \in Nat
      /\ Jobs[k] - (exec_count[k] - base[k]) \in Nat
      /\ next_release[k] >= t + Period[k] * (exec_count[k] - base[k])
  BY ShareFacts
<1>1. CASE exec_count[k] - base[k] < Jobs[k]
  BY <1>1
<1>2. CASE ~(exec_count[k] - base[k] < Jobs[k])
  <2>1. exec_count[k] - base[k] = Jobs[k]
    BY <1>0, <1>2
  <2>2. k \in TaskId /\ i \in 0..i /\ i \in 1..i
    BY LevelFacts
  <2>3. now >= next_release[k]
    BY <2>2, WorkFacts DEF EveryReleaseRuns
  <2>4. /\ R \in Nat /\ Jobs[k] * Period[k] >= R + Slack
        /\ Demand[i] \in Nat /\ Demand[i] <= R /\ left[i] \in Nat /\ t \in Nat
        /\ ticks <= t + Demand[i] - left[i]
    BY <2>2 DEF Responds, InWindow
  <2>5. Jobs[k] * Period[k] = Period[k] * Jobs[k] /\ Period[k] * Jobs[k] \in Nat
    BY <1>0
  <2>6. left[i] = 0 /\ now <= t + R + Slack
    <3> DEFINE a == Period[k] * Jobs[k]
    <3>1. a \in Nat /\ a >= R + Slack /\ next_release[k] >= t + a
      BY <1>0, <2>1, <2>4, <2>5
    <3> HIDE DEF a
    <3> QED BY <1>0, <2>3, <2>4, <3>1, BoundsAssumption DEF TypeOK
  <2>7. ASSUME NEW j \in 1..i
        PROVE  next_release[j] >= now /\ pending_work[j] \in {0, Wcet[j]}
    <3>1. pending_work[j] \in {0, Wcet[j]} /\ exec_count[j] - base[j] = Jobs[j]
      BY <2>6, WindowSpent
    <3>2. /\ Period[j] \in Nat \ {0} /\ Jobs[j] \in Nat \ {0} /\ next_release[j] \in Nat
          /\ next_release[j] >= t + Period[j] * (exec_count[j] - base[j])
      BY ShareFacts
    <3>3. Jobs[j] * Period[j] >= R + Slack
      BY DEF Responds, InWindow
    <3>4. Jobs[j] * Period[j] = Period[j] * Jobs[j] /\ Period[j] * Jobs[j] \in Nat
      BY <3>2
    <3>5. next_release[j] >= now
      <4> DEFINE a == Period[j] * Jobs[j]
      <4>1. a \in Nat /\ a >= R + Slack /\ next_release[j] >= t + a
        BY <3>1, <3>2, <3>3, <3>4
      <4> HIDE DEF a
      <4> QED BY <2>4, <2>6, <3>2, <4>1, BoundsAssumption DEF TypeOK
    <3> QED BY <3>1, <3>5
  <2> DEFINE start == [j \in 1..i |-> exec_count[j]]
  <2>8. Shares(i, Jobs, now, start, Demand)
    <3>1. now \in Nat /\ Responds(i, R, Jobs, Demand)
      BY DEF TypeOK, InWindow
    <3> QED BY <2>7, <3>1, NewWindow
  <2>9. start \in [1..i -> Nat] /\ Demand \in [0..i -> Nat] /\ start[k] = exec_count[k]
    <3>1. \A j \in 1..i : exec_count[j] \in Nat
      BY LevelFacts DEF TypeOK
    <3> QED BY <3>1 DEF Responds, InWindow
  <2> HIDE DEF start
  <2>10. ticks <= now + Demand[i] - Demand[i]
    BY <2>4 DEF TypeOK
  <2>11. now \in Nat /\ exec_count[k] - start[k] < Jobs[k]
    <3>1. start[k] = exec_count[k] /\ exec_count[k] \in Nat /\ Jobs[k] \in Nat \ {0}
      BY <1>0, <2>9
    <3>2. exec_count[k] - start[k] < Jobs[k]
      BY <3>1
    <3> QED BY <3>2 DEF TypeOK
  <2>12. InWindow(i, R, Jobs, Demand, now, start, Demand)
    BY <2>8, <2>9, <2>10, <2>11 DEF InWindow
  <2> QED BY <2>11, <2>12
<1> QED BY <1>1, <1>2

\* A quantum of a task of the window is one less of what is left.
LEMMA WindowQuantum ==
  ASSUME TypeOK, EveryReleaseRuns, NEW i \in TaskId, NEW R, NEW Jobs, NEW Demand,
         NEW t, NEW base, NEW left, InWindow(i, R, Jobs, Demand, t, base, left),
         NEW k \in 1..i, RunQuantum(k), exec_count[k] - base[k] < Jobs[k]
  PROVE  /\ left[i] >= 1
         /\ \E left2 : InWindow(i, R, Jobs, Demand, t, base, left2)'
<1>0. /\ k \in TaskId /\ k \in Nat /\ i \in Nat /\ k \in 0..i /\ k - 1 \in 0..i /\ i \in 0..i
      /\ 1..i \subseteq TaskId
  BY LevelFacts
<1>1. /\ Wcet[k] \in Nat \ {0} /\ Jobs[k] \in Nat \ {0}
      /\ exec_count[k] \in Nat /\ base[k] \in Nat
      /\ pending_work[k] \in 0..Wcet[k]
      /\ left[k] \in Nat /\ left[k - 1] \in Nat
      /\ left[k] = left[k - 1] + Rest(Jobs, base, k)
  BY ShareFacts
<1>2. /\ Work(k) \in 1..Wcet[k]
      /\ \A j \in TaskId : j < k => Work(j) = 0
      /\ \A j \in TaskId : pending_work'[j] = IF j = k THEN Work(k) - 1 ELSE Work(j)
      /\ \A j \in TaskId : exec_count'[j] = IF j = k /\ Work(k) = 1
                             THEN exec_count[j] + 1 ELSE exec_count[j]
  BY <1>0, QuantumFacts
<1>3. ticks' = ticks + 1
  BY DEF RunQuantum
<1> DEFINE n == Jobs[k] - (exec_count[k] - base[k])
           w == Wcet[k]
<1>4. n \in Nat /\ n >= 1 /\ w \in Nat \ {0} /\ w * n \in Int /\ w * n >= w
        /\ w * (n - 1) = w * n - w
  <2>1. n \in Nat /\ n >= 1 /\ w \in Nat \ {0}
    BY <1>1
  <2> HIDE DEF n, w
  <2> QED BY <2>1, Multiples
<1>5. Rest(Jobs, base, k) = w * n + Work(k) - w
  <2>1. Work(k) \in Int /\ (pending_work[k] > 0 => Work(k) = pending_work[k])
        /\ (~(pending_work[k] > 0) => Work(k) = w)
    BY <1>0, <1>1, <1>2, WorkFacts
  <2>2. Rest(Jobs, base, k)
          = w * n + (IF pending_work[k] > 0 THEN pending_work[k] - w ELSE 0)
    BY DEF Rest
  <2> HIDE DEF n, w
  <2>3. CASE pending_work[k] > 0
    BY <1>4, <2>1, <2>2, <2>3
  <2>4. CASE ~(pending_work[k] > 0)
    BY <1>4, <2>1, <2>2, <2>4
  <2> QED BY <2>3, <2>4
<1>6. Rest(Jobs, base, k) \in Nat /\ Rest(Jobs, base, k) >= 1
  <2>1. Work(k) \in Nat /\ Work(k) >= 1
    BY <1>1, <1>2
  <2> HIDE DEF n, w
  <2> QED BY <1>4, <1>5, <2>1
<1>7. Rest(Jobs, base, k)' = Rest(Jobs, base, k) - 1
  <2>1. Rest(Jobs, base, k)'
          = w * (Jobs[k] - (exec_count'[k] - base[k]))
              + (IF pending_work'[k] > 0 THEN pending_work'[k] - w ELSE 0)
    BY DEF Rest
  <2>2. pending_work'[k] = Work(k) - 1 /\ Work(k) \in Nat /\ Work(k) >= 1
    BY <1>0, <1>1, <1>2
  <2>3. CASE Work(k) = 1
    <3>1. exec_count'[k] = exec_count[k] + 1
      BY <1>0, <1>2, <2>3
    <3>2. Jobs[k] - (exec_count'[k] - base[k]) = n - 1
      BY <1>1, <3>1
    <3>3. Rest(Jobs, base, k)' = w * (n - 1) + 0
      BY <2>1, <2>2, <2>3, <3>2
    <3> HIDE DEF n, w
    <3> QED BY <1>4, <1>5, <2>3, <3>3
  <2>4. CASE Work(k) # 1
    <3>1. exec_count'[k] = exec_count[k]
      BY <1>0, <1>2, <2>4
    <3>2. Rest(Jobs, base, k)' = w * n + (Work(k) - 1 - w)
      BY <2>1, <2>2, <2>4, <3>1
    <3> HIDE DEF n, w
    <3> QED BY <1>4, <1>5, <2>2, <3>2
  <2> QED BY <2>3, <2>4
<1>8. ASSUME NEW j \in 1..i, j # k PROVE Rest(Jobs, base, j)' = Rest(Jobs, base, j)
  <2>1. j \in TaskId /\ exec_count'[j] = exec_count[j] /\ pending_work'[j] = Work(j)
    BY <1>0, <1>2, <1>8
  <2>2. /\ Wcet[j] \in Nat /\ pending_work[j] \in 0..Wcet[j] /\ Work(j) \in 0..Wcet[j]
        /\ pending_work[j] > 0 => Work(j) = pending_work[j]
        /\ Work(j) > 0 => pending_work[j] > 0 \/ Work(j) = Wcet[j]
    <3>1. pending_work[j] \in 0..Wcet[j] /\ Wcet[j] \in Nat
      BY ShareFacts
    <3> QED BY <2>1, <3>1, WorkFacts
  <2>3. (IF pending_work'[j] > 0 THEN pending_work'[j] - Wcet[j] ELSE 0)
          = (IF pending_work[j] > 0 THEN pending_work[j] - Wcet[j] ELSE 0)
    BY <2>1, <2>2
  <2> QED BY <2>1, <2>3 DEF Rest
<1>9. left[k] >= 1 + left[k - 1]
  BY <1>1, <1>6
<1>10. /\ left \in [0..i -> Nat] /\ left[0] = 0
       /\ \A a, b \in 0..i : a <= b => left[a] <= left[b]
  BY DEF InWindow, Shares
<1> DEFINE left2 == [j \in 0..i |-> IF j >= k THEN left[j] - 1 ELSE left[j]]
<1>11. left2 \in [0..i -> Nat] /\ left2[0] = 0 /\ left2[i] = left[i] - 1 /\ left[i] >= 1
  <2>1. ASSUME NEW j \in 0..i PROVE left[j] \in Nat /\ (j >= k => left[j] - 1 \in Nat)
    <3>1. j >= k => left[k] <= left[j]
      BY <1>0, <1>10
    <3>2. left[j] \in Nat
      BY <1>10
    <3> QED BY <1>1, <1>9, <3>1, <3>2
  <2>2. left[k] <= left[i] /\ i >= k /\ left[i] \in Nat
    BY <1>0, <1>10
  <2>3. 0 \in 0..i /\ ~(0 >= k)
    BY <1>0
  <2>4. left2 \in [0..i -> Nat]
    BY <2>1
  <2>5. left2[0] = 0
    BY <1>10, <2>3
  <2>6. left2[i] = left[i] - 1
    BY <1>0, <2>2
  <2>7. left[i] >= 1
    BY <1>1, <1>9, <2>2
  <2> QED BY <2>4, <2>5, <2>6, <2>7
<1>12. ASSUME NEW a \in 0..i, NEW b \in 0..i, a <= b PROVE left2[a] <= left2[b]
  <2>1. left[a] <= left[b] /\ left[a] \in Nat /\ left[b] \in Nat /\ a \in Nat /\ b \in Nat
    BY <1>0, <1>10, <1>12
  <2>2. CASE a < k /\ b >= k
    <3>1. left[a] <= left[k - 1] /\ left[k] <= left[b]
      <4>1. a <= k - 1 /\ k <= b
        BY <1>0, <2>1, <2>2
      <4> QED BY <1>0, <1>10, <4>1
    <3>2. left2[a] = left[a] /\ left2[b] = left[b] - 1
      BY <1>0, <2>1, <2>2
    <3> HIDE DEF left2
    <3> QED BY <1>1, <1>9, <2>1, <3>1, <3>2
  <2>3. CASE ~(a < k /\ b >= k)
    <3>1. \/ left2[a] = left[a] /\ left2[b] = left[b]
          \/ left2[a] = left[a] - 1 /\ left2[b] = left[b] - 1
      BY <1>0, <1>12, <2>1, <2>3
    <3> HIDE DEF left2
    <3> QED BY <2>1, <3>1
  <2> QED BY <2>2, <2>3
<1>13. ASSUME NEW j \in 1..i
       PROVE  /\ base[j] <= exec_count'[j] /\ exec_count'[j] - base[j] <= Jobs[j]
              /\ Period[j] * (base[j] + 1) >= t
              /\ left2[j] = left2[j - 1] + Rest(Jobs, base, j)'
  <2>1. /\ base[j] <= exec_count[j] /\ exec_count[j] - base[j] <= Jobs[j]
        /\ Period[j] * (base[j] + 1) >= t
        /\ left[j] = left[j - 1] + Rest(Jobs, base, j)
    BY DEF InWindow, Shares
  <2>2. /\ j \in TaskId /\ exec_count[j] \in Nat /\ base[j] \in Nat /\ Jobs[j] \in Nat
        /\ left[j] \in Nat /\ left[j - 1] \in Nat
    BY <1>0, ShareFacts
  <2>3. base[j] <= exec_count'[j] /\ exec_count'[j] - base[j] <= Jobs[j]
    BY <1>1, <1>2, <2>1, <2>2
  <2>4. j \in Nat /\ j \in 0..i /\ j - 1 \in 0..i
    BY <1>0
  <2>5. Rest(Jobs, base, j) = left[j] - left[j - 1] /\ Rest(Jobs, base, j) \in Int
    <3>1. CASE j = k
      BY <1>6, <2>1, <2>2, <3>1
    <3>2. CASE j # k
      <4>1. Rest(Jobs, base, j) \in Int
        <5>1. Wcet[j] \in Nat /\ pending_work[j] \in Int
              /\ Jobs[j] - (exec_count[j] - base[j]) \in Int
          BY ShareFacts
        <5>2. Wcet[j] * (Jobs[j] - (exec_count[j] - base[j])) \in Int
          BY <5>1, Multiples
        <5> QED BY <5>1, <5>2 DEF Rest
      <4> QED BY <2>1, <2>2, <4>1
    <3> QED BY <3>1, <3>2
  <2>6. left2[j] = left2[j - 1] + Rest(Jobs, base, j)'
    <3>1. CASE j = k
      <4>1. left2[j] = left[j] - 1 /\ left2[j - 1] = left[j - 1]
        BY <1>0, <2>4, <3>1
      <4>2. Rest(Jobs, base, j)' = Rest(Jobs, base, j) - 1
        BY <1>7, <3>1
      <4> HIDE DEF left2
      <4> QED BY <2>2, <2>5, <4>1, <4>2
    <3>2. CASE j # k
      <4>1. Rest(Jobs, base, j)' = left[j] - left[j - 1]
        BY <1>8, <2>5, <3>2
      <4>2. \/ left2[j] = left[j] /\ left2[j - 1] = left[j - 1]
            \/ left2[j] = left[j] - 1 /\ left2[j - 1] = left[j - 1] - 1
        BY <1>0, <2>4, <3>2
      <4> HIDE DEF left2
      <4> QED BY <2>2, <4>1, <4>2
    <3> QED BY <3>1, <3>2
  <2> QED BY <2>1, <2>3, <2>6
<1> HIDE DEF left2
<1>14. Shares(i, Jobs, t, base, left2)'
  BY <1>11, <1>12, <1>13 DEF Shares
<1>15. ticks' <= t + Demand[i] - left2[i]
  <2>1. /\ ticks <= t + Demand[i] - left[i] /\ t \in Nat /\ Demand[i] \in Nat
        /\ left[i] \in Nat /\ ticks \in Nat
    BY <1>0, <1>10 DEF InWindow, Responds, TypeOK
  <2> QED BY <1>3, <1>11, <2>1
<1>16. InWindow(i, R, Jobs, Demand, t, base, left2)'
  BY <1>11, <1>14, <1>15 DEF InWindow, Responds
<1> QED BY <1>11, <1>16


LEMMA LoadInit == Schedulable /\ TypeOK /\ EveryReleaseRuns /\ Init => LoadInv
<1> SUFFICES ASSUME Schedulable, TypeOK, EveryReleaseRuns, Init PROVE LoadInv
  OBVIOUS
<1>1. now - ticks <= Slack
  BY BoundsAssumption DEF Init
<1>2. ASSUME NEW i \in TaskId
      PROVE  /\ miss_count[i] = 0
             /\ \E R, Jobs, Demand, t, base, left :
                  InWindow(i, R, Jobs, Demand, t, base, left)
  <2>1. PICK R, Jobs, Demand : Responds(i, R, Jobs, Demand)
    BY DEF Schedulable
  <2> DEFINE start == [j \in 1..i |-> exec_count[j]]
  <2>2. \A j \in 1..i : j \in TaskId /\ exec_count[j] \in Nat
    BY LevelFacts DEF TypeOK
  <2>3. start \in [1..i -> Nat]
    BY <2>2
  <2>4. \A j \in 1..i : next_release[j] >= 0 /\ pending_work[j] \in {0, Wcet[j]}
    BY <2>2, TasksAssumption DEF Init
  <2>5. Shares(i, Jobs, 0, start, Demand)
    <3>1. 0 \in Nat
      OBVIOUS
    <3> QED BY <2>1, <2>4, <3>1, NewWindow
  <2>6. Demand \in [0..i -> Nat] /\ Demand[i] \in Nat /\ ticks = 0
    BY <2>1, LevelFacts DEF Responds, Init
  <2> HIDE DEF start
  <2>7. InWindow(i, R, Jobs, Demand, 0, start, Demand)
    BY <2>1, <2>3, <2>5, <2>6 DEF InWindow
  <2>8. miss_count[i] = 0
    BY DEF Init
  <2> QED BY <2>7, <2>8
<1> QED BY <1>1, <1>2 DEF LoadInv

\* A window that has begun is not over: the deadline of its task is ahead.
LEMMA WindowDeadline ==
  ASSUME TypeOK, EveryReleaseRuns, NEW i \in TaskId, NEW R, NEW Jobs, NEW Demand,
         NEW t, NEW base, NEW left, InWindow(i, R, Jobs, Demand, t, base, left),
         now - ticks <= Slack
  PROVE  now <= Deadline(i) /\ (left[i] >= 1 => now < Deadline(i))
<1>1. i \in 1..i /\ i \in 0..i /\ Period[i] \in Nat \ {0}
  BY LevelFacts
<1>2. next_release[i] >= t /\ next_release[i] \in Nat
  BY <1>1, ShareFacts
<1>3. /\ R \in Nat /\ R + Slack <= Period[i] /\ Demand[i] \in Nat /\ Demand[i] <= R
      /\ t \in Nat /\ left[i] \in Nat /\ ticks <= t + Demand[i] - left[i]
  BY <1>1 DEF InWindow, Responds
<1>4. now \in Nat /\ ticks \in Nat
  BY DEF TypeOK
<1> QED BY <1>1, <1>2, <1>3, <1>4, BoundsAssumption DEF Deadline

\* A quantum of task k, as task i sees it.
LEMMA LoadQuantum ==
  ASSUME TypeOK, EveryReleaseRuns, LoadInv, ~stalled,
         NEW k \in TaskId, RunQuantum(k), NEW i \in TaskId
  PROVE  /\ miss_count'[i] = 0
         /\ (\E R, Jobs, Demand, t, base, left :
               InWindow(i, R, Jobs, Demand, t, base, left))'
<1>1. PICK R, Jobs, Demand, t, base, left : InWindow(i, R, Jobs, Demand, t, base, left)
  BY DEF LoadInv
<1>2. /\ miss_count[i] = 0 /\ now - ticks <= Slack /\ ticks <= now /\ Work(k) > 0
      /\ ticks' = ticks + 1 /\ now' = now
  BY DEF LoadInv, RunQuantum, Highest
<1>3. /\ k \in Nat \ {0} /\ i \in Nat \ {0} /\ 1..i \subseteq TaskId
  BY LevelFacts
<1>4. CASE k <= i
  <2>1. k \in 1..i
    BY <1>3, <1>4
  <2>2. PICK t2, base2, left2 : /\ InWindow(i, R, Jobs, Demand, t2, base2, left2)
                                /\ exec_count[k] - base2[k] < Jobs[k]
    BY <1>1, <1>2, <2>1, WindowAtQuantum
  <2>3. /\ left2[i] >= 1
        /\ \E left3 : InWindow(i, R, Jobs, Demand, t2, base2, left3)'
    BY <2>1, <2>2, WindowQuantum
  <2>4. now < Deadline(i)
    BY <1>2, <2>2, <2>3, WindowDeadline
  <2>5. miss_count'[i] = 0
    <3>1. CASE Work(k) = 1 /\ k = i
      <4>1. Deadline(i) \in Int /\ now \in Int
        BY TasksAssumption DEF Deadline, TypeOK
      <4>2. ~(now > Deadline(i)) /\ ~(now >= Deadline(i))
        BY <2>4, <4>1
      <4>3. miss_count' = miss_count
        BY <3>1, <4>2 DEF RunQuantum, Finish
      <4> QED BY <1>2, <4>3
    <3>2. CASE Work(k) = 1 /\ k # i
      <4>1. miss_count'[i] = miss_count[i]
        BY <3>2 DEF RunQuantum, Finish, TypeOK
      <4> QED BY <1>2, <4>1
    <3>3. CASE Work(k) # 1
      BY <1>2, <3>3 DEF RunQuantum
    <3> QED BY <3>1, <3>2, <3>3
  <2> QED BY <2>3, <2>5
<1>5. CASE ~(k <= i)
  <2>1. \A j \in 1..i : Work(j) = 0 /\ j \in TaskId /\ j # k /\ j < k
    <3>1. \A j \in 1..i : j \in TaskId /\ j # k /\ j < k
      BY <1>3, <1>5
    <3>2. \A j \in TaskId : j < k => Work(j) = 0
      BY QuantumFacts
    <3> QED BY <3>1, <3>2
  <2>2. \A j \in 1..i : /\ pending_work'[j] = 0 /\ pending_work[j] = 0
                        /\ exec_count'[j] = exec_count[j] /\ now < next_release[j]
    <3> SUFFICES ASSUME NEW j \in 1..i
                 PROVE  /\ pending_work'[j] = 0 /\ pending_work[j] = 0
                        /\ exec_count'[j] = exec_count[j] /\ now < next_release[j]
      OBVIOUS
    <3>1. j \in TaskId /\ j # k /\ Work(j) = 0
      BY <2>1
    <3>2. pending_work'[j] = Work(j) /\ exec_count'[j] = exec_count[j]
      BY <3>1, QuantumFacts
    <3>3. pending_work[j] = 0 /\ ~(now >= next_release[j])
      BY <3>1, TasksAssumption DEF Work
    <3>4. now < next_release[j]
      BY <3>1, <3>3 DEF TypeOK
    <3> QED BY <3>1, <3>2, <3>3, <3>4
  <2>3. miss_count'[i] = 0
    <3>1. i # k
      BY <1>3, <1>5
    <3>2. miss_count'[i] = miss_count[i]
      BY <3>1 DEF RunQuantum, Finish, TypeOK
    <3> QED BY <1>2, <3>2
  <2>4. Responds(i, R, Jobs, Demand)
    BY <1>1 DEF InWindow
  <2>5. PICK u : u = now + 1 /\ u \in Nat
    BY DEF TypeOK
  <2>6. PICK start : start = [j \in 1..i |-> exec_count[j]]
    OBVIOUS
  <2>7. Shares(i, Jobs, u, start, Demand)
    <3>1. \A j \in 1..i : next_release[j] >= u /\ pending_work[j] \in {0, Wcet[j]}
      <4>1. \A j \in 1..i : next_release[j] \in Nat /\ now \in Nat
        BY <2>1 DEF TypeOK
      <4> QED BY <2>2, <2>5, <4>1
    <3> QED BY <2>4, <2>5, <2>6, <3>1, NewWindow
  <2>8. start \in [1..i -> Nat] /\ Demand \in [0..i -> Nat] /\ Demand[i] \in Nat
    <3>1. \A j \in 1..i : exec_count[j] \in Nat
      BY <2>1 DEF TypeOK
    <3>2. i \in 0..i
      BY <1>3
    <3> QED BY <2>4, <2>6, <3>1, <3>2 DEF Responds
  <2>9. \A j \in 1..i : Rest(Jobs, start, j)' = Rest(Jobs, start, j)
    <3> SUFFICES ASSUME NEW j \in 1..i PROVE Rest(Jobs, start, j)' = Rest(Jobs, start, j)
      OBVIOUS
    <3>1. pending_work'[j] = 0 /\ pending_work[j] = 0 /\ exec_count'[j] = exec_count[j]
      BY <2>2
    <3> QED BY <3>1 DEF Rest
  <2>10. Shares(i, Jobs, u, start, Demand)'
    <3>1. \A j \in 1..i : exec_count'[j] = exec_count[j]
      BY <2>2
    <3>2. \A j \in 1..i : /\ start[j] <= exec_count'[j] /\ exec_count'[j] - start[j] <= Jobs[j]
                          /\ Period[j] * (start[j] + 1) >= u
                          /\ Demand[j] = Demand[j - 1] + Rest(Jobs, start, j)'
      BY <2>7, <2>9, <3>1 DEF Shares
    <3>3. Demand[0] = 0 /\ \A a, b \in 0..i : a <= b => Demand[a] <= Demand[b]
      BY <2>7 DEF Shares
    <3> QED BY <3>2, <3>3 DEF Shares
  <2>11. ticks' <= u + Demand[i] - Demand[i]
    <3>1. ticks \in Nat /\ now \in Nat
      BY DEF TypeOK
    <3> QED BY <1>2, <2>5, <2>8, <3>1
  <2>12. InWindow(i, R, Jobs, Demand, u, start, Demand)'
    BY <2>4, <2>5, <2>8, <2>10, <2>11 DEF InWindow, Responds
  <2> QED BY <2>3, <2>12
<1> QED BY <1>4, <1>5

\* A tick that finds no work ends every window.
LEMMA LoadIdle ==
  ASSUME TypeOK, EveryReleaseRuns, LoadInv, ~stalled, Idle, NEW i \in TaskId
  PROVE  (\E R, Jobs, Demand, t, base, left :
            InWindow(i, R, Jobs, Demand, t, base, left))'
<1>1. PICK R, Jobs, Demand : Responds(i, R, Jobs, Demand)
  BY DEF LoadInv, InWindow
<1>2. ticks <= now /\ ticks' = ticks + 1 /\ now' = now /\ UNCHANGED taskVars
  BY DEF Idle
<1>3. i \in Nat \ {0} /\ 1..i \subseteq TaskId
  BY LevelFacts
<1>4. PICK u : u = now + 1 /\ u \in Nat
  BY DEF TypeOK
<1>5. PICK start : start = [j \in 1..i |-> exec_count[j]]
  OBVIOUS
<1>6. Shares(i, Jobs, u, start, Demand)
  <2>1. ASSUME NEW j \in 1..i
        PROVE  next_release[j] >= u /\ pending_work[j] \in {0, Wcet[j]}
    <3>1. j \in TaskId /\ Work(j) = 0
      BY <1>3 DEF Idle
    <3>2. pending_work[j] = 0 /\ ~(now >= next_release[j])
      BY <3>1, TasksAssumption DEF Work
    <3>3. next_release[j] \in Nat /\ now \in Nat
      BY <3>1 DEF TypeOK
    <3> QED BY <1>4, <3>2, <3>3
  <2> QED BY <1>1, <1>4, <1>5, <2>1, NewWindow
<1>7. start \in [1..i -> Nat] /\ Demand \in [0..i -> Nat] /\ Demand[i] \in Nat
  <2>1. \A j \in 1..i : exec_count[j] \in Nat
    BY <1>3 DEF TypeOK
  <2>2. i \in 0..i
    BY <1>3
  <2> QED BY <1>1, <1>5, <2>1, <2>2 DEF Responds
<1>8. Shares(i, Jobs, u, start, Demand)'
  BY <1>2, <1>6 DEF Shares, Rest, taskVars
<1>9. ticks' <= u + Demand[i] - Demand[i]
  BY <1>2, <1>4, <1>7 DEF TypeOK
<1>10. InWindow(i, R, Jobs, Demand, u, start, Demand)'
  BY <1>1, <1>4, <1>7, <1>8, <1>9 DEF InWindow, Responds
<1> QED BY <1>10

LEMMA LoadStep == TypeOK /\ EveryReleaseRuns /\ LoadInv /\ [Next]_vars => LoadInv'
<1> SUFFICES ASSUME TypeOK, EveryReleaseRuns, LoadInv, [Next]_vars, ~stalled'
             PROVE  /\ now' - ticks' <= Slack
                    /\ \A i \in TaskId :
                         /\ miss_count'[i] = 0
                         /\ (\E R, Jobs, Demand, t, base, left :
                               InWindow(i, R, Jobs, Demand, t, base, left))'
  BY DEF LoadInv
<1>1. ~stalled
  BY DEF Next, vars, RunQuantum, Idle, Advance, Cancel
<1>2. now - ticks <= Slack /\ \A i \in TaskId : miss_count[i] = 0
  BY <1>1 DEF LoadInv
<1>3. ASSUME NEW k \in TaskId, RunQuantum(k)
      PROVE  /\ now' - ticks' <= Slack
             /\ \A i \in TaskId :
                  /\ miss_count'[i] = 0
                  /\ (\E R, Jobs, Demand, t, base, left :
                        InWindow(i, R, Jobs, Demand, t, base, left))'
  <2>1. now' = now /\ ticks' = ticks + 1
    BY <1>3 DEF RunQuantum
  <2>2. now' - ticks' <= Slack
    BY <1>2, <2>1, BoundsAssumption DEF TypeOK
  <2> QED BY <1>1, <1>3, <2>2, LoadQuantum
<1>4. CASE Idle
  <2>1. now' = now /\ ticks' = ticks + 1 /\ miss_count' = miss_count
    BY <1>4 DEF Idle, taskVars
  <2>2. now' - ticks' <= Slack
    BY <1>2, <2>1, BoundsAssumption DEF TypeOK
  <2> QED BY <1>1, <1>2, <1>4, <2>1, <2>2, LoadIdle
<1>5. CASE Advance \/ Cancel \/ UNCHANGED vars
  <2>1. UNCHANGED taskVars /\ ticks' = ticks
    BY <1>5 DEF Advance, Cancel, vars
  <2>2. now' - ticks' <= Slack
    <3>1. CASE Advance
      <4>1. ~(now' - ticks > Slack) /\ now' = now + 1
        BY <3>1 DEF Advance
      <4>2. now' \in Nat /\ ticks \in Nat /\ Slack \in Nat
        BY <4>1, BoundsAssumption DEF TypeOK
      <4> QED BY <2>1, <4>1, <4>2
    <3>2. CASE Cancel \/ UNCHANGED vars
      <4>1. now' = now
        BY <3>2 DEF Cancel, vars
      <4> QED BY <1>2, <2>1, <4>1
    <3> QED BY <1>5, <3>1, <3>2
  <2>3. ASSUME NEW i \in TaskId
        PROVE  (\E R, Jobs, Demand, t, base, left :
                  InWindow(i, R, Jobs, Demand, t, base, left))'
    <3>1. PICK R, Jobs, Demand, t, base, left : InWindow(i, R, Jobs, Demand, t, base, left)
      BY <1>1 DEF LoadInv
    <3>2. InWindow(i, R, Jobs, Demand, t, base, left)'
      BY <2>1, <3>1 DEF InWindow, Responds, Shares, Rest, taskVars
    <3> QED BY <3>2
  <2>4. miss_count' = miss_count
    BY <2>1 DEF taskVars
  <2> QED BY <1>2, <2>2, <2>3, <2>4
<1> QED BY <1>3, <1>4, <1>5 DEF Next

\* Tasks that have response times meet all their deadlines while ticks are late
\* by at most Slack: no job of any task, finished or not, is past its deadline,
\* and none was counted as missed, in runs of any length.
THEOREM ResponseTimesSuffice == ASSUME Schedulable PROVE Spec => []DeadlinesMet
<1> DEFINE Inv == IInv /\ LoadInv
<1>1. Init => Inv
  BY InitInv, LoadInit DEF IInv
<1>2. Inv /\ [Next]_vars => Inv'
  BY TypeStep, PreemptionStep, ReleaseStep, LoadStep DEF IInv
<1>3. Inv => DeadlinesMet
  <2> SUFFICES ASSUME IInv, LoadInv, ~stalled, NEW i \in TaskId
               PROVE  miss_count[i] = 0 /\ now <= Deadline(i)
    BY DEF DeadlinesMet
  <2>1. now - ticks <= Slack /\ miss_count[i] = 0
    BY DEF LoadInv
  <2>2. PICK R, Jobs, Demand, t, base, left : InWindow(i, R, Jobs, Demand, t, base, left)
    BY DEF LoadInv
  <2>3. now <= Deadline(i)
    BY <2>1, <2>2, WindowDeadline DEF IInv
  <2> QED BY <2>1, <2>3
<1> QED BY <1>1, <1>2, <1>3, PTL DEF Spec


\* The tasks of the satellite, with the work the code gives them, meet all their
\* deadlines as long as no tick is more than 95 ms late.
COROLLARY SatelliteTasksMeetDeadlines ==
  ASSUME N = 3, Period = <<100, 500, 1000>>, Wcet = <<5, 20, 50>>, Slack <= 95
  PROVE  Spec => []DeadlinesMet
<1>1. Responds(1, 5, [j \in 1..1 |-> 1], [j \in 0..1 |-> IF j = 0 THEN 0 ELSE 5])
  BY BoundsAssumption DEF Responds
<1>2. Responds(2, 30, [j \in 1..2 |-> IF j = 1 THEN 2 ELSE 1],
               [j \in 0..2 |-> IF j = 0 THEN 0 ELSE IF j = 1 THEN 10 ELSE 30])
  BY BoundsAssumption DEF Responds
<1>3. Responds(3, 80, [j \in 1..3 |-> IF j = 1 THEN 2 ELSE 1],
               [j \in 0..3 |-> IF j = 0 THEN 0 ELSE IF j = 1 THEN 10
                               ELSE IF j = 2 THEN 30 ELSE 80])
  BY BoundsAssumption DEF Responds
<1>4. Schedulable
  <2>1. \A i \in TaskId : i = 1 \/ i = 2 \/ i = 3
    BY DEF TaskId
  <2> QED BY <1>1, <1>2, <1>3, <2>1 DEF Schedulable
<1> QED BY <1>4, ResponseTimesSuffice

-----------------------------------------------------------------------------
(***************************************************************************)
(* Stalls.  Whatever the lateness of ticks, no quantum is lost.  Consider  *)
(* again tasks 1..i since they last left a tick to the others.  They have  *)
(* had every tick since, but no more of them than the jobs they released.  *)
(***************************************************************************)

\* In a stretch of length L the jobs of tasks more urgent than i, and those of
\* task i but the last, ask for no more than the stretch.
Affords(i, L, Jobs, Demand) ==
  /\ Jobs \in [1..i -> Nat] /\ Demand \in [0..i -> Nat]
  /\ \A j \in 1..(i - 1) : Jobs[j] * Period[j] > L
  /\ (Jobs[i] + 1) * Period[i] > L
  /\ Demand[0] = 0 /\ Demand[i] <= L + 1
  /\ \A j \in 1..i : Demand[j] = Demand[j - 1] + Wcet[j] * Jobs[j]

\* It is so of every stretch longer than the task's period.
CatchesUp ==
  \A i \in TaskId : \A L \in Nat :
    L >= Period[i] => \E Jobs, Demand : Affords(i, L, Jobs, Demand)

\* The quanta task j had since it had done base[j] jobs.
Served(base, j) ==
  Wcet[j] * (exec_count[j] - base[j])
    + (IF pending_work[j] > 0 THEN Wcet[j] - pending_work[j] ELSE 0)

\* Since t every tick went to one of the tasks 1..i, which then had no
\* unfinished job; done is the running total of the quanta they had.
Busy(i, t, base, done) ==
  /\ t \in Nat /\ base \in [1..i -> Nat] /\ done \in [0..i -> Nat]
  /\ done[0] = 0
  /\ \A j \in 1..i : /\ base[j] <= exec_count[j]
                     /\ Period[j] * (base[j] + 1) >= t
                     /\ done[j] = done[j - 1] + Served(base, j)
  /\ ticks <= t + done[i]

StallInv ==
  \A i \in TaskId : /\ Period[i] * exec_count[i] <= now
                    /\ \E t, base, done : Busy(i, t, base, done)

LEMMA BusyFacts ==
  ASSUME TypeOK, EveryReleaseRuns, NEW i \in TaskId,
         NEW t, NEW base, NEW done, Busy(i, t, base, done), NEW j \in 1..i
  PROVE  /\ j \in TaskId /\ Wcet[j] \in Nat \ {0} /\ Period[j] \in Nat \ {0}
         /\ exec_count[j] \in Nat /\ base[j] \in Nat /\ exec_count[j] - base[j] \in Nat
         /\ pending_work[j] \in 0..Wcet[j] /\ t \in Nat
         /\ done[j] \in Nat /\ done[j - 1] \in Nat
         /\ done[j] = done[j - 1] + Served(base, j) /\ Served(base, j) \in Int
         /\ Period[j] * (base[j] + 1) >= t
<1>1. /\ j \in TaskId /\ Wcet[j] \in Nat \ {0} /\ Period[j] \in Nat \ {0}
      /\ j \in 0..i /\ j - 1 \in 0..i
  BY LevelFacts
<1>2. exec_count[j] \in Nat /\ pending_work[j] \in 0..Wcet[j]
  BY <1>1 DEF TypeOK
<1>3. /\ base[j] \in Nat /\ base[j] <= exec_count[j] /\ Period[j] * (base[j] + 1) >= t
      /\ t \in Nat /\ done[j] \in Nat /\ done[j - 1] \in Nat
      /\ done[j] = done[j - 1] + Served(base, j)
  BY <1>1 DEF Busy
<1>4. exec_count[j] - base[j] \in Nat
  BY <1>2, <1>3
<1>5. Served(base, j) \in Int
  <2>1. Wcet[j] * (exec_count[j] - base[j]) \in Int
    BY <1>1, <1>4, Multiples
  <2> QED BY <1>1, <1>2, <2>1 DEF Served
<1> QED BY <1>1, <1>2, <1>3, <1>4, <1>5

\* A new stretch begins when tasks 1..i leave a tick to the others.
LEMMA NewStretch ==
  ASSUME TypeOK, EveryReleaseRuns, NEW i \in TaskId, ticks <= now,
         \A j \in 1..i : Work(j) = 0 /\ pending_work'[j] = 0 /\ exec_count'[j] = exec_count[j],
         ticks' = ticks + 1
  PROVE  \E t, base, done : Busy(i, t, base, done)'
<1>1. PICK t : t = now + 1 /\ t \in Nat
  BY DEF TypeOK
<1>2. PICK base : base = [j \in 1..i |-> exec_count[j]]
  OBVIOUS
<1>3. PICK done : done = [j \in 0..i |-> 0]
  OBVIOUS
<1>4. ASSUME NEW j \in 1..i
      PROVE  /\ base[j] \in Nat /\ base[j] <= exec_count'[j]
             /\ Period[j] * (base[j] + 1) >= t
             /\ done[j] = done[j - 1] + Served(base, j)'
  <2>1. j \in TaskId /\ Wcet[j] \in Nat /\ Period[j] \in Nat /\ exec_count[j] \in Nat
        /\ next_release[j] \in Nat /\ j \in 0..i /\ j - 1 \in 0..i
    BY LevelFacts DEF TypeOK
  <2>2. base[j] = exec_count[j] /\ done[j] = 0 /\ done[j - 1] = 0
    BY <1>2, <1>3, <2>1
  <2>3. ~(now >= next_release[j])
    BY <2>1, TasksAssumption DEF Work
  <2>4. next_release[j] = Period[j] * (exec_count[j] + 1)
    BY <2>1 DEF EveryReleaseRuns
  <2>5. Period[j] * (base[j] + 1) >= t
    BY <1>1, <2>1, <2>2, <2>3, <2>4 DEF TypeOK
  <2>6. Served(base, j)' = Wcet[j] * (exec_count'[j] - base[j]) + 0
    BY DEF Served
  <2>7. exec_count'[j] - base[j] = 0 /\ Wcet[j] * 0 = 0
    BY <2>1, <2>2
  <2> QED BY <2>1, <2>2, <2>5, <2>6, <2>7
<1>5. base \in [1..i -> Nat]
  BY <1>2, <1>4
<1>6. done \in [0..i -> Nat] /\ done[0] = 0 /\ done[i] = 0
  BY <1>3, LevelFacts
<1>7. ticks' <= t + done[i]
  BY <1>1, <1>6 DEF TypeOK
<1>8. Busy(i, t, base, done)'
  BY <1>1, <1>4, <1>5, <1>6, <1>7 DEF Busy
<1> QED BY <1>8

\* A quantum of a task of the stretch is one more of what it had.
LEMMA StretchQuantum ==
  ASSUME TypeOK, EveryReleaseRuns, NEW i \in TaskId, NEW k \in 1..i, RunQuantum(k),
         \E t, base, done : Busy(i, t, base, done)
  PROVE  \E t, base, done : Busy(i, t, base, done)'
<1>1. PICK t, base, done : Busy(i, t, base, done)
  OBVIOUS
<1>2. /\ k \in TaskId /\ k \in Nat /\ i \in Nat /\ k >= 1
      /\ \A j \in 1..i : j \in TaskId /\ j \in 0..i /\ j - 1 \in 0..i /\ j \in Nat
  BY LevelFacts
<1>3. /\ Work(k) \in 1..Wcet[k]
      /\ \A j \in TaskId : pending_work'[j] = IF j = k THEN Work(k) - 1 ELSE Work(j)
      /\ \A j \in TaskId : exec_count'[j] = IF j = k /\ Work(k) = 1
                             THEN exec_count[j] + 1 ELSE exec_count[j]
  BY <1>2, QuantumFacts
<1>4. ASSUME NEW j \in 1..i
      PROVE  Served(base, j)' = Served(base, j) + (IF j = k THEN 1 ELSE 0)
  <2> DEFINE w == Wcet[j]
             n == exec_count[j] - base[j]
  <2>1. /\ j \in TaskId /\ w \in Nat \ {0} /\ n \in Nat /\ pending_work[j] \in 0..w
        /\ exec_count[j] \in Nat /\ base[j] \in Nat
    BY <1>1, BusyFacts
  <2>2. w * n \in Int /\ w * (n + 1) = w * n + w
    <3> HIDE DEF w, n
    <3> QED BY <2>1, Multiples
  <2>3. /\ Work(j) \in 0..w /\ (pending_work[j] > 0 => Work(j) = pending_work[j])
        /\ (Work(j) > 0 => pending_work[j] > 0 \/ Work(j) = w)
    BY <2>1, WorkFacts
  <2>4. Served(base, j) = w * n + (IF pending_work[j] > 0 THEN w - pending_work[j] ELSE 0)
    BY DEF Served
  <2>5. Served(base, j)' = w * (exec_count'[j] - base[j])
                           + (IF pending_work'[j] > 0 THEN w - pending_work'[j] ELSE 0)
    BY DEF Served
  <2>6. CASE j # k
    <3>1. exec_count'[j] = exec_count[j] /\ pending_work'[j] = Work(j)
      BY <1>3, <2>1, <2>6
    <3>2. (IF pending_work'[j] > 0 THEN w - pending_work'[j] ELSE 0)
            = (IF pending_work[j] > 0 THEN w - pending_work[j] ELSE 0)
      BY <2>1, <2>3, <3>1
    <3>3. Served(base, j)' = Served(base, j) /\ Served(base, j) \in Int
      BY <1>1, <2>4, <2>5, <3>1, <3>2, BusyFacts
    <3> QED BY <2>6, <3>3
  <2>7. CASE j = k /\ Work(k) = 1
    <3>1. exec_count'[j] - base[j] = n + 1 /\ pending_work'[j] = 0
      BY <1>3, <2>1, <2>7
    <3>2. Served(base, j) = w * n + w - 1
      <4> HIDE DEF n
      <4> QED BY <2>1, <2>2, <2>3, <2>4, <2>7
    <3>3. Served(base, j)' = w * (n + 1) + 0
      BY <2>5, <3>1
    <3> HIDE DEF w, n
    <3> QED BY <2>1, <2>2, <2>7, <3>2, <3>3
  <2>8. CASE j = k /\ Work(k) # 1
    <3>1. exec_count'[j] = exec_count[j] /\ pending_work'[j] = Work(j) - 1 /\ Work(j) > 1
      BY <1>3, <2>1, <2>8
    <3>2. Served(base, j) = w * n + w - Work(j)
      <4> HIDE DEF n
      <4> QED BY <2>1, <2>2, <2>3, <2>4, <3>1
    <3>3. Served(base, j)' = w * n + (w - (Work(j) - 1))
      BY <2>3, <2>5, <3>1
    <3> HIDE DEF w, n
    <3> QED BY <2>1, <2>2, <2>3, <2>8, <3>2, <3>3
  <2> QED BY <2>6, <2>7, <2>8
<1>5. PICK done2 : done2 = [j \in 0..i |-> done[j] + (IF j >= k THEN 1 ELSE 0)]
  OBVIOUS
<1>6. /\ done \in [0..i -> Nat] /\ done[0] = 0 /\ base \in [1..i -> Nat] /\ t \in Nat
      /\ ticks <= t + done[i] /\ i \in 0..i /\ 0 \in 0..i
  <2>1. i \in 0..i /\ 0 \in 0..i
    BY <1>2
  <2> QED BY <1>1, <2>1 DEF Busy
<1>7. done2 \in [0..i -> Nat] /\ done2[0] = 0 /\ done2[i] = done[i] + 1
  <2>1. \A j \in 0..i : done[j] + (IF j >= k THEN 1 ELSE 0) \in Nat
    BY <1>6
  <2>2. k <= i /\ ~(0 >= k)
    BY <1>2
  <2>3. done2[0] = done[0] + 0 /\ done2[i] = done[i] + 1
    BY <1>5, <1>6, <2>2
  <2>4. done2 \in [0..i -> Nat]
    BY <1>5, <2>1
  <2>5. done2[0] = 0
    BY <1>6, <2>3
  <2> QED BY <2>3, <2>4, <2>5
<1>8. ASSUME NEW j \in 1..i
      PROVE  /\ base[j] <= exec_count'[j] /\ Period[j] * (base[j] + 1) >= t
             /\ done2[j] = done2[j - 1] + Served(base, j)'
  <2>1. /\ base[j] <= exec_count[j] /\ Period[j] * (base[j] + 1) >= t
        /\ done[j] = done[j - 1] + Served(base, j)
    BY <1>1 DEF Busy
  <2>2. /\ exec_count[j] \in Nat /\ base[j] \in Nat /\ Served(base, j) \in Int
        /\ done[j] \in Nat /\ done[j - 1] \in Nat
    BY <1>1, BusyFacts
  <2>3. base[j] <= exec_count'[j]
    BY <1>2, <1>3, <2>1, <2>2
  <2>4. done2[j] = done[j] + (IF j >= k THEN 1 ELSE 0)
        /\ done2[j - 1] = done[j - 1] + (IF j - 1 >= k THEN 1 ELSE 0)
    BY <1>2, <1>5
  <2>5. done2[j] = done2[j - 1] + Served(base, j)'
    <3>1. Served(base, j)' = Served(base, j) + (IF j = k THEN 1 ELSE 0)
      BY <1>4
    <3>2. j \in Nat /\ k \in Nat
      BY <1>2
    <3> QED BY <2>1, <2>2, <2>4, <3>1, <3>2
  <2> QED BY <2>1, <2>3, <2>5
<1>9. ticks' <= t + done2[i]
  <2>1. ticks' = ticks + 1 /\ ticks \in Nat /\ done[i] \in Nat
    BY <1>6 DEF RunQuantum, TypeOK
  <2> QED BY <1>6, <1>7, <2>1
<1>10. Busy(i, t, base, done2)'
  BY <1>6, <1>7, <1>8, <1>9 DEF Busy
<1> QED BY <1>10


LEMMA StallInit == TypeOK /\ EveryReleaseRuns /\ Init => StallInv
<1> SUFFICES ASSUME TypeOK, Init, NEW i \in TaskId
             PROVE  /\ Period[i] * exec_count[i] <= now
                    /\ \E t, base, done : Busy(i, t, base, done)
  BY DEF StallInv
<1>1. \A j \in 1..i : /\ j \in TaskId /\ j \in 0..i /\ j - 1 \in 0..i
                      /\ Wcet[j] \in Nat /\ Period[j] \in Nat
  BY LevelFacts
<1>2. \A j \in TaskId : exec_count[j] = 0 /\ pending_work[j] = 0
  BY DEF Init
<1>3. Period[i] * exec_count[i] <= now
  <2>1. Period[i] \in Nat /\ exec_count[i] = 0 /\ now = 0
    BY <1>2, TasksAssumption DEF Init
  <2> QED BY <2>1
<1>4. PICK base : base = [j \in 1..i |-> 0]
  OBVIOUS
<1>5. PICK done : done = [j \in 0..i |-> 0]
  OBVIOUS
<1>6. ASSUME NEW j \in 1..i
      PROVE  /\ base[j] <= exec_count[j] /\ Period[j] * (base[j] + 1) >= 0
             /\ done[j] = done[j - 1] + Served(base, j)
  <2>1. base[j] = 0 /\ done[j] = 0 /\ done[j - 1] = 0 /\ exec_count[j] = 0
    BY <1>1, <1>2, <1>4, <1>5
  <2>2. Served(base, j) = Wcet[j] * (0 - 0) + 0
    BY <1>1, <1>2, <2>1 DEF Served
  <2> QED BY <1>1, <2>1, <2>2
<1>7. base \in [1..i -> Nat] /\ done \in [0..i -> Nat] /\ done[0] = 0 /\ done[i] = 0
  BY <1>4, <1>5, LevelFacts
<1>8. Busy(i, 0, base, done)
  BY <1>6, <1>7 DEF Busy, Init
<1> QED BY <1>3, <1>8

LEMMA StallStep == TypeOK /\ EveryReleaseRuns /\ StallInv /\ [Next]_vars => StallInv'
<1> SUFFICES ASSUME TypeOK, EveryReleaseRuns, StallInv, [Next]_vars, NEW i \in TaskId
             PROVE  /\ Period[i] * exec_count'[i] <= now'
                    /\ (\E t, base, done : Busy(i, t, base, done))'
  BY DEF StallInv
<1>0. /\ Period[i] * exec_count[i] <= now /\ \E t, base, done : Busy(i, t, base, done)
      /\ Period[i] \in Nat /\ exec_count[i] \in Nat /\ now \in Nat
      /\ Period[i] * exec_count[i] \in Nat
  <2>1. Period[i] \in Nat /\ exec_count[i] \in Nat /\ now \in Nat
    BY TasksAssumption DEF TypeOK
  <2> QED BY <2>1 DEF StallInv
<1>1. ASSUME NEW k \in TaskId, RunQuantum(k)
      PROVE  /\ Period[i] * exec_count'[i] <= now'
             /\ (\E t, base, done : Busy(i, t, base, done))'
  <2>1. /\ now' = now /\ ticks' = ticks + 1 /\ ticks <= now /\ Work(k) > 0
        /\ k \in Nat /\ i \in Nat
    BY <1>1, LevelFacts DEF RunQuantum, Highest
  <2>2. Period[i] * exec_count'[i] <= now'
    <3>1. CASE i = k /\ Work(k) = 1
      <4>1. exec_count'[i] = exec_count[i] + 1
        BY <1>1, <3>1, QuantumFacts
      <4>2. now >= next_release[i]
        BY <2>1, <3>1, WorkFacts DEF EveryReleaseRuns
      <4>3. next_release[i] = Period[i] * (exec_count[i] + 1)
        BY DEF EveryReleaseRuns
      <4>4. Period[i] * (exec_count[i] + 1) \in Int
        BY <1>0
      <4> QED BY <1>0, <2>1, <4>1, <4>2, <4>3, <4>4
    <3>2. CASE ~(i = k /\ Work(k) = 1)
      <4>1. exec_count'[i] = exec_count[i]
        BY <1>1, <3>2, QuantumFacts
      <4> QED BY <1>0, <2>1, <4>1
    <3> QED BY <3>1, <3>2
  <2>3. CASE k <= i
    <3>1. k \in 1..i
      BY <2>1, <2>3 DEF TaskId
    <3> QED BY <1>0, <1>1, <2>2, <3>1, StretchQuantum
  <2>4. CASE ~(k <= i)
    <3>1. \A j \in 1..i : /\ Work(j) = 0 /\ pending_work'[j] = 0
                          /\ exec_count'[j] = exec_count[j]
      <4>1. \A j \in 1..i : j \in TaskId /\ j < k /\ j # k
        BY <2>1, <2>4, LevelFacts
      <4>2. \A j \in TaskId : j < k => Work(j) = 0
        BY <1>1, QuantumFacts
      <4>3. \A j \in TaskId : j # k => pending_work'[j] = Work(j)
                                       /\ exec_count'[j] = exec_count[j]
        BY <1>1, QuantumFacts
      <4> QED BY <4>1, <4>2, <4>3
    <3> QED BY <2>1, <2>2, <3>1, NewStretch
  <2> QED BY <2>3, <2>4
<1>2. CASE Idle
  <2>1. /\ now' = now /\ ticks' = ticks + 1 /\ ticks <= now
        /\ exec_count' = exec_count /\ pending_work' = pending_work
        /\ \A j \in TaskId : Work(j) = 0
    BY <1>2 DEF Idle, taskVars
  <2>2. \A j \in 1..i : /\ Work(j) = 0 /\ pending_work'[j] = 0
                        /\ exec_count'[j] = exec_count[j]
    <3>1. \A j \in 1..i : j \in TaskId
      BY LevelFacts
    <3>2. \A j \in TaskId : pending_work[j] = 0
      BY <2>1, TasksAssumption DEF Work
    <3> QED BY <2>1, <3>1, <3>2
  <2> QED BY <1>0, <2>1, <2>2, NewStretch
<1>3. CASE Advance \/ Cancel \/ UNCHANGED vars
  <2>1. UNCHANGED taskVars /\ ticks' = ticks
    BY <1>3 DEF Advance, Cancel, vars
  <2>2. now' \in Nat /\ now' >= now
    BY <1>0, <1>3 DEF Advance, Cancel, vars
  <2>3. PICK t, base, done : Busy(i, t, base, done)
    BY <1>0
  <2>4. Busy(i, t, base, done)'
    BY <2>1, <2>3 DEF Busy, Served, taskVars
  <2>5. Period[i] * exec_count'[i] <= now'
    <3>1. exec_count' = exec_count
      BY <2>1 DEF taskVars
    <3> QED BY <1>0, <2>2, <3>1
  <2> QED BY <2>4, <2>5
<1> QED BY <1>1, <1>2, <1>3 DEF Next

\* A task cannot have had more quanta since t than the jobs released since ask
\* for, and one less when the last is not done.
LEMMA ServedBound ==
  ASSUME TypeOK, EveryReleaseRuns, StallInv, NEW i \in TaskId,
         NEW t, NEW base, NEW done, Busy(i, t, base, done), NEW j \in 1..i, NEW n \in Nat
  PROVE  /\ n * Period[j] > now - t => Served(base, j) <= Wcet[j] * n
         /\ (n + 1) * Period[j] > now - t /\ now >= Deadline(j)
              => Served(base, j) <= Wcet[j] * n - 1 /\ now - t >= Period[j]
<1> DEFINE w == Wcet[j]
           p == Period[j]
           e == exec_count[j]
           b == base[j]
<1>1. /\ j \in TaskId /\ w \in Nat \ {0} /\ p \in Nat \ {0} /\ e \in Nat /\ b \in Nat
      /\ e - b \in Nat /\ pending_work[j] \in 0..w /\ t \in Nat /\ p * (b + 1) >= t
  BY BusyFacts
<1>2. /\ p * e <= now /\ now \in Nat /\ next_release[j] = p * (e + 1)
      /\ pending_work[j] > 0 => p * (e + 1) <= now
  <2>1. next_release[j] \in Nat
    BY <1>1 DEF TypeOK
  <2> QED BY <1>1, <2>1 DEF StallInv, EveryReleaseRuns, TypeOK
<1>3. Served(base, j) = w * (e - b) + (IF pending_work[j] > 0 THEN w - pending_work[j] ELSE 0)
  BY DEF Served
<1>4. ASSUME NEW m \in Nat, NEW q \in Nat, m >= 1, p * (b + m) <= now, q * p > now - t
      PROVE  m <= q
  <2>1. p * (b + m) = p * (b + 1) + p * (m - 1)
    <3>1. b + m = (b + 1) + (m - 1) /\ b + 1 \in Nat /\ m - 1 \in Nat
      BY <1>1, <1>4
    <3> HIDE DEF p, b
    <3> QED BY <1>1, <3>1
  <2>2. p * (m - 1) < q * p
    <3> DEFINE x == p * (b + 1)
               y == p * (m - 1)
               z == q * p
    <3>1. x \in Int /\ y \in Int /\ z \in Int
      <4> HIDE DEF p, b
      <4> QED BY <1>1
    <3>2. x + y <= now /\ z > now - t /\ x >= t
      BY <1>1, <1>4, <2>1
    <3> HIDE DEF x, y, z
    <3>3. y < z
      BY <1>1, <1>2, <3>1, <3>2
    <3> QED BY <3>3 DEF y, z
  <2>3. ASSUME q <= m - 1 PROVE FALSE
    <3>1. p * (m - 1 - q) >= 0
      <4>1. m - 1 - q \in Nat
        BY <1>4, <2>3
      <4> HIDE DEF p
      <4> QED BY <1>1, <4>1, Multiples
    <3>2. p * (m - 1 - q) = p * (m - 1) - q * p
      <4> HIDE DEF p
      <4> QED BY <1>1, <1>4
    <3>3. p * (m - 1) \in Int /\ q * p \in Int
      <4> HIDE DEF p
      <4> QED BY <1>1, <1>4
    <3> HIDE DEF p
    <3> QED BY <2>2, <3>1, <3>2, <3>3
  <2> QED BY <1>4, <2>3
<1>5. \A m, q \in Nat : m <= q => w * m <= w * q
  <2> SUFFICES ASSUME NEW m \in Nat, NEW q \in Nat, m <= q PROVE w * m <= w * q
    OBVIOUS
  <2> HIDE DEF w
  <2>1. w * (q - m) >= 0 /\ w * (q - m) = w * q - w * m
    <3>1. q - m \in Nat
      OBVIOUS
    <3> QED BY <1>1, <3>1, Multiples
  <2>2. w * q \in Int /\ w * m \in Int
    BY <1>1
  <2> QED BY <2>1, <2>2
<1>6. PICK d \in Nat : d = e - b
  BY <1>1
<1>7. w * (d + 1) = w * d + w /\ w * d \in Nat /\ w * n \in Nat /\ w * 0 = 0
  <2> HIDE DEF w
  <2> QED BY <1>1
<1>8. b + d = e /\ b + (d + 1) = e + 1 /\ b + (d + 2) = e + 2
  <2> HIDE DEF w, p
  <2> QED BY <1>1, <1>6
<1>9. ASSUME n * p > now - t PROVE Served(base, j) <= w * n
  <2>1. CASE pending_work[j] > 0
    <3>1. d + 1 <= n
      <4>1. p * (b + (d + 1)) <= now
        BY <1>2, <1>8, <2>1
      <4> HIDE DEF w, p, e, b
      <4> QED BY <1>4, <1>6, <1>9, <4>1
    <3>2. w * (d + 1) <= w * n
      <4> HIDE DEF w
      <4> QED BY <1>5, <3>1
    <3>3. Served(base, j) = w * d + w - pending_work[j]
      <4> HIDE DEF w, p, e, b
      <4> QED BY <1>1, <1>3, <1>6, <1>7, <2>1
    <3> HIDE DEF w, p, e, b
    <3> QED BY <1>1, <1>7, <3>2, <3>3
  <2>2. CASE ~(pending_work[j] > 0)
    <3>1. d <= n
      <4>1. CASE d >= 1
        <5>1. p * (b + d) <= now
          BY <1>2, <1>8
        <5> HIDE DEF w, p, e, b
        <5> QED BY <1>4, <1>9, <4>1, <5>1
      <4>2. CASE ~(d >= 1)
        BY <4>2
      <4> QED BY <4>1, <4>2
    <3>2. w * d <= w * n
      <4> HIDE DEF w
      <4> QED BY <1>5, <3>1
    <3>3. Served(base, j) = w * d
      <4> HIDE DEF w, p, e, b
      <4> QED BY <1>3, <1>6, <1>7, <2>2
    <3> QED BY <3>2, <3>3
  <2> QED BY <2>1, <2>2
<1>10. ASSUME (n + 1) * p > now - t, now >= Deadline(j)
       PROVE  Served(base, j) <= w * n - 1 /\ now - t >= p
  <2>1. p * (e + 2) <= now
    <3>1. p * (e + 2) = p * (e + 1) + p
      <4> HIDE DEF p, e
      <4> QED BY <1>1
    <3> QED BY <1>2, <1>10, <3>1 DEF Deadline
  <2>2. d + 1 <= n
    <3>1. p * (b + (d + 2)) <= now
      BY <1>8, <2>1
    <3>2. d + 2 <= n + 1
      <4> HIDE DEF w, p, e, b
      <4> QED BY <1>4, <1>10, <3>1
    <3> QED BY <3>2
  <2>3. w * (d + 1) <= w * n
    <3> HIDE DEF w
    <3> QED BY <1>5, <2>2
  <2>4. Served(base, j) <= w * d + w - 1
    <3> HIDE DEF w, p, e, b
    <3> QED BY <1>1, <1>3, <1>6, <1>7
  <2>5. Served(base, j) <= w * n - 1
    <3>1. Served(base, j) \in Int
      BY BusyFacts
    <3> HIDE DEF w, p, e, b
    <3> QED BY <1>1, <1>7, <2>3, <2>4, <3>1
  <2>6. now - t >= p
    <3>1. p * (b + (d + 2)) = p * (b + 1) + p * d + p
      <4> HIDE DEF w, p, e, b
      <4> QED BY <1>1
    <3>2. p * d \in Nat /\ p * (b + 1) \in Nat
      <4> HIDE DEF w, p, e, b
      <4> QED BY <1>1
    <3>3. p * (b + (d + 2)) <= now
      BY <1>8, <2>1
    <3> DEFINE x == p * (b + 1)
               y == p * d
               z == p * (b + (d + 2))
    <3>4. x \in Nat /\ y \in Nat /\ z = x + y + p /\ z <= now /\ x >= t
      BY <1>1, <3>1, <3>2, <3>3
    <3> HIDE DEF w, p, e, b, x, y, z
    <3> QED BY <1>1, <1>2, <3>4
  <2> QED BY <2>5, <2>6
<1> QED BY <1>9, <1>10


\* Nothing is overdue once the ticks are caught up with.
LEMMA NothingOverdue ==
  ASSUME CatchesUp, TypeOK, EveryReleaseRuns, StallInv, ticks > now,
         NEW i \in TaskId, now >= Deadline(i)
  PROVE  FALSE
<1>1. PICK t, base, done : Busy(i, t, base, done)
  BY DEF StallInv
<1>2. /\ i \in 1..i /\ i \in 0..i /\ i \in Nat /\ i >= 1 /\ Period[i] \in Nat \ {0}
      /\ now \in Nat /\ ticks \in Nat
  BY LevelFacts DEF TypeOK
<1>3. t \in Nat /\ done \in [0..i -> Nat] /\ done[0] = 0 /\ ticks <= t + done[i]
  BY <1>1 DEF Busy
<1>4. now - t >= Period[i]
  <2>1. (now + 1) * Period[i] > now - t
    <3>1. (now + 1) * Period[i] = now * Period[i] + Period[i] /\ now * Period[i] >= now
      <4>1. now * (Period[i] - 1) >= 0 /\ now * (Period[i] - 1) = now * Period[i] - now
            /\ now * Period[i] \in Int
        <5>1. Period[i] - 1 \in Nat
          BY <1>2
        <5> QED BY <1>2, <5>1, Multiples
      <4>2. (now + 1) * Period[i] = now * Period[i] + Period[i]
        BY <1>2
      <4> QED BY <1>2, <4>1, <4>2
    <3>2. now * Period[i] \in Int
      BY <1>2
    <3> DEFINE x == now * Period[i]
    <3>3. x \in Int /\ (now + 1) * Period[i] = x + Period[i] /\ x >= now
      BY <3>1, <3>2
    <3> HIDE DEF x
    <3> QED BY <1>2, <1>3, <3>3
  <2> QED BY <1>1, <1>2, <2>1, ServedBound
<1>5. PICK L \in Nat : L = now - t
  BY <1>2, <1>3, <1>4
<1>6. PICK Jobs, Demand :
        /\ Jobs \in [1..i -> Nat] /\ Demand \in [0..i -> Nat]
        /\ \A j \in 1..(i - 1) : Jobs[j] * Period[j] > L
        /\ (Jobs[i] + 1) * Period[i] > L
        /\ Demand[0] = 0 /\ Demand[i] <= L + 1
        /\ \A j \in 1..i : Demand[j] = Demand[j - 1] + Wcet[j] * Jobs[j]
  <2>1. \E Jobs, Demand : Affords(i, L, Jobs, Demand)
    BY <1>4, <1>5 DEF CatchesUp
  <2> QED BY <2>1 DEF Affords
<1>7. ASSUME NEW j \in 1..i
      PROVE  /\ Served(base, j) \in Int /\ Wcet[j] * Jobs[j] \in Int
             /\ Served(base, j) <= Wcet[j] * Jobs[j]
             /\ j = i => Served(base, j) <= Wcet[j] * Jobs[j] - 1
  <2>1. Served(base, j) \in Int /\ Wcet[j] \in Nat /\ Jobs[j] \in Nat
    <3>1. Served(base, j) \in Int /\ Wcet[j] \in Nat
      BY <1>1, BusyFacts
    <3> QED BY <1>6, <3>1
  <2>2. Wcet[j] * Jobs[j] \in Int
    BY <2>1
  <2>3. CASE j = i
    <3>1. Served(base, j) <= Wcet[j] * Jobs[j] - 1
      BY <1>1, <1>5, <1>6, <2>1, <2>3, ServedBound
    <3>2. Served(base, j) \in Int
      BY <2>1
    <3> DEFINE x == Wcet[j] * Jobs[j]
    <3>3. x \in Int /\ Served(base, j) <= x - 1
      BY <2>2, <3>1
    <3> HIDE DEF x
    <3>4. Served(base, j) <= x
      BY <3>2, <3>3
    <3> QED BY <2>2, <3>1, <3>2, <3>4 DEF x
  <2>4. CASE j # i
    <3>1. j \in 1..(i - 1)
      BY <1>2, <2>4
    <3>2. Jobs[j] * Period[j] > now - t
      BY <1>5, <1>6, <3>1
    <3> QED BY <1>1, <2>1, <2>2, <2>4, <3>2, ServedBound
  <2> QED BY <2>3, <2>4
<1> DEFINE T == {k \in 0..i : done[k] <= Demand[k] /\ (k = i => done[k] < Demand[k])}
<1>8. 0 \in T
  BY <1>2, <1>3, <1>6
<1>9. ASSUME NEW k \in 0..(i - 1), k \in T PROVE k + 1 \in T
  <2>1. k + 1 \in 1..i /\ (k + 1) - 1 = k /\ k \in 0..i /\ k + 1 \in 0..i
    BY <1>2
  <2>2. /\ Demand[k + 1] = Demand[k] + Wcet[k + 1] * Jobs[k + 1]
        /\ done[k + 1] = done[k] + Served(base, k + 1)
    BY <1>1, <1>6, <2>1 DEF Busy
  <2>3. /\ done[k] \in Nat /\ done[k + 1] \in Nat /\ Demand[k] \in Nat
        /\ Demand[k + 1] \in Nat /\ done[k] <= Demand[k]
    BY <1>3, <1>6, <1>9, <2>1
  <2> DEFINE x == Wcet[k + 1] * Jobs[k + 1]
             y == Served(base, k + 1)
  <2>4. x \in Int /\ y \in Int /\ y <= x /\ (k + 1 = i => y <= x - 1)
    BY <1>7, <2>1
  <2>5. Demand[k + 1] = Demand[k] + x /\ done[k + 1] = done[k] + y
    BY <2>2
  <2> HIDE DEF x, y
  <2>6. done[k + 1] <= Demand[k + 1] /\ (k + 1 = i => done[k + 1] < Demand[k + 1])
    <3> HIDE DEF T
    <3>2. done[k] + y <= Demand[k] + x
      BY <2>3, <2>4
    <3>3. k + 1 = i => done[k] + y < Demand[k] + x
      BY <2>3, <2>4
    <3>4. done[k + 1] <= Demand[k + 1]
      BY <2>5, <3>2, Zenon
    <3>5. k + 1 = i => done[k + 1] < Demand[k + 1]
      BY <2>5, <3>3, Zenon
    <3> QED BY <3>4, <3>5
  <2> QED BY <2>1, <2>6
<1>10. i \in T
  <2> HIDE DEF T
  <2>1. 0..i \subseteq T
    BY <1>2, <1>8, <1>9, InductionUpTo
  <2> QED BY <1>2, <2>1
<1>11. done[i] < Demand[i] /\ done[i] \in Nat /\ Demand[i] \in Nat
  BY <1>2, <1>3, <1>6, <1>10
<1>12. ticks <= t + done[i] /\ now = t + L /\ Demand[i] <= L + 1
  BY <1>2, <1>3, <1>5, <1>6
<1>13. ticks > now /\ ticks \in Nat /\ t \in Nat
  BY <1>2, <1>3
<1> HIDE DEF T
<1> QED BY <1>11, <1>12, <1>13

\* However long the scheduler was kept from running, once it has consumed the
\* ticks that piled up no task is behind by a whole period, for every set of
\* tasks that ask for no more than the processor has.
THEOREM StallsMadeUp == ASSUME CatchesUp PROVE Spec => []StallsAreMadeUp
<1> DEFINE Inv == IInv /\ StallInv
<1>1. Init => Inv
  BY InitInv, StallInit DEF IInv
<1>2. Inv /\ [Next]_vars => Inv'
  BY TypeStep, PreemptionStep, ReleaseStep, StallStep DEF IInv
<1>3. Inv => StallsAreMadeUp
  <2> SUFFICES ASSUME IInv, StallInv, ticks > now, NEW i \in TaskId
               PROVE  now < Deadline(i)
    BY DEF StallsAreMadeUp
  <2>1. ~(now >= Deadline(i))
    BY NothingOverdue DEF IInv
  <2>2. now \in Nat /\ Deadline(i) \in Nat
    BY TasksAssumption DEF IInv, TypeOK, Deadline
  <2> QED BY <2>1, <2>2
<1> QED BY <1>1, <1>2, <1>3, PTL DEF Spec

\* The satellite's tasks catch up after a stall of any length.
COROLLARY SatelliteTasksCatchUp ==
  ASSUME N = 3, Period = <<100, 500, 1000>>, Wcet = <<5, 20, 50>>
  PROVE  Spec => []StallsAreMadeUp
<1>1. CatchesUp
  <2> SUFFICES ASSUME NEW i \in TaskId, NEW L \in Nat, L >= Period[i]
               PROVE  \E Jobs, Demand : Affords(i, L, Jobs, Demand)
    BY DEF CatchesUp
  <2>1. PICK a \in Nat : 100 * a <= L /\ L < 100 * (a + 1)
    <3>1. L \div 100 \in Nat /\ 100 * (L \div 100) <= L /\ L < 100 * ((L \div 100) + 1)
      OBVIOUS
    <3> QED BY <3>1
  <2>2. PICK b \in Nat : 500 * b <= L /\ L < 500 * (b + 1)
    <3>1. L \div 500 \in Nat /\ 500 * (L \div 500) <= L /\ L < 500 * ((L \div 500) + 1)
      OBVIOUS
    <3> QED BY <3>1
  <2>3. PICK c \in Nat : 1000 * c <= L /\ L < 1000 * (c + 1)
    <3>1. L \div 1000 \in Nat /\ 1000 * (L \div 1000) <= L /\ L < 1000 * ((L \div 1000) + 1)
      OBVIOUS
    <3> QED BY <3>1
  <2>4. CASE i = 1
    <3> DEFINE Jobs == [j \in 1..i |-> a]
               Demand == [j \in 0..i |-> IF j = 0 THEN 0 ELSE 5 * a]
    <3>1. Jobs \in [1..i -> Nat] /\ Demand \in [0..i -> Nat]
      BY <2>4
    <3>2. /\ \A j \in 1..(i - 1) : Jobs[j] * Period[j] > L
          /\ (Jobs[i] + 1) * Period[i] > L
          /\ Demand[0] = 0 /\ Demand[i] <= L + 1
          /\ \A j \in 1..i : Demand[j] = Demand[j - 1] + Wcet[j] * Jobs[j]
      BY <2>1, <2>4
    <3> HIDE DEF Jobs, Demand
    <3>3. Affords(i, L, Jobs, Demand)
      BY <3>1, <3>2 DEF Affords
    <3> QED BY <3>3
  <2>5. CASE i = 2
    <3> DEFINE Jobs == [j \in 1..i |-> IF j = 1 THEN a + 1 ELSE b]
               Demand == [j \in 0..i |-> IF j = 0 THEN 0 ELSE IF j = 1 THEN 5 * (a + 1)
                                         ELSE 5 * (a + 1) + 20 * b]
    <3>1. Jobs \in [1..i -> Nat] /\ Demand \in [0..i -> Nat]
      BY <2>5
    <3>2. /\ \A j \in 1..(i - 1) : Jobs[j] * Period[j] > L
          /\ (Jobs[i] + 1) * Period[i] > L
      BY <2>1, <2>2, <2>5
    <3>3. Demand[0] = 0 /\ Demand[i] <= L + 1
      BY <2>1, <2>2, <2>5
    <3>4. \A j \in 1..i : Demand[j] = Demand[j - 1] + Wcet[j] * Jobs[j]
      BY <2>5
    <3> HIDE DEF Jobs, Demand
    <3>5. Affords(i, L, Jobs, Demand)
      BY <3>1, <3>2, <3>3, <3>4 DEF Affords
    <3> QED BY <3>5
  <2>6. CASE i = 3
    <3> DEFINE Jobs == [j \in 1..i |-> IF j = 1 THEN a + 1 ELSE IF j = 2 THEN b + 1 ELSE c]
               Demand == [j \in 0..i |-> IF j = 0 THEN 0 ELSE IF j = 1 THEN 5 * (a + 1)
                                         ELSE IF j = 2 THEN 5 * (a + 1) + 20 * (b + 1)
                                         ELSE 5 * (a + 1) + 20 * (b + 1) + 50 * c]
    <3>1. Jobs \in [1..i -> Nat] /\ Demand \in [0..i -> Nat]
      BY <2>6
    <3>2. /\ \A j \in 1..(i - 1) : Jobs[j] * Period[j] > L
          /\ (Jobs[i] + 1) * Period[i] > L
      BY <2>1, <2>2, <2>3, <2>6
    <3>3. Demand[0] = 0 /\ Demand[i] <= L + 1
      BY <2>1, <2>2, <2>3, <2>6
    <3>4. \A j \in 1..i : Demand[j] = Demand[j - 1] + Wcet[j] * Jobs[j]
      BY <2>6
    <3> HIDE DEF Jobs, Demand
    <3>5. Affords(i, L, Jobs, Demand)
      BY <3>1, <3>2, <3>3, <3>4 DEF Affords
    <3> QED BY <3>5
  <2>7. i = 1 \/ i = 2 \/ i = 3
    BY DEF TaskId
  <2> QED BY <2>4, <2>5, <2>6, <2>7
<1> QED BY <1>1, StallsMadeUp

=============================================================================
