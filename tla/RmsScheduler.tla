---------------------------- MODULE RmsScheduler ----------------------------
(***************************************************************************)
(* The rate-monotonic scheduler that simulates one processor               *)
(* (satellite/src/scheduler.rs).  A tick every millisecond gives one       *)
(* quantum to the first task with work; tasks are listed by priority.  The *)
(* interval's missed ticks are not lost: they fire one after the other as  *)
(* soon as the scheduler runs again, all at the same reading of the clock. *)
(* Times are whole milliseconds since the scheduler started.               *)
(***************************************************************************)
EXTENDS Integers

CONSTANTS N,        \* number of tasks
          Period,   \* period of each task, which is also its deadline
          Wcet,     \* quanta a job of each task takes
          Slack,    \* lateness of ticks up to which deadlines should be met
          MaxLag,   \* bound: ticks the scheduler may be behind the clock
          MaxTime   \* bound: the clock stops here

TaskId == 1..N

ASSUME TasksAssumption ==
  /\ N \in Nat \ {0}
  /\ Period \in [TaskId -> Nat \ {0}]
  /\ Wcet \in [TaskId -> Nat \ {0}]
ASSUME BoundsAssumption == Slack \in Nat /\ MaxLag \in Nat /\ MaxTime \in Nat

VARIABLES now,             \* the clock
          ticks,           \* ticks consumed; the next is due at this time
          running,         \* has the loop not been cancelled?
          next_release,    \* per task, as are the next three
          pending_work,
          exec_count,
          miss_count,
          last_running,    \* the task of the last quantum, 0 for None
          preempted,       \* history: preemptions logged of each current job
          stalled          \* history: were ticks ever later than Slack?

taskVars == <<next_release, pending_work, exec_count, miss_count>>
vars == <<now, ticks, running, taskVars, last_running, preempted, stalled>>

Init == /\ now = 0 /\ ticks = 0 /\ running = TRUE
        /\ next_release = Period
        /\ pending_work = [i \in TaskId |-> 0]
        /\ exec_count = [i \in TaskId |-> 0]
        /\ miss_count = [i \in TaskId |-> 0]
        /\ last_running = 0
        /\ preempted = [i \in TaskId |-> 0]
        /\ stalled = FALSE

\* A mutant: a job is released while the previous one is unfinished.
Work_Piled(i) == IF now >= next_release[i]
                 THEN pending_work[i] + Wcet[i] ELSE pending_work[i]

\* What a task has to do once the tick has released the jobs that are due; a
\* task with work left gets no second job.
Work(i) == IF pending_work[i] = 0 /\ now >= next_release[i]
           THEN Wcet[i] ELSE pending_work[i]

\* A mutant: the last task with work runs, not the first.
Highest_Lowest(i) == Work(i) > 0 /\ \A j \in (i + 1)..N : Work(j) = 0

\* The first task with work; the tick's quantum is its.
Highest(i) == Work(i) > 0 /\ \A j \in 1..(i - 1) : Work(j) = 0

\* The release of a job is next_release, which its completion moves on.
Deadline(i) == next_release[i] + Period[i]

\* The job of the last quantum is unfinished and i is more urgent.
Preempts(i, p) == p # 0 /\ i < p

\* A mutant: the scheduler keeps the finished task as the one that ran last.
Finish_KeepLast(i) ==
  /\ \E late \in {now > Deadline(i), now >= Deadline(i)} :
       miss_count' = IF late THEN [miss_count EXCEPT ![i] = @ + 1]
                     ELSE miss_count
  /\ next_release' = [next_release EXCEPT ![i] = @ + Period[i]]
  /\ exec_count' = [exec_count EXCEPT ![i] = @ + 1]
  /\ last_running' = i

\* A mutant: the next release is counted from the end of this job.
Finish_Drifting(i) ==
  /\ \E late \in {now > Deadline(i), now >= Deadline(i)} :
       miss_count' = IF late THEN [miss_count EXCEPT ![i] = @ + 1]
                     ELSE miss_count
  /\ next_release' = [next_release EXCEPT ![i] = now + Period[i]]
  /\ exec_count' = [exec_count EXCEPT ![i] = @ + 1]
  /\ last_running' = 0

\* The job's last quantum.  In the millisecond of the deadline itself the
\* clock's finer digits decide whether it is missed.
Finish(i) ==
  /\ \E late \in {now > Deadline(i), now >= Deadline(i)} :
       miss_count' = IF late THEN [miss_count EXCEPT ![i] = @ + 1]
                     ELSE miss_count
  /\ next_release' = [next_release EXCEPT ![i] = @ + Period[i]]
  /\ exec_count' = [exec_count EXCEPT ![i] = @ + 1]
  /\ last_running' = 0

\* A tick that finds work.
RunQuantum(i) ==
  /\ running /\ ticks <= now
  /\ Highest(i)
  /\ ticks' = ticks + 1
  /\ pending_work' = [j \in TaskId |-> IF j = i THEN Work(i) - 1 ELSE Work(j)]
  /\ preempted' = [j \in TaskId |->
                     IF j = last_running /\ Preempts(i, last_running)
                     THEN preempted[j] + 1
                     ELSE IF j = i /\ Work(i) = 1 THEN 0 ELSE preempted[j]]
  /\ IF Work(i) = 1
     THEN Finish(i)
     ELSE /\ last_running' = i
          /\ UNCHANGED <<next_release, exec_count, miss_count>>
  /\ UNCHANGED <<now, running, stalled>>

\* A tick that finds none.
Idle ==
  /\ running /\ ticks <= now
  /\ \A i \in TaskId : Work(i) = 0
  /\ ticks' = ticks + 1
  /\ last_running' = 0
  /\ UNCHANGED <<now, running, taskVars, preempted, stalled>>

\* A millisecond passes; the scheduler may be kept from running meanwhile.
Advance ==
  /\ now < MaxTime
  /\ now + 1 - ticks <= MaxLag
  /\ now' = now + 1
  /\ stalled' = (stalled \/ now' - ticks > Slack)
  /\ UNCHANGED <<ticks, running, taskVars, last_running, preempted>>

Cancel == /\ running
          /\ running' = FALSE
          /\ UNCHANGED <<now, ticks, taskVars, last_running, preempted, stalled>>

Next == Idle \/ Advance \/ Cancel \/ \E i \in TaskId : RunQuantum(i)

Spec == Init /\ [][Next]_vars

-----------------------------------------------------------------------------

\* Types; no job has more left to do than a whole job.
TypeOK ==
  /\ now \in Nat /\ ticks \in Nat /\ running \in BOOLEAN
  /\ next_release \in [TaskId -> Nat]
  /\ pending_work \in [TaskId -> Nat]
  /\ \A i \in TaskId : pending_work[i] <= Wcet[i]
  /\ exec_count \in [TaskId -> Nat]
  /\ miss_count \in [TaskId -> Nat]
  /\ last_running \in 0..N
  /\ preempted \in [TaskId -> Nat]
  /\ stalled \in BOOLEAN

\* A started job that is not the one that ran last was preempted, and the log
\* says so; and nothing is logged as preempted but a job caught in the middle
\* of its work.  last_running is cleared and set in four places.
PreemptionsAreTold ==
  \A i \in TaskId :
    /\ pending_work[i] \in 1..(Wcet[i] - 1) /\ last_running # i
         => preempted[i] > 0
    /\ preempted[i] > 0 => pending_work[i] \in 1..(Wcet[i] - 1)

\* Every job is done before its deadline, the jobs not finished yet included,
\* which the miss counters do not see, while ticks are late by at most Slack:
\* the task set is schedulable by rate-monotonic priorities.
DeadlinesMet ==
  running /\ ~stalled => \A i \in TaskId : miss_count[i] = 0 /\ now <= Deadline(i)

\* However long the scheduler was kept from running, once it has consumed the
\* ticks that piled up no task is behind by a whole period.
StallsAreMadeUp ==
  running /\ ticks > now => \A i \in TaskId : now < Deadline(i)

\* No release is skipped, however late: a task's k-th job is the one released
\* at k periods, and it is not begun before that.
EveryReleaseRuns ==
  \A i \in TaskId :
    /\ next_release[i] = Period[i] * (exec_count[i] + 1)
    /\ pending_work[i] > 0 => now >= next_release[i]
=============================================================================
