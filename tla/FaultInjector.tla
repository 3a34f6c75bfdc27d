---------------------------- MODULE FaultInjector ----------------------------
(***************************************************************************)
(* The task that injects a fault once a minute, tells the ground station,  *)
(* and waits a limited time for the mode to be nominal again               *)
(* (satellite/src/fault.rs).  The limit is counted in polls of the mode:   *)
(* the first comes at once, the others every 10 ms; late polls are made up *)
(* for before the timeout is looked at.                                    *)
(***************************************************************************)
EXTENDS SatelliteShared

VARIABLES ipc,      \* "sleep", "fault", "notify", "wait" or "abort"
          circuit,  \* CircuitState, "Closed" or "Open"
          unseen,   \* has the cancel signal a value this task has not seen?
          waited,   \* polls of the mode in this recovery
          outcome   \* how the last injection ended

injectorVars == <<ipc, circuit, unseen, waited, outcome>>

InjectorInit == /\ ipc = "sleep" /\ circuit = "Closed" /\ unseen = FALSE
                /\ waited = 0 /\ outcome = "none"

\* The interval is over and the circuit closed: the mode becomes Fault.
InjectFault ==
  /\ "injector" \in running
  /\ ipc = "sleep"
  /\ circuit = "Closed"
  /\ state' = IF state \in {"Nominal", "Degraded", "SafeMode"}
              THEN "Fault" ELSE state
  /\ ipc' = "fault"
  /\ outcome' = "none"
  /\ resetDuring' = "no"
  /\ UNCHANGED <<buf, rq, faultCh, cancelled, running, sentInAbort,
                 circuit, unseen, waited>>

\* The simulated fault condition has lasted its 50 or 150 ms.
FaultCondition ==
  /\ "injector" \in running
  /\ ipc = "fault"
  /\ ipc' = "notify"
  /\ UNCHANGED <<shared, circuit, unseen, waited, outcome>>

\* The fault packet enters the channel, as soon as there is room; once the
\* receiver is gone the send fails at once and its error is ignored.
Notify ==
  /\ "injector" \in running
  /\ ipc = "notify"
  /\ IF "downlink" \in running
     THEN faultCh < FaultChCap /\ faultCh' = faultCh + 1
     ELSE UNCHANGED faultCh
  /\ ipc' = "wait"
  /\ UNCHANGED <<state, buf, rq, cancelled, running, resetDuring,
                 sentInAbort, circuit, unseen, waited, outcome>>

\* A mutant: any mode other than Fault is taken for a recovery.
Recovered_NotFault ==
  /\ "injector" \in running
  /\ ipc = "wait"
  /\ waited < RecoveryPolls
  /\ state # "Fault"
  /\ outcome' = "recovered"
  /\ circuit' = "Closed"
  /\ ipc' = "sleep"
  /\ waited' = 0
  /\ UNCHANGED <<shared, unseen>>

\* wait_for_nominal finds the mode nominal.
Recovered ==
  /\ "injector" \in running
  /\ ipc = "wait"
  /\ waited < RecoveryPolls
  /\ state = "Nominal"
  /\ outcome' = "recovered"
  /\ circuit' = "Closed"
  /\ ipc' = "sleep"
  /\ waited' = 0
  /\ UNCHANGED <<shared, unseen>>

\* wait_for_nominal finds another mode and waits for its next tick.
PollAgain ==
  /\ "injector" \in running
  /\ ipc = "wait"
  /\ waited < RecoveryPolls
  /\ state # "Nominal"
  /\ waited' = waited + 1
  /\ resetDuring' = IF resetDuring = "applied" THEN "missed" ELSE resetDuring
  /\ UNCHANGED <<state, buf, rq, faultCh, cancelled, running,
                 sentInAbort, ipc, circuit, unseen, outcome>>

\* wait_for_nominal sees the cancel signal.  It returns as it does on success,
\* and the signal now counts as seen.
CancelledInWait ==
  /\ "injector" \in running
  /\ ipc = "wait"
  /\ unseen
  /\ unseen' = FALSE
  /\ outcome' = "recovered"
  /\ circuit' = "Closed"
  /\ ipc' = "sleep"
  /\ waited' = 0
  /\ UNCHANGED shared

\* The time limit passes.
TimedOut ==
  /\ "injector" \in running
  /\ ipc = "wait"
  /\ waited = RecoveryPolls
  /\ ipc' = "abort"
  /\ waited' = 0
  /\ UNCHANGED <<shared, circuit, unseen, outcome>>

\* A mutant: the circuit opens but the mode is left alone.
AbortMission_ModeKept ==
  /\ "injector" \in running
  /\ ipc = "abort"
  /\ circuit' = "Open"
  /\ outcome' = "aborted"
  /\ ipc' = "sleep"
  /\ UNCHANGED <<shared, unseen, waited>>

\* A mutant: the mission is aborted but the circuit stays closed.
AbortMission_CircuitKept ==
  /\ "injector" \in running
  /\ ipc = "abort"
  /\ state' = "MissionAbort"
  /\ outcome' = "aborted"
  /\ ipc' = "sleep"
  /\ UNCHANGED <<buf, rq, faultCh, cancelled, running, resetDuring,
                 sentInAbort, circuit, unseen, waited>>

\* The mission is aborted and the circuit opened for good.
AbortMission ==
  /\ "injector" \in running
  /\ ipc = "abort"
  /\ state' = "MissionAbort"
  /\ circuit' = "Open"
  /\ outcome' = "aborted"
  /\ ipc' = "sleep"
  /\ UNCHANGED <<buf, rq, faultCh, cancelled, running, resetDuring,
                 sentInAbort, unseen, waited>>

\* A second later the open circuit ends the task.
StopOnOpenCircuit ==
  /\ "injector" \in running
  /\ ipc = "sleep"
  /\ circuit = "Open"
  /\ running' = running \ {"injector"}
  /\ UNCHANGED <<state, buf, rq, faultCh, cancelled, resetDuring,
                 sentInAbort, injectorVars>>

\* The cancel branch of the outer select!.
InjectorCancel ==
  /\ ipc = "sleep"
  /\ unseen
  /\ Return("injector")
  /\ UNCHANGED <<state, buf, rq, faultCh, cancelled, resetDuring,
                 sentInAbort, injectorVars>>

InjectorNext == \/ InjectFault \/ FaultCondition \/ Notify
                \/ Recovered \/ PollAgain \/ CancelledInWait \/ TimedOut
                \/ AbortMission \/ StopOnOpenCircuit \/ InjectorCancel

InjectorTypeOK == /\ ipc \in {"sleep", "fault", "notify", "wait", "abort"}
                  /\ circuit \in {"Closed", "Open"}
                  /\ unseen \in BOOLEAN
                  /\ waited \in 0..RecoveryPolls
                  /\ outcome \in {"none", "recovered", "aborted"}
=============================================================================
