---------------------------- MODULE MissionModes ----------------------------
(***************************************************************************)
(* The satellite's modes and the changes the program as a whole may make,  *)
(* whoever makes them.  Four tasks write the mode under its mutex, two of  *)
(* them from a value they read earlier; this is the state machine their    *)
(* writes must add up to (satellite/src/state.rs).                         *)
(***************************************************************************)

CONSTANTS Nominal, Degraded, SafeMode, Fault, MissionAbort

VARIABLE mode

SystemState == {Nominal, Degraded, SafeMode, Fault, MissionAbort}

Init == mode = Nominal

\* The buffer fills up; nothing but a nominal satellite is degraded by it.
Degrade == mode = Nominal /\ mode' = Degraded

\* The buffer drains, or the ground resets a faulty or safe satellite.
Restore == mode \in {Degraded, SafeMode, Fault} /\ mode' = Nominal

\* The ground commands safe mode, which a fault or an abort overrides.
GoSafe == mode \in {Nominal, Degraded} /\ mode' = SafeMode

\* Any working satellite may meet an autonomous fault.
Fail == mode \in {Nominal, Degraded, SafeMode} /\ mode' = Fault

\* A mission is aborted once, and for good: the reset the ground sends "to clear
\* its fault/abort state" (ground/src/fault_mgr.rs:109) is blocked in an abort
\* (satellite/src/uplink_rx.rs:136-146), so Restore is not for it.
Abort == mode # MissionAbort /\ mode' = MissionAbort

Next == Degrade \/ Restore \/ GoSafe \/ Fail \/ Abort

Spec == Init /\ [][Next]_mode
=============================================================================
