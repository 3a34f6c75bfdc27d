\* One long session; two faults may overlap, each with or without an alert.
CONSTANTS
  NumSensors = 1
  GapLimit = 2
  Late = {TRUE, FALSE}
  LinkCloses = FALSE
  MayCancel = FALSE
  MaxPending = 2
  MaxQueue = 1
SPECIFICATION DispatchSpec
INVARIANT TypeOK
INVARIANT AtMostOneSlips
INVARIANT ResetFollowsSafeMode
INVARIANT InterlockIsTimed
CHECK_DEADLOCK FALSE
