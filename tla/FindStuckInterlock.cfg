\* The connection closes while a fault is being answered.
CONSTANTS
  NumSensors = 1
  GapLimit = 2
  Late = {FALSE}
  LinkCloses = TRUE
  MayCancel = FALSE
  MaxPending = 1
  MaxQueue = 1
SPECIFICATION Spec
INVARIANT InterlockIsTimed
CHECK_DEADLOCK FALSE
