\* The connection closes and is opened again, any number of times; the
\* cancel signal is sent at any moment, or never.
CONSTANTS
  NumSensors = 1
  GapLimit = 1
  Late = {FALSE}
  LinkCloses = TRUE
  MayCancel = TRUE
  MaxPending = 1
  MaxQueue = 1
SPECIFICATION FairSpec
INVARIANT LeftoversAreSound
PROPERTY FaultIsAnswered
PROPERTY SessionIsCleanedUp
PROPERTY GroundShutdownCompletes
CHECK_DEADLOCK FALSE
