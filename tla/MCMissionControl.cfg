\* One fault at a time, with its two commands; either side may shut down at any
\* moment, not both.
CONSTANTS
  RecoveryPolls = 1
  FaultChCap = 1
  Cancellers = {"main"}
  Late = {TRUE, FALSE}
  MayCancel = TRUE
  BothEnd = FALSE
  MaxPending = 1
  Socket = 1
SPECIFICATION FairSpec
INVARIANT EveryFaultIsAccountedFor
INVARIANT SafeModeIsTemporary
CHECK_DEADLOCK FALSE
PROPERTY FaultRoundTrip
PROPERTY SatelliteEndIsNoticed
PROPERTY StationEndIsNoticed
