\* The ground sends ResetSensor only, and no sample misses its jitter limit.
CONSTANTS
  Capacity = 2
  Batch = 2
  MissAlert = 1
  RecoveryPolls = 3
  MaxRetransmit = 1
  FaultChCap = 1
  SoftSensors = {}
  Jitter = {FALSE}
  Commands = {"ResetSensor"}
  Cancellers = {}
SPECIFICATION Spec
INVARIANT ResetInTimeRecovers
CHECK_DEADLOCK FALSE
