\* Two readings fill the buffer, two packets make a window; one miss is one too
\* many.  Every writer of the mode is at work, every command comes, and the
\* dashboard may quit.
CONSTANTS
  Capacity = 2
  Batch = 2
  MissAlert = 1
  RecoveryPolls = 2
  MaxRetransmit = 1
  FaultChCap = 1
  SoftSensors = {"power"}
  Jitter = {TRUE, FALSE}
  Commands = {"EmergencyStop", "SafeMode", "ResetSensor", "RequestTelemetry"}
  Cancellers = {"ui"}
SPECIFICATION Spec
INVARIANT TypeOK
INVARIANT AtMostOneBatchAfterAbort
INVARIANT OpenCircuitMeansAbort
INVARIANT RecoveryIsEarned
PROPERTY ImplementsModes
CHECK_DEADLOCK FALSE
