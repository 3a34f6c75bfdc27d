\* Both senders of the cancel signal, in either order and at any moment; faults
\* are declared by the injector and by the thermal task alike.
CONSTANTS
  Capacity = 1
  Batch = 1
  MissAlert = 1
  RecoveryPolls = 1
  MaxRetransmit = 1
  FaultChCap = 1
  SoftSensors = {}
  Jitter = {TRUE, FALSE}
  Commands = {"ResetSensor"}
  Cancellers = {"ui", "main"}
SPECIFICATION FairSpec
PROPERTY FaultEnds
PROPERTY FaultsAreForwarded
PROPERTY ShutdownCompletes
CHECK_DEADLOCK FALSE
