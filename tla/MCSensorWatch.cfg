\* A period and a half a second, a channel of one sample; the thread wakes up as
\* much as a period late, and so does the watchdog.
CONSTANTS
  Period = 2
  JitterLimit = 0
  ChannelCap = 1
  Start = 1
  TicksPerS = 3
  Timeout = 1
  Lateness = 2
  MaxTime = 20
SPECIFICATION Spec
INVARIANT MissesComeFromLateSamples
INVARIANT NoFalseAlarm
INVARIANT StuckTaskIsReported
INVARIANT ThreadEndsInTime
CHECK_DEADLOCK FALSE
