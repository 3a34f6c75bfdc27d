\* Deadlines are to be met with ticks up to 2 ms late (at 3 ms one is missed); the
\* scheduler may be kept from running for a hyperperiod and a half.
CONSTANTS
  N = 3
  Period <- MCPeriod
  Wcet <- MCWcet
  Slack = 2
  MaxLag = 36
  MaxTime = 48
SPECIFICATION Spec
INVARIANT TypeOK
INVARIANT PreemptionsAreTold
INVARIANT DeadlinesMet
INVARIANT StallsAreMadeUp
INVARIANT EveryReleaseRuns
CHECK_DEADLOCK FALSE
