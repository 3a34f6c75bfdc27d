\* Five places, so that 80% is reached exactly by the fourth reading; nine
\* readings of three sensors overfill it; two timestamps, so that readings of
\* one sensor may tie.
CONSTANTS
  Capacity = 5
  MaxSamples = 3
  MaxTime = 1
SPECIFICATION Spec
INVARIANT TypeOK
INVARIANT Conserved
INVARIANT DegradedIsCurrent
PROPERTY PopsInSampleOrder
PROPERTY KeepsTheBest
CHECK_DEADLOCK FALSE
