\* KEEP_LAST of depth 1: the third sample is overwritten by the fourth.
SPECIFICATION Spec
CONSTANTS
  MaxSamples = 4
  Start = 0
  MaxSeq = 4
  Depth = 1
  InstanceOf <- MCInstanceOf
  WhcHigh = 4
  WhcLow = 4
  MaxDown = 1
  MaxUp = 1
  Duplicates = FALSE
INVARIANTS
  AckedWasDelivered
CHECK_DEADLOCK FALSE
