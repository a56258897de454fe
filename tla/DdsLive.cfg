\* KEEP_ALL under fairness: each write waits for the acknowledgement before.
SPECIFICATION FairSpec
CONSTANTS
  MaxSamples = 1
  Start = 0
  MaxSeq = 3
  Depth = 0
  InstanceOf <- MCInstanceOf
  WhcHigh = 0
  WhcLow = 0
  MaxDown = 1
  MaxUp = 1
  Duplicates = TRUE
PROPERTIES
  EverythingArrives ThrottledGoesOn ImplementsChannel
CHECK_DEADLOCK FALSE
