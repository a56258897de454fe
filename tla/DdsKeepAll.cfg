\* KEEP_ALL: three writes, a high-water mark and reorder buffers of one sample.
SPECIFICATION Spec
CONSTANTS
  MaxSamples = 1
  Start = 1
  MaxSeq = 4
  Depth = 0
  InstanceOf <- MCInstanceOf
  WhcHigh = 1
  WhcLow = 0
  MaxDown = 2
  MaxUp = 2
  Duplicates = FALSE
INVARIANTS
  TypeOK AckedWasDelivered InOrder Recoverable
PROPERTIES
  ImplementsChannel
CHECK_DEADLOCK FALSE
