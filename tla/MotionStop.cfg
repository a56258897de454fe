\* Programs and a stop, one failure.
CONSTANTS
    Threads = {t1, t2}
    Stream = stream
    Ops <- LoopOps
    MaxFaults = 1
    MaxLocks = 0
SPECIFICATION FairSpec
PROPERTIES StopEndsPrograms
