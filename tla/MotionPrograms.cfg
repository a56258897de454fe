\* Programs and moves against the buttons, a flat battery, one failure.
CONSTANTS
    Threads = {t1, t2}
    Stream = stream
    Ops <- ProgramOps
    MaxFaults = 1
    MaxLocks = 1
SPECIFICATION Spec
INVARIANTS Exclusive PreemptStopsMovers PreemptHasOwner HoldLeavesCoupled
SYMMETRY Symmetry
