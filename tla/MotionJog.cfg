\* Two jogging clients, a move, the hold button, one failure.
CONSTANTS
    Threads = {t1, t2}
    Stream = stream
    Ops <- JogOps
    MaxFaults = 1
    MaxLocks = 0
SPECIFICATION Spec
INVARIANTS TypeOK Exclusive PreemptStopsMovers
SYMMETRY Symmetry
