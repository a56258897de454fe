\* A hold while a TCP move is under way.
CONSTANTS
    Threads = {t1, t2}
    Stream = stream
    Ops = {"couple", "tcp", "hold"}
    MaxFaults = 0
    MaxLocks = 0
SPECIFICATION Spec
PROPERTIES HoldStopsMotion
