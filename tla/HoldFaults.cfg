\* One client at a time; two failures and a restart. A failed save ends the writer.
CONSTANTS
    Handlers = {h1}
    p1 = p1
    p2 = p2
    Poses = {p1, p2}
    NoPose = NoPose
    Nobody = Nobody
    Batches <- MCLiveBatches
    MaxFaults = 2
    MaxTimeouts = 0
    MaxStops = 1
SPECIFICATION FairSpec
INVARIANTS HoldActiveMeansTold
PROPERTIES ImplementsRegister CallsReturn HeldPoseReachesArm
CHECK_DEADLOCK FALSE
