\* A couple-only batch against a release.
CONSTANTS
    Handlers = {h1, h2}
    p1 = p1
    p2 = p2
    Poses = {p1, p2}
    NoPose = NoPose
    Nobody = Nobody
    Batches <- MCRaceBatches
    MaxFaults = 0
    MaxTimeouts = 0
    MaxStops = 0
SPECIFICATION Spec
INVARIANTS CoupleWithoutPoseRejected
