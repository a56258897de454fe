\* Two handlers, a timed-out call, two restarts.
CONSTANTS
    Handlers = {h1, h2}
    p1 = p1
    p2 = p2
    Poses = {p1, p2}
    NoPose = NoPose
    Nobody = Nobody
    Batches <- MCBatches
    MaxFaults = 0
    MaxTimeouts = 1
    MaxStops = 2
SPECIFICATION Spec
INVARIANTS TypeOK OneInFlight SavedOrPending CoupledPoseComing
PROPERTIES ImplementsRegister
SYMMETRY Symmetry
